------------------------------ MODULE MCManager ------------------------------
(***************************************************************************)
(* Relay boards on two buses and a light on one of them, a configuration   *)
(* in which most is wrong, and a message of every kind.                    *)
(***************************************************************************)
EXTENDS Manager

CONSTANTS c1, c2, rf

Ids     == <<"a", "b", "l">>
Classes == [c \in {c1, c2, rf} |-> IF c = rf THEN "rfswitch" ELSE "rs485"]

Board(c, address, count) ==
    [controller |-> c, class |-> "relay", address |-> address, baudrate |-> 9600, count |-> count]
Light(c, count) ==
    [controller |-> c, class |-> "light", address |-> 0, baudrate |-> 0, count |-> count]

Installed == [d \in {"a", "b", "l"} |->
    CASE d = "a" -> Board(c1, 1, 5) [] d = "b" -> Board(c2, 2, 1) [] d = "l" -> Light(c1, 2)]

Mistaken == [d \in {"a", "b", "l"} |->
    CASE d = "a" -> Board(c1, 0, 2) [] d = "b" -> Board(c2, 1, 1) [] d = "l" -> Light(rf, 0)]

TwoConfigs == {Installed, Mistaken}

On(d, nodes)      == [device |-> d, command |-> "undefined", all |-> FALSE, nodes |-> nodes]
All(d)            == [device |-> d, command |-> "undefined", all |-> TRUE, nodes |-> <<>>]
One(d, c, nodes)  == [form |-> "single", command |-> "undefined",
                      elements |-> <<[device |-> d, command |-> c, all |-> FALSE, nodes |-> nodes]>>]
Nodes(c, es)      == [form |-> "devnodes", command |-> c, elements |-> es]
Devices(c, ids)   == [form |-> "devices", command |-> c,
                      elements |-> [i \in DOMAIN ids |-> All(ids[i])]]

SomeMessages == {
    Devices("toggle", <<"a", "b">>), Devices("toggle", <<"a", "unknown">>),
    Devices("undefined", <<"a", "l">>),
    Nodes("toggle", <<On("l", <<0, 1>>), On("a", <<1>>)>>),
    Nodes("off", <<On("a", <<1>>), On("b", <<1, 7>>)>>),
    One("a", "toggle", <<1>>), One("a", "bad", <<1>>)}
=============================================================================
