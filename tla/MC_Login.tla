------------------------------ MODULE MC_Login ------------------------------
(* An alias of a machine with an account of its own, a machine known by its *)
(* name only, one behind the alias, and two that name each other as jump    *)
(* host; keys at home and elsewhere, with and without a passphrase.         *)
EXTENDS Login

Entry(host_, port_, user_, key_, jump_) ==
    [host |-> host_, port |-> port_, user |-> user_, key |-> key_, jump |-> jump_]
Unknown(name) == Entry(name, 22, None, None, None)

Config(key) ==
    [alias |-> Entry("real", 2222, "us", key, None),
     bare  |-> Unknown("bare"),
     deep  |-> Entry("deep", 22, None, key, "alias"),
     loop  |-> Entry("loop", 22, None, None, "back"),
     back  |-> Entry("back", 22, None, None, "loop")]

Accepts(real) ==
    [a \in {Account("real", 2222, "us"), Account("bare", 22, Me), Account("deep", 22, Me)} |->
        IF a.host = "bare" THEN {"id_ecdsa", "pw"} ELSE real]

World(agent, named, keys_, accepts_) ==
    [config |-> Config(named), agent |-> agent, keys |-> keys_, locked |-> {"id_rsa"},
     home |-> {"id_ecdsa", "id_rsa", "mine"}, accepts |-> accepts_, inner |-> {"deep"}]

MCWorlds ==
    {World(agent, named, keys_, Accepts(real)) :
        agent \in BOOLEAN, named \in {None, "mine", "shared"},
        keys_ \in {<< >>, <<"id_rsa">>, <<"id_rsa", "id_ecdsa">>},
        real \in {{Agent, "pw"}, {"mine", "pw"}, {"shared", "id_rsa", "pw"}, {"id_ecdsa", "pw"}}}

URL(name_, port_, user_) == [name |-> name_, port |-> port_, user |-> user_]
MCURLs == {URL("alias", None, None), URL("bare", None, None), URL("alias", 2222, "us"),
           URL("deep", None, None), URL("loop", None, None)}
=============================================================================
