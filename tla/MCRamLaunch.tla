----------------------------- MODULE MCRamLaunch -----------------------------
(* The accounts of the local ram for TLC (RamLaunch): everybody reads what is  *)
(* public, with and without an account of somebody and an administrator.       *)
EXTENDS RamLaunch

Public == [user |-> Anyone, password |-> <<>>, paths |-> {[path |-> <<"/", "public">>, perm |-> "ro"]}]
Ann == [user |-> "ann", password |-> <<"long", "word">>, paths |-> {[path |-> <<"/", "a">>, perm |-> "rw"]}]
MCRequests ==
    {[rules |-> rules, admin |-> admin] :
        rules \in SUBSET {Public, Ann}, admin \in {{}, {Manager("bob", <<"long", "secret">>)}}}
MCTokens == Separators \cup {"rw", "ro", "***", ".", "..", "ann", "bob", "long", "word", "secret", "a", "public"}
NothingElse == {<<>>}
MCSettings == {[auth |-> {}, management |-> <<>>]}
=============================================================================
