---------------------------- MODULE MCRamServer ----------------------------
(* ram for TLC: requests that change files (RamFiles), what a request may read *)
(* or change (RamAccess), downloads (RamDownloads), and the accounts that      *)
(* union keeps of a remote ram (RamRemote) and of the local one (RamLaunch).   *)
(* A behaviour belongs to one of them, `part`; the variables of the others     *)
(* stay as they start.                                                         *)
EXTENDS RamFiles, RamRemote, RamDownloads, RamAccess, RamLaunch
CONSTANTS pathA, pathB, uploader, member, manager,
          MaxRequests  \* bound: requests of the upload and of others together
OneTarget == [x \in {uploader} |-> pathA]

VARIABLE part

ANames == {"a", "b", "h", "l", "x", "new", "index.html"}
AFiles == {<<"a", "x">>, <<"a", "b", "x">>, <<"a", "h", "x">>, <<"index.html">>, <<"l", "x">>}
ALinks == {<<"l">>}
AMissing == {<<"a", "new">>, <<"l", "new">>, <<"a", "x", "new">>}
Ro(path) == [path |-> path, perm |-> 1]
Rw(path) == [path |-> path, perm |-> 2]
Root == <<>>
Dir == <<"a">>
Sub == <<"a", "b">>
AScopes == {<<Ro(Root)>>, <<Ro(Dir), Rw(Sub)>>, <<Rw(Sub), Ro(Dir)>>, <<Rw(Dir \o <<"x">>)>>,
             <<Rw(Dir), Ro(Root)>>, <<Rw(Root), Ro(Sub)>>, <<Rw(Sub), Ro(<<"l">>)>>,
             <<Rw(Dir \o <<"x", "new">>)>>}
Option(render, on) == [render |-> render, search |-> on, archive |-> on, upload |-> on,
                      delete |-> on, hash |-> on, symlink |-> ~on]
AOptions == {Option("list", TRUE), Option("try", TRUE), Option("list", FALSE), Option("spa", FALSE)}

LPath(path, perm) == [path |-> path, perm |-> perm]
LAccount(name, password, paths) == [user |-> name, password |-> password, paths |-> paths]
LPaths == {{LPath(<<"/">>, "ro")}, {LPath(<<"/", "a">>, "ro"), LPath(<<"/", "a", "/", ".", "/", "b">>, "rw")}}
LPasswords ==
    {<<"weak">>, <<"guest", ":">>, <<"long", "quote">>, <<"long", "word">>, <<"@", "long">>, <<"x", "@", "/", "y">>, <<"x", "@", "/", ":", "y">>}
LRequests ==
    {[rules |-> rules, admin |-> admin] :
        rules \in {{}} \cup {{LAccount("ann", password, paths)} : password \in LPasswords, paths \in LPaths}
                 \cup {{LAccount("ann", <<"long", "word">>, paths),
                       LAccount(Anyone, <<>>, {LPath(<<"/", "p">>, "ro")})} : paths \in LPaths}
                 \cup {{LAccount("ann", <<"long", "word">>, paths), LAccount("bob", <<":", "sly">>, paths)} :
                          paths \in LPaths},
        admin \in {{}, {Manager("bob", <<"long", "secret">>)}}}
NoSettings == [auth |-> {}, management |-> <<>>]
LSettings ==
    {NoSettings,
     [auth |-> {<<"ann", ":", "x", "@", "y", "@", "/", "a", ":", "rw", "comma", "/", "b">>, <<"@", "/">>},
      management |-> <<>>],
     [auth |-> {<<"@", "/", "p">>}, management |-> <<"bob", ":", "long", "secret">>]}
LTold == {<<>>, <<{<<"bob", ":", "sly", "@", "/">>}>>, <<{<<"bob", "@", "p">>}, {}>>}
LKnown == {<<"guest", ":">>}
LTokens ==
    Separators \cup {"rw", "ro", "***", ".", ".."} \cup
    {"ann", "bob", "weak", "guest", "quote", "long", "word", "x", "y", "sly", "secret", "a", "b", "p"}

MCInit ==
    /\ part \in {"files", "access", "downloads", "remote", "launch"}
    /\ Init /\ DownloadInit /\ AccessInit
    /\ part # "access" => /\ <<own, public>> = <<NoRule, NoRule>>
                          /\ option = Option("list", TRUE)
    /\ RemoteInit
    /\ memory.names[member].password = 1      \* an update may drop it
    /\ memory.everyone = linked               \* and so with the rule without a name
    /\ part # "remote" => ~persists /\ linked
    /\ \/ part = "launch"
       \/ part # "launch" /\ production = FALSE /\ flags = {} /\ told = <<>> /\ settings = NoSettings
    /\ LaunchInit

MCNext ==
    /\ UNCHANGED part
    /\ \/ part = "files" /\ Next /\ others' + tries'[uploader] <= MaxRequests
          /\ UNCHANGED <<accessVars, downloadVars, remoteVars, launchVars>>
       \/ part = "access" /\ AccessNext /\ UNCHANGED <<vars, downloadVars, remoteVars, launchVars>>
       \/ part = "access" /\ ask # Unasked
          /\ UNCHANGED <<vars, accessVars, downloadVars, remoteVars, launchVars>>
       \/ part = "downloads" /\ DownloadNext /\ UNCHANGED <<vars, accessVars, remoteVars, launchVars>>
       \/ part = "remote" /\ RemoteNext /\ ~next'[MaxUpdates].everyone
          /\ UNCHANGED <<vars, accessVars, downloadVars, launchVars>>
       \/ part = "launch" /\ LaunchNext /\ UNCHANGED <<vars, accessVars, downloadVars, remoteVars>>
       \/ part = "launch" /\ saves = MaxSaves /\ written = Unwritten
          /\ UNCHANGED <<vars, accessVars, downloadVars, remoteVars, launchVars>>

MCSpec == MCInit /\ [][MCNext]_<<vars, accessVars, downloadVars, remoteVars, launchVars, part>>
=============================================================================
