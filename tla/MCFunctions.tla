----------------------------- MODULE MCFunctions -----------------------------
(* Small inputs for Library and Client, one call of any, and for AurGraph: *)
(* every graph of three packages with a few lists of dependencies, some of  *)
(* the packages missing; "x" is a package of the distribution.             *)
EXTENDS Library, Client, AurGraph

MCNames == {"a", "b", "c", "x"}
MCInAur(names) == [i \in DOMAIN names |-> [name |-> names[i], aur |-> names[i] # "x"]]
MCLists == {MCInAur(l) : l \in {<< >>, <<"a">>, <<"c", "b">>, <<"x", "b", "a">>, <<"b", "b", "c">>}}
MCGraphs == UNION {[S -> MCLists] : S \in SUBSET {"a", "b", "c"}}

MCDep(n, op) == [name |-> <<n>>, op |-> op, version |-> <<"2">>]
MCDeps ==
    {[name |-> <<"a">>, op |-> << >>, version |-> << >>]} \cup
    {[name |-> <<"b">>, op |-> op, version |-> v] :
        op \in {<<">", "=">>, <<"=">>, <<"<">>}, v \in {<<"2">>, <<"1", ":", "2">>}}
MCPackages ==
    {[base |-> base, names |-> names, version |-> <<"2">>, deps |-> deps] :
        base \in {<<"a">>, <<"b">>},
        names \in {<< <<"a">> >>, << <<"b">>, <<"b", "c">> >>},
        deps \in UNION {[1 .. n -> MCDeps] : n \in 0 .. 2}}

MCMountPaths == {<<"var", "data">>, <<"var", "data", "repo">>}
MCMounts ==
    {[dest |-> d, source |-> s] :
        d \in {<< >>, <<"var">>, <<"var", "data">>, <<"var", "dat">>},
        s \in {<<"srv">>, <<"home", "x">>, Nowhere}}
MCMountLists == UNION {[1 .. n -> MCMounts] : n \in 0 .. 2}
MCHostRoots == {Unset, Relative(<<"data">>), Absolute(<<"srv", "aurforge">>)}

MCImportRoot == <<"srv", "..", "imports">>
MCGivenPaths ==
    {[abs |-> abs, path |-> p] :
        abs \in BOOLEAN,
        p \in UNION {[1 .. n -> {"imports", "demo", ".", ".."}] : n \in 0 .. 3}}

MCAccounts == {-1, 0, 970}
MCFileStates == [owner : {0, 1000, 1001}, kind : {"file", "link"}, git : BOOLEAN]
MCDirectories == [owner : {0, 1000}, files : [{"PKGBUILD", "other"} -> MCFileStates]]

MCArguments ==
    {[word |-> w] @@ NoText : w \in {"--yes", "--local", "--select", "demo"}} \cup
    {[word |-> "number"] @@ Text(n) : n \in {-1, 0, 2}}
MCArgumentLists == UNION {[1 .. n -> MCArguments] : n \in 0 .. 4}
MCFounds == {<< >>, <<"demo">>, <<"demo-git", "demo">>}

MCEntryNames == {<<"a">>, <<"a", "cli">>, <<"a", "cli", "x">>, <<"b">>}

\* The calls have nothing to do with graphs: they are made after one addition,
\* that of "a" where nothing can be found.
FunctionsInit == LibraryInit /\ ClientInit /\ GraphInit
FunctionsNext ==
    \/ GraphNext /\ UNCHANGED <<call, statement>>
    \/ /\ stage = "failed" /\ graph = << >> /\ root = "a"
       /\ \/ statement = NoStatement /\ LibraryNext /\ UNCHANGED statement
          \/ call = NoCall /\ ClientNext /\ UNCHANGED call
       /\ UNCHANGED vars
FunctionsSpec ==
    FunctionsInit /\ [][FunctionsNext]_<<vars, call, statement>> /\ WalkFairness
=============================================================================
