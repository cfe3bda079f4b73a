------------------------------- MODULE Library -------------------------------
(***************************************************************************)
(* The functions that keep no state, called on small inputs one at a time, *)
(* and what each of them promises, stated without its algorithm.           *)
(***************************************************************************)
EXTENDS Parsing, Paths, CommandLine, TLC

CONSTANTS
    Packages,       \* [base, names, version, deps], deps being [name, op, version]
    MountPaths, MountLists, HostRoots,
    ImportRoot, GivenPaths,
    Uids, Accounts, \* who runs an updater, whom else it could run as (-1: nobody)
    Directories,    \* [owner, files]
    Percentages, CpuCounts,
    ArgumentLists, Replies, Founds,
    EntryNames

\* Docker's mounts and the data root are absolute paths without dots, and the
\* data root is not "/".  (Nowhere stands for no path, so it is not a name.)
ASSUME MountsAssumption ==
    LET Clear(path) == path \in Seq(STRING \ {Nowhere[1]}) /\ Clean(path) = path
    IN  /\ \A path \in MountPaths : Clear(path) /\ path # << >>
        /\ \A mounts \in MountLists :
            /\ mounts \in Seq([dest : Seq(STRING), source : Seq(STRING)])
            /\ \A i \in DOMAIN mounts :
                Clear(mounts[i].dest) /\ (mounts[i].source = Nowhere \/ Clear(mounts[i].source))

\* Packages have names and a version, and so have the dependencies they declare.
ASSUME PackagesAssumption ==
    \A pkg \in Packages :
        /\ pkg.base \in Seq(NameTokens) \ {<< >>}
        /\ pkg.names \in Seq(Seq(NameTokens) \ {<< >>}) \ {<< >>}
        /\ pkg.version \in Seq(VersionTokens) \ {<< >>}
        /\ pkg.deps \in Seq([name : Seq(NameTokens) \ {<< >>}, op : Constraints \cup {<< >>},
                             version : Seq(VersionTokens)])

ASSUME ImportsAssumption ==
    /\ ImportRoot \in Seq(STRING)
    /\ \A given \in GivenPaths : given.path \in Seq(STRING)

ASSUME ArgumentsAssumption ==
    \A args \in ArgumentLists : args \in Seq([word : STRING, number : BOOLEAN, value : Int])

ASSUME EntriesAssumption ==
    IsFiniteSet(EntryNames) /\ EntryNames \subseteq Seq(STRING) \ {<< >>}

ASSUME FilesAssumption ==
    \A d \in Directories : \A f \in DOMAIN d.files : "owner" \in DOMAIN d.files[f]

ASSUME LimitsAssumption == Percentages \subseteq Int /\ CpuCounts \subseteq Int

VARIABLE call       \* the last call: the function, its input and its result

NoCall == [fn |-> "none", in |-> << >>, out |-> << >>]
LibraryInit == call = NoCall
Calls(fn, in, out) == call' = [fn |-> fn, in |-> in, out |-> out]

CallParsePackage ==
    /\ call = NoCall
    /\ \E pkg \in Packages :
           Calls("parse", pkg,
                 [srcinfo |-> ParsePackage(AsSRCINFO(pkg), AsPKGBUILD(pkg)),
                  pkgbuild |-> ParsePackage(Absent, AsPKGBUILD(pkg))])

CallHostRoot ==
    /\ call = NoCall
    /\ \E path \in MountPaths, mounts \in MountLists, configured \in HostRoots :
           LET found == hostPathFromBindMounts(path, mounts)
           IN  Calls("host", [path |-> path, mounts |-> mounts, configured |-> configured],
                     resolveHostDataRoot(IF found = Nowhere THEN Unset ELSE Absolute(found),
                                         configured))

CallImportPath ==
    /\ call = NoCall
    /\ \E given \in GivenPaths : Calls("import", given, ImportPath(ImportRoot, given))

CallUpdater ==
    /\ call = NoCall
    /\ \E euid \in Uids, account \in Accounts, d \in Directories :
           Calls("updater", [euid |-> euid, account |-> account, dir |-> d],
                 runLocalUpdater(euid, d.owner, account, d.files))

CallCPUCap ==
    /\ call = NoCall
    /\ \E p \in Percentages, n \in CpuCounts : Calls("cpu", [tenths |-> p, cpus |-> n], resolveCPUCap(p, n))

CallCommand ==
    /\ call = NoCall
    /\ \E args \in ArgumentLists, answer \in Replies :
           \/ \E typed \in {NoText, Text(0), Text(1), Text(2)}, found \in Founds :
               Calls("select", [args |-> args, typed |-> typed, answer |-> answer, found |-> found],
                     add(args, typed, answer, found))
           \/ Calls("remove", [args |-> args, answer |-> answer], remove(args, answer))

\* A package with its split packages, of which some are published; the entries
\* are those and the ones of other packages.
CallRemove ==
    /\ call = NoCall
    /\ \E names \in (SUBSET EntryNames) \ {{}} : \E published \in SUBSET names, others \in SUBSET (EntryNames \ names) :
           LET first == CHOOSE n \in names : TRUE
               splits == SetToSeq(names)
               files == {FileOf(n, "2") : n \in published} \cup {SignatureOf(n, "2") : n \in published}
           IN  \E metadata \in {[split_packages |-> splits], [split_packages |-> <<first>>], << >>} :
                   Calls("repo", [names |-> names, published |-> published, others |-> others],
                         removeFromRepository(published \cup others,
                                              RepoNames(first, {metadata}, files)))

LibraryNext ==
    \/ CallParsePackage \/ CallHostRoot \/ CallImportPath
    \/ CallUpdater \/ CallCPUCap \/ CallCommand \/ CallRemove

LibrarySpec == LibraryInit /\ [][LibraryNext]_call

-----------------------------------------------------------------------------
\* parseSRCINFO and parsePKGBUILD (package.go): both files of a package give
\* the same version and split packages, and every dependency once, but not quite
\* the same preview.  The PKGBUILD names the package after the first of the
\* split packages, whatever their base is, and the version of a constraint comes
\* out of it as one dependency more, cut at its epoch.
ParsersAgree ==
    call.fn = "parse" =>
        LET s == call.out.srcinfo p == call.out.pkgbuild pkg == call.in
            names == {pkg.deps[i].name : i \in DOMAIN pkg.deps}
            constrained == {i \in DOMAIN pkg.deps : pkg.deps[i].op # << >>}
            versions == {depName(pkg.deps[i].version) : i \in constrained} \ {<< >>}
        IN  /\ s.name = pkg.base /\ p.name = pkg.names[1]
            /\ [p EXCEPT !.name = s.name, !.deps = s.deps] = s
            /\ s.split = pkg.names /\ s.version = pkg.version
            /\ ToSet(s.deps) = names /\ ToSet(p.deps) = names \cup versions
            /\ Len(s.deps) = Cardinality(ToSet(s.deps)) /\ Len(p.deps) = Cardinality(ToSet(p.deps))
            /\ constrained = {} => p.deps = s.deps

\* hostPathFromBindMounts and resolveHostDataRoot: the directory docker mounts
\* is the one the worker sees, the innermost mount deciding; without a mount it
\* is what is configured, and never a relative path.
HostRootIsSeen ==
    call.fn = "host" =>
        LET in == call.in
            over == {i \in DOMAIN in.mounts : in.mounts[i].source # Nowhere
                        /\ in.mounts[i].dest # << >> /\ Below(in.path, in.mounts[i].dest)}
            inner == {i \in over : \A k \in over : Len(in.mounts[k].dest) <= Len(in.mounts[i].dest)}
        IN  IF over = {} THEN call.out = IF in.configured.abs THEN in.configured.path ELSE Nowhere
            ELSE \E i \in inner :
                    \E rest \in {SubSeq(in.path, k, Len(in.path)) : k \in 1 .. Len(in.path) + 1} :
                        in.mounts[i].dest \o rest = in.path /\ call.out = in.mounts[i].source \o rest

\* PreviewLocal: whatever path is given, nothing outside the import root is
\* read, and everything inside can be named by a relative and an absolute path.
ImportsStayBelow ==
    call.fn = "import" =>
        LET root == Clean(ImportRoot)
        IN  /\ call.out # Nowhere => Below(call.out, root) /\ ToSet(call.out) \cap {".", ".."} = {}
            /\ ToSet(call.in.path) \cap {".", ".."} = {} =>
                call.out = IF ~call.in.abs THEN root \o call.in.path
                           ELSE IF Below(call.in.path, root) THEN call.in.path ELSE Nowhere

\* runLocalUpdater: an updater never runs as root, and a scheduler that is root
\* leaves it no file of root's, nor takes a file from another owner.
UpdaterIsNotRoot ==
    call.fn = "updater" /\ call.out # UpdaterError =>
        LET files == call.in.dir.files
        IN  /\ call.out.uid # Root
            /\ \A f \in DOMAIN files :
                /\ call.in.euid = Root /\ ~files[f].git => call.out.files[f].owner # Root
                /\ files[f].owner # Root \/ files[f].git => call.out.files[f] = files[f]

\* resolveCPUCap: a share of the CPUs is never more than all of them, and from
\* one percent on never 0.00, which docker takes for no limit.
CapLimits ==
    call.fn = "cpu" /\ call.out.err = "none" =>
        /\ call.out.value <= 100 * call.in.cpus
        /\ call.in.tenths >= 10 => call.out.value > 0

\* add and remove (main.go): nothing is done without "--yes" or an agreeing
\* answer, and the package that is added is the one shown under the number.
CommandIsConfirmed ==
    call.fn \in {"select", "remove"} /\ ~call.out.err =>
        /\ call.in.answer \in Agreed \/ \E i \in DOMAIN call.in.args : call.in.args[i].word = "--yes"
        /\ call.out.kind = "aur" =>
            \E n \in DOMAIN call.in.found :
                /\ call.out.what = call.in.found[n]
                /\ \/ call.in.typed = Text(n)
                   \/ \E i \in DOMAIN call.in.args \ {1} :
                        /\ call.in.args[i].number /\ call.in.args[i].value = n
                        /\ call.in.args[i - 1].word = "--select"
                /\ (\A i \in DOMAIN call.in.args : call.in.args[i].word # "--select") =>
                    call.in.typed = Text(n)

\* removeFromRepository and the names RemovePackage gives it: every entry of
\* the package leaves the repository, though some of its names were never
\* published, and no entry of another package does.
EntriesAreRemoved ==
    call.fn = "repo" => call.out = call.in.others
=============================================================================
