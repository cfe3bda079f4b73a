----------------------------- MODULE CommandLine -----------------------------
(***************************************************************************)
(* What the commands make of their arguments and answers, the CPU limit of *)
(* a build, and which repository entries a removed package has.            *)
(***************************************************************************)
EXTENDS Integers, FiniteSets, SequencesExt

\* A text is [number, value]: what strconv makes of it.
Text(v) == [number |-> TRUE, value |-> v]
NoText == [number |-> FALSE, value |-> 0]

\* The CPU limit docker gets, in hundredths of a CPU: two decimals, rounded to
\* the nearest.  A percentage is in tenths; 0 stands for an error, a limit in
\* CPUs passes through (half is what is added to round, exact ties aside).
RoundedBy == 5
\* Faulty variant: a limit of whole CPUs.
resolveCPUCapWhole(tenths, cpus) ==
    IF tenths <= 0 \/ tenths > 1000 \/ cpus <= 0 THEN [err |-> "failed", value |-> 0]
    ELSE [err |-> "none", value |-> 100 * ((cpus * tenths) \div 1000)]

resolveCPUCap(tenths, cpus) ==
    IF tenths <= 0 \/ tenths > 1000 \/ cpus <= 0 THEN [err |-> "failed", value |-> 0]
    ELSE [err |-> "none", value |-> (cpus * tenths + RoundedBy) \div 10]

\* PromptConfirm: an answer that ends before its newline is an error.
Agreed == {"", "y", "yes"}
PromptConfirm(answer, yes) ==
    IF yes THEN "yes"
    ELSE IF answer = "end of input" THEN "failed"
    ELSE IF answer \in Agreed THEN "yes" ELSE "no"

-----------------------------------------------------------------------------
(* add: arguments are "--yes", "--local", "--select", words and numbers.   *)

NoArguments == [yes |-> FALSE, local |-> "", select |-> -1, query |-> << >>, wants |-> "none"]

\* An option that takes a value takes whatever comes next.
Argument(acc, arg) ==
    CASE acc.wants = "failed" -> acc
      [] acc.wants = "--local" -> [acc EXCEPT !.local = arg.word, !.wants = "none"]
      [] acc.wants = "--select" ->
            IF arg.number THEN [acc EXCEPT !.select = arg.value, !.wants = "none"]
            ELSE [acc EXCEPT !.wants = "failed"]
      [] OTHER ->
            IF arg.word = "--yes" THEN [acc EXCEPT !.yes = TRUE]
            ELSE IF arg.word \in {"--local", "--select"} THEN [acc EXCEPT !.wants = arg.word]
            ELSE [acc EXCEPT !.query = Append(@, arg.word)]

Arguments(args) == FoldLeft(Argument, NoArguments, args)

Nothing == [err |-> TRUE, kind |-> "none", what |-> "none"]

\* Faulty variant: the first result when none is selected.
ChosenByDefault(select, typed) == IF select < 0 THEN Text(1) ELSE Text(select)

\* What add imports: typed answers the question for a number, answer the one
\* for a confirmation, found is what SearchAUR returns.
Chosen(select, typed) == IF select < 0 THEN typed ELSE Text(select)
add(args, typed, answer, found) ==
    LET parsed == Arguments(args)
        number == Chosen(parsed.select, typed)
        confirmed == PromptConfirm(answer, parsed.yes) = "yes"
    IN  IF args = << >> \/ parsed.wants # "none" THEN Nothing
        ELSE IF parsed.local # ""
        THEN IF confirmed THEN [err |-> FALSE, kind |-> "local", what |-> parsed.local] ELSE Nothing
        ELSE IF parsed.query = << >> \/ found = << >> \/ ~number.number
                \/ number.value \notin DOMAIN found \/ ~confirmed
        THEN Nothing
        ELSE [err |-> FALSE, kind |-> "aur", what |-> found[number.value]]

\* remove wants exactly one name.
remove(args, answer) ==
    LET names == SelectSeq(args, LAMBDA a : a.word # "--yes")
        yes == \E i \in DOMAIN args : args[i].word = "--yes"
    IN  IF Len(names) # 1 \/ PromptConfirm(answer, yes) # "yes" THEN Nothing
        ELSE [err |-> FALSE, kind |-> "remove", what |-> names[1].word]

-----------------------------------------------------------------------------
(* RemovePackage: a file name is the sequence of what hyphens separate,    *)
(* the ending of the file being part of the last one.                      *)

packageNameFromArtifact(file) ==
    IF Len(file) < 4 THEN << >> ELSE SubSeq(file, 1, Len(file) - 3)

\* What makepkg calls the file of a package, and its signature.
FileOf(name, version) == name \o <<version, "1", "any.pkg.tar.zst">>
SignatureOf(name, version) == name \o <<version, "1", "any.pkg.tar.zst.sig">>

\* split_packages as it comes back from JSON, without what is empty.
splitPackagesFromMetadata(metadata) ==
    IF "split_packages" \notin DOMAIN metadata THEN {}
    ELSE ToSet(metadata["split_packages"]) \ {<< >>}

RepoNames(name, metadatas, files) ==
    ({name} \cup (UNION {splitPackagesFromMetadata(m) : m \in metadatas})
            \cup {packageNameFromArtifact(f) : f \in files}) \ {<< >>}

\* repo-remove refuses a list with a name that has no entry.
RepoRemove(entries, names) == IF names \subseteq entries THEN entries \ names ELSE entries

\* Faulty variant: an error of the whole list is the end of it.
removeFromRepositoryAtOnce(entries, names) == RepoRemove(entries, names)

\* All names at once, and after an error one by one.
removeFromRepository(entries, names) ==
    IF names \subseteq entries THEN RepoRemove(entries, names)
    ELSE FoldSet(LAMBDA n, left : RepoRemove(left, {n}), entries, names)
=============================================================================
