------------------------------- MODULE Parsing -------------------------------
(***************************************************************************)
(* What ParsePackage reads out of .SRCINFO or, without one, out of the     *)
(* PKGBUILD.  A word is a sequence of tokens: what may be in a name or a   *)
(* version, and the signs that may not.                                    *)
(***************************************************************************)
EXTENDS Integers, FiniteSets, SequencesExt

Signs == {">", "<", "=", " ", "(", ")"}    \* what quotedRE leaves out; ":" is in

NoInfo == [name |-> << >>, version |-> << >>, release |-> << >>, split |-> << >>, deps |-> << >>]

\* strings.Cut: what is before the first occurrence of the marker.
Occurs(value, marker) ==
    {i \in 1 .. (Len(value) - Len(marker) + 1) : SubSeq(value, i, i + Len(marker) - 1) = marker}
CutAt(value, marker) == SubSeq(value, 1, Min(Occurs(value, marker)) - 1)

\* strings.TrimSpace.
TrimSpace(value) ==
    LET kept == {i \in DOMAIN value : value[i] # " "}
    IN  IF kept = {} THEN << >> ELSE SubSeq(value, Min(kept), Max(kept))

\* The first of the markers, in this order, that occurs anywhere.
Markers == << <<">", "=">>, <<"<", "=">>, <<"=">>, <<">">>, <<"<">>, <<":">> >>
depName(value) ==
    LET found == {i \in DOMAIN Markers : Occurs(value, Markers[i]) # {}}
    IN  TrimSpace(IF found = {} THEN value ELSE CutAt(value, Markers[Min(found)]))

\* Faulty variant: a dependency that is listed twice is taken twice.
AddDependencyAgain(info, value) ==
    IF depName(value) = << >> THEN info ELSE [info EXCEPT !.deps = Append(@, depName(value))]

\* A dependency is taken once.
AddDependency(info, value) ==
    IF depName(value) = << >> \/ Contains(info.deps, depName(value)) THEN info
    ELSE [info EXCEPT !.deps = Append(@, depName(value))]

\* One line of .SRCINFO: a key and a value; others are passed over.
SRCINFOLine(info, line) ==
    CASE line.key = "pkgbase" -> IF info.name = << >> THEN [info EXCEPT !.name = line.value] ELSE info
      [] line.key = "pkgname" -> [info EXCEPT !.split = Append(@, line.value)]
      [] line.key = "pkgver" -> [info EXCEPT !.version = line.value]
      [] line.key = "pkgrel" -> [info EXCEPT !.release = line.value]
      [] line.key \in {"depends", "makedepends"} -> AddDependency(info, line.value)
      [] OTHER -> info

parseSRCINFO(lines) == FoldLeft(SRCINFOLine, NoInfo, lines)

\* quotedRE, a token at a time: the longest runs without a sign.
Spelled(acc, t) ==
    IF t \notin Signs THEN [acc EXCEPT !.word = Append(@, t)]
    ELSE [words |-> IF acc.word = << >> THEN acc.words ELSE Append(acc.words, acc.word),
          word |-> << >>]
Words(value) == FoldLeft(Spelled, [words |-> << >>, word |-> << >>], Append(value, " ")).words

\* One assignment of a PKGBUILD, as far as it is on one line.
PKGBUILDLine(info, line) ==
    LET words == Words(line.value)
    IN  IF words = << >> THEN info
        ELSE CASE line.key = "pkgname" -> [info EXCEPT !.name = words[1], !.split = @ \o words]
               [] line.key = "pkgver" -> [info EXCEPT !.version = words[1]]
               [] line.key = "pkgrel" -> [info EXCEPT !.release = words[1]]
               [] line.key \in {"depends", "makedepends"} -> FoldLeft(AddDependency, info, words)
               [] OTHER -> info

parsePKGBUILD(lines) == FoldLeft(PKGBUILDLine, NoInfo, lines)

\* ParsePackage: there must be a PKGBUILD, .SRCINFO comes first, and without a
\* name there is no package.
Line(k, v) == [key |-> k, value |-> v]
Absent == <<Line("absent", << >>)>>
ParsePackage(srcinfo, pkgbuild) ==
    LET info == IF srcinfo # Absent THEN parseSRCINFO(srcinfo) ELSE parsePKGBUILD(pkgbuild)
        Or(value, fallback) == IF value = << >> THEN fallback ELSE value
    IN  IF pkgbuild = Absent \/ info.name = << >> THEN NoInfo
        ELSE [info EXCEPT !.version = Or(@, <<"unknown">>), !.release = Or(@, <<"0">>),
                          !.split = Or(@, <<info.name>>)]

-----------------------------------------------------------------------------
(* A package as its author means it, and the two files that describe it.   *)

Lines(k, values) == [i \in DOMAIN values |-> Line(k, values[i])]

\* What may be in a version and in a name, PKGBUILD(5).
VersionTokens == STRING \ Signs
NameTokens == VersionTokens \ {":"}
Constraints == { <<">", "=">>, <<"<", "=">>, <<"=">>, <<">">>, <<"<">> }

\* A dependency is a name, perhaps with a constraint.
Declared(dep) == IF dep.op = << >> THEN dep.name ELSE dep.name \o dep.op \o dep.version

\* The base of a package is its name, or, of a split package, one of its own.
AsSRCINFO(pkg) ==
    <<Line("pkgbase", pkg.base), Line("pkgver", pkg.version), Line("pkgrel", <<"1">>)>>
    \o Lines("depends", [i \in DOMAIN pkg.deps |-> Declared(pkg.deps[i])])
    \o Lines("pkgname", pkg.names)

Spaced(text, value) == text \o value \o <<" ">>
Array(values) == Append(FoldLeft(Spaced, <<"(">>, values), ")")

\* (assignRE does not know pkgbase: PKGBUILDLine passes over it.)
AsPKGBUILD(pkg) ==
    <<Line("pkgbase", pkg.base),
      Line("pkgname", IF Len(pkg.names) = 1 THEN pkg.names[1] ELSE Array(pkg.names)),
      Line("pkgver", pkg.version), Line("pkgrel", <<"1">>),
      Line("depends", Array([i \in DOMAIN pkg.deps |-> Declared(pkg.deps[i])]))>>
=============================================================================
