---------------------------- MODULE MCFilesClaims ----------------------------
(* Small instances of FilesClaims. *)
EXTENDS FilesClaims, TLC

MCFileNames == <<"PKGBUILD", "fix.patch">>

\* A package with a patch, and with a link in its place.
MCTree(patch) == (<<"PKGBUILD">> :> File("1")) @@ (<<"fix.patch">> :> patch)
MCTrees == {MCTree(File("a")), MCTree(Link("b"))}

MCVersion(tree) == "1"
=============================================================================
