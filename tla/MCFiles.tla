------------------------------- MODULE MCFiles -------------------------------
(* Small instances of Files. *)
EXTENDS Files, TLC

MCFileNames == <<".git", "PKGBUILD", "demo-1-1-any.pkg.tar.zst", "fix.patch", "src">>

MCTree(v, patch) ==
    (<<"PKGBUILD">> :> File(v)) @@ (<<"src">> :> Dir) @@ (<<"src", "fix.patch">> :> patch)

\* Two versions, a change that keeps the version, and a link; a package lies in
\* the directory, and it is a checkout.
MCTrees ==
    {MCTree("1", File("a")), MCTree("2", File("b")) @@ (<<".git">> :> File("gitdir")),
     MCTree("1", File("b")) @@ (<<"demo-1-1-any.pkg.tar.zst">> :> File("package")),
     MCTree("2", Link("a"))}

MCVersion(tree) == IF <<"PKGBUILD">> \in DOMAIN tree THEN tree[<<"PKGBUILD">>].content ELSE "none"
=============================================================================
