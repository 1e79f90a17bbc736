------------------------------ MODULE MCPackages ------------------------------
(* Instances of Packages for TLC.                                             *)
EXTENDS Packages

CONSTANTS a, b, p, ua, ub, a1, a2, b1, b2, here

Git(n, u, ref, terms) ==
  [name |-> n, source |-> "git", url |-> u, ref |-> ref, terms |-> terms]
InDir(n, d) == [name |-> n, source |-> "path", dir |-> d]

\* Two repositories: the second commit of ua keeps its version, that of ub is
\* a new version, which a does not want.
Names == {a, b, p}
Urls == {ua, ub}
Commits2 == (ua :> <<a1, a2>>) @@ (ub :> <<b1, b2>>)
OnB == <<Git(b, ub, Branch, TermsOf("^", V(1, 0, 0)))>>
Packs == (a1 :> [version |-> V(1, 0, 0), deps |-> OnB])
         @@ (a2 :> [version |-> V(1, 0, 0), deps |-> OnB])
         @@ (b1 :> [version |-> V(1, 0, 0), deps |-> <<>>])
         @@ (b2 :> [version |-> V(2, 0, 0), deps |-> <<>>])

\* A package in a directory, which comes to depend on b, and on itself.
Dirs == {here}
Locals == here :> {[version |-> V(0, 1, 0), deps |-> <<>>],
                   [version |-> V(0, 1, 0), deps |-> OnB \o <<InDir(p, here)>>]}
Adds == {Git(a, ua, Branch, {}), Git(b, ub, b1, {}), InDir(p, here)}
Tests == {b}
=============================================================================
