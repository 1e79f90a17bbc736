-------------------------------- MODULE Semver --------------------------------
(***************************************************************************)
(* Versions and constraints of the package manager                         *)
(* (internal/pkg/semver.go).  A version is major.minor.patch; a constraint *)
(* is a conjunction of terms, and a caret or a tilde stands for two terms. *)
(***************************************************************************)
EXTENDS Integers

Version == [major : Nat, minor : Nat, patch : Nat]

V(a, b, c) == [major |-> a, minor |-> b, patch |-> c]

\* -1, 0 or 1.
Compare(v, o) ==
  LET Sign(x, y) == IF x < y THEN -1 ELSE 1
  IN IF v.major # o.major THEN Sign(v.major, o.major)
     ELSE IF v.minor # o.minor THEN Sign(v.minor, o.minor)
     ELSE IF v.patch # o.patch THEN Sign(v.patch, o.patch)
     ELSE 0

\* The first version a caret excludes: the leftmost part that is not zero
\* (the patch if all are) goes up by one.
CaretUpper(v) == IF v.major > 0 THEN V(v.major + 1, 0, 0)
                 ELSE IF v.minor > 0 THEN V(0, v.minor + 1, 0)
                 ELSE V(0, 0, v.patch + 1)

Term(op, v) == [op |-> op, version |-> v]

\* The terms ParseConstraint makes of ^v, of ~v, and of a single comparison.
TermsOf(op, v) ==
  CASE op = "^" -> {Term(">=", v), Term("<", CaretUpper(v))}
    [] op = "~" -> {Term(">=", v), Term("<", V(v.major, v.minor + 1, 0))}
    [] OTHER -> {Term(op, v)}

Holds(t, v) ==
  LET c == Compare(v, t.version)
  IN CASE t.op = "=" -> c = 0
       [] t.op = ">=" -> c >= 0
       [] t.op = ">" -> c > 0
       [] t.op = "<=" -> c <= 0
       [] t.op = "<" -> c < 0
       [] OTHER -> FALSE

Satisfies(terms, v) == \A t \in terms : Holds(t, v)
=============================================================================
