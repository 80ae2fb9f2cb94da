----------------------------- MODULE PathScope -----------------------------
(***************************************************************************)
(* What the scope of a phase lets a tool write.  A scope is a set of       *)
(* declarations, each an exact path or a directory tree (root/...); the    *)
(* code compares them as text, with fnmatchcase in the facade and with     *)
(* _covers in the store and in the replay.  Both are modelled by what they *)
(* do: a path is the sequence of its segments, and a declaration that      *)
(* passed normalize_packet has no wildcard but the one that makes it a     *)
(* tree, so that a prefix of the text up to a slash is a prefix of the     *)
(* segments.  Guardian and RunStore use the result: a scope is a set of    *)
(* files there.                                                            *)
(***************************************************************************)
EXTENDS Naturals, Sequences

CONSTANT Segment  \* names of files and directories

ASSUME SegmentAssumption == Segment # {}

Path == Seq(Segment) \ {<<>>}

Declaration == [root : Path, tree : BOOLEAN]

Exact(x) == [root |-> x, tree |-> FALSE]

\* x lies in the directory r: the test startswith(r + "/").
Below(x, r) ==
  /\ Len(r) < Len(x)
  /\ \A i \in 1..Len(r) : x[i] = r[i]

-----------------------------------------------------------------------------
(* Comparing declarations.                                                 *)

\* fnmatchcase(d, pattern): the wildcards of a tree stand for any text after
\* its slash, the slashes and the wildcards of another tree included, but not
\* for nothing: the root itself does not match.
Matches(pattern, d) ==
  IF pattern.tree THEN Below(d.root, pattern.root) \/ (d.tree /\ d.root = pattern.root)
                  ELSE d = pattern

\* _covers(pattern, d): the root of a tree belongs to it.
Covers(pattern, d) ==
  IF pattern.tree THEN Below(d.root, pattern.root) \/ d.root = pattern.root
                  ELSE d = pattern

\* _assert_paths_allowed, before a write is authorized and after it is done.
MayWrite(scope, x) == \E pattern \in scope : Matches(pattern, Exact(x))

\* The test of create_write_lease.
MayLease(scope, x) == \E pattern \in scope : Covers(pattern, Exact(x))

\* _paths_within: the files written lie in the declared ones.
PathsWithin(actual, declared) ==
  \A x \in actual : \E y \in declared : x = y \/ Below(x, y)

-----------------------------------------------------------------------------
(* Scopes of a PLAN: a function from the positions of its phases to records *)
(* of the scope of the phase and the acceptance criteria it serves.        *)

\* _scope_delta: what a revision of the packet adds and removes.  It needs an
\* approval of its own when it adds something.
Added(current, candidate) ==
  {d \in candidate : ~ \E pattern \in current : Covers(pattern, d)}

Removed(current, candidate) == Added(candidate, current)

\* _assert_unambiguous_path_scopes: an exact path that is a directory.
Ambiguous(scope, directories) == {d \in scope : ~d.tree /\ d.root \in directories}

\* _require_repair_scope: the last phase, which a failed verification or a
\* review reopens, has every declaration of the earlier ones.
RepairScope(phases) ==
  \A n \in DOMAIN phases :
    (\A i \in DOMAIN phases : i <= n) => \A i \in DOMAIN phases : phases[i].allowed \subseteq phases[n].allowed

\* _require_path_coverage: what an acceptance criterion requires is in the scope
\* of a phase that serves it.
PathCoverage(phases, required) ==
  \A a \in DOMAIN required : \A d \in required[a] :
    \E i \in DOMAIN phases :
      a \in phases[i].acceptance /\ \E pattern \in phases[i].allowed : Matches(pattern, d)
=============================================================================
