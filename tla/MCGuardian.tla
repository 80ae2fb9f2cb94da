----------------------------- MODULE MCGuardian -----------------------------
(* Instances of the composed system: how many processes, phases and calls,  *)
(* and the scope tests compared with what they should mean.                 *)
EXTENDS Guardian, PathScope, FiniteSets, TLC

\* One phase that may write f only, or two of which the last repairs both files.
OnePhase  == [p \in 1..1 |-> {"f"}]
TwoPhases == [p \in 1..2 |-> IF p = 1 THEN {"f"} ELSE {"f", "g"}]

\* Nothing in the specification distinguishes two processes of a kind, two
\* calls, two contents or two sessions.
MCSymmetry == Permutations(Authorities) \cup Permutations(Terminals)
              \cup Permutations(Calls) \cup Permutations(Contents) \cup Permutations(Sessions)

-----------------------------------------------------------------------------
(* Declarations with roots of one or two segments, scopes of up to two of   *)
(* them, and files one level deeper.                                        *)

Roots   == UNION {[1..n -> Segment] : n \in 1..2}
Files   == UNION {[1..n -> Segment] : n \in 1..3}
Single  == [root : Roots, tree : BOOLEAN]
Scopes  == {{}} \cup {{p, q} : p, q \in Single}

\* One declaration covers another exactly when it gives the same leases and more.
ASSUME InclusionCheck ==
  \A p, d \in Single :
    Covers(p, d) <=> \A x \in Files : Covers(d, Exact(x)) => Covers(p, Exact(x))

\* The facade and the store differ at the root of a tree only, and there they do.
ASSUME StricterCheck ==
  /\ \A scope \in Scopes, x \in Files :
       MayLease(scope, x) <=> MayWrite(scope, x) \/ \E p \in scope : p.tree /\ p.root = x
  /\ \A p \in Single : p.tree => ~MayWrite({p}, p.root)

\* A revision that adds nothing lets a tool write roots of trees only.
ASSUME RevisionCheck ==
  \A old, new \in Scopes : Added(old, new) = {} =>
    \A x \in Files :
      /\ MayLease(new, x) => MayLease(old, x)
      /\ MayWrite(new, x) /\ ~MayWrite(old, x) =>
           Exact(x) \in new /\ \E p \in old : p.tree /\ p.root = x

\* A file written below a declared one is out of scope only if the scope names
\* the declared file exactly.
ASSUME SecondTestCheck ==
  \A scope \in Scopes, x, y \in Files :
    MayWrite(scope, y) /\ PathsWithin({x}, {y}) =>
      MayWrite(scope, x) \/ (Exact(y) \in scope /\ Below(x, y))

\* What a criterion requires of some phase is in the scope of the last one.
ASSUME RepairCheck ==
  \A first, last \in {scope \in Scopes : Cardinality(scope) < 2}, d \in Single :
    LET phases == <<[allowed |-> first, acceptance |-> {1}], [allowed |-> last, acceptance |-> {}]>>
    IN RepairScope(phases) /\ PathCoverage(phases, <<{d}>>) =>
         \E p \in last : Matches(p, d)
=============================================================================
