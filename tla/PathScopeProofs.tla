-------------------------- MODULE PathScopeProofs --------------------------
(***************************************************************************)
(* The scope tests for paths of any length over any alphabet.  The code    *)
(* has two of them that differ at one point, the root of a tree; the       *)
(* theorems say that this point is the only one, what the store's test     *)
(* means, and that the three tests a write goes through fit together.      *)
(***************************************************************************)
EXTENDS PathScope, TLAPS

-----------------------------------------------------------------------------
(* Directories.                                                            *)

LEMMA BelowTransitive ==
  ASSUME NEW x \in Path, NEW y \in Path, NEW z \in Path, Below(x, y), Below(y, z)
  PROVE  Below(x, z)
  <1>1. Len(x) \in Nat /\ Len(y) \in Nat /\ Len(z) \in Nat
    BY DEF Path
  <1>2. Len(z) < Len(y) /\ Len(y) < Len(x)
    BY DEF Below
  <1>3. ASSUME NEW i \in 1..Len(z) PROVE x[i] = z[i]
    <2>1. i \in 1..Len(y)
      BY <1>1, <1>2
    <2>2. QED
      BY <2>1 DEF Below
  <1>4. QED
    BY <1>1, <1>2, <1>3 DEF Below

LEMMA NeverBelowItself ==
  ASSUME NEW x \in Path
  PROVE  ~Below(x, x)
  <1>1. Len(x) \in Nat
    BY DEF Path
  <1>2. QED
    BY <1>1 DEF Below

LEMMA FileOfDirectory ==
  ASSUME NEW x \in Path, NEW s \in Segment
  PROVE  /\ Append(x, s) \in Path
         /\ Below(Append(x, s), x)
         /\ Append(x, s) # x
  <1>1. x \in Seq(Segment) /\ Len(x) \in Nat
    BY DEF Path
  <1>2. /\ Append(x, s) \in Seq(Segment)
        /\ Len(Append(x, s)) = Len(x) + 1
        /\ \A i \in 1..Len(x) : Append(x, s)[i] = x[i]
    BY <1>1
  <1>3. Append(x, s) # <<>> /\ Append(x, s) # x
    BY <1>1, <1>2
  <1>4. QED
    BY <1>1, <1>2, <1>3 DEF Path, Below

LEMMA ExactTyped ==
  ASSUME NEW x \in Path
  PROVE  Exact(x) \in Declaration /\ Exact(x).root = x /\ ~Exact(x).tree
  BY DEF Exact, Declaration

LEMMA ExactOfDeclaration ==
  ASSUME NEW d \in Declaration, ~d.tree
  PROVE  Exact(d.root) = d
  BY DEF Exact, Declaration

-----------------------------------------------------------------------------
(* The two tests.                                                          *)

\* What the facade lets a tool declare, the store gives a lease for: the second
\* test of authorize_tool refuses nothing that the first one accepted.  The
\* other way round they differ at the root of a tree only.
THEOREM FacadeIsStricter ==
  ASSUME NEW scope \in SUBSET Declaration, NEW x \in Path
  PROVE  /\ MayWrite(scope, x) => MayLease(scope, x)
         /\ MayLease(scope, x) => \/ MayWrite(scope, x)
                                  \/ \E pattern \in scope : pattern.tree /\ pattern.root = x
  BY ExactTyped DEF MayWrite, MayLease, Matches, Covers

LEMMA CoversReflexive ==
  ASSUME NEW d \in Declaration
  PROVE  Covers(d, d)
  BY DEF Covers

LEMMA CoversTransitive ==
  ASSUME NEW p \in Declaration, NEW q \in Declaration, NEW d \in Declaration,
         Covers(p, q), Covers(q, d)
  PROVE  Covers(p, d)
  <1>1. p.root \in Path /\ q.root \in Path /\ d.root \in Path
    BY DEF Declaration
  <1>2. CASE p.tree /\ q.tree
    BY <1>1, <1>2, BelowTransitive DEF Covers
  <1>3. CASE ~p.tree \/ ~q.tree
    BY <1>3 DEF Covers
  <1>4. QED
    BY <1>2, <1>3 DEF Declaration

\* _covers is inclusion: one declaration covers another exactly when every path
\* that the second gives a lease for gets one from the first.
THEOREM CoversIsInclusion ==
  ASSUME NEW p \in Declaration, NEW d \in Declaration
  PROVE  Covers(p, d) <=> \A x \in Path : Covers(d, Exact(x)) => Covers(p, Exact(x))
  <1>1. p.root \in Path /\ d.root \in Path
    BY DEF Declaration
  <1>2. ASSUME Covers(p, d), NEW x \in Path, Covers(d, Exact(x)) PROVE Covers(p, Exact(x))
    BY <1>2, ExactTyped, CoversTransitive
  <1>3. ASSUME \A x \in Path : Covers(d, Exact(x)) => Covers(p, Exact(x)) PROVE Covers(p, d)
    <2>1. Covers(d, Exact(d.root))
      BY <1>1, ExactTyped, ExactOfDeclaration DEF Covers
    <2>2. Covers(p, Exact(d.root))
      BY <1>1, <1>3, <2>1
    <2>3. CASE p.tree
      BY <1>1, <2>2, <2>3, ExactTyped DEF Covers
    <2>4. CASE ~p.tree /\ ~d.tree
      BY <2>2, <2>4, ExactOfDeclaration DEF Covers
    <2>5. CASE ~p.tree /\ d.tree
      <3>1. PICK s \in Segment : TRUE
        BY SegmentAssumption
      <3>2. Covers(d, Exact(Append(d.root, s)))
        BY <1>1, <2>5, FileOfDirectory, ExactTyped DEF Covers
      <3>3. Covers(p, Exact(Append(d.root, s)))
        BY <1>1, <1>3, <3>2, FileOfDirectory
      <3>4. Exact(Append(d.root, s)) = p /\ Exact(d.root) = p
        BY <2>2, <2>5, <3>3 DEF Covers
      <3>5. Append(d.root, s) = d.root
        BY <3>4 DEF Exact
      <3>6. QED
        BY <1>1, <3>5, FileOfDirectory
    <2>6. QED
      BY <2>3, <2>4, <2>5 DEF Declaration
  <1>4. QED
    BY <1>2, <1>3

-----------------------------------------------------------------------------
(* Revisions of a packet.                                                  *)

\* A revision that adds nothing, which therefore nobody has to approve, grants
\* no lease that the packet it replaces would refuse.  A tool can write one kind
\* of path more: the root of a tree of the old packet that the new one declares
\* as a file, and only if it is not a directory.
THEOREM SilentRevisionIsHarmless ==
  ASSUME NEW current \in SUBSET Declaration, NEW candidate \in SUBSET Declaration,
         NEW directories \in SUBSET Path, Added(current, candidate) = {},
         Ambiguous(candidate, directories) = {}, NEW x \in Path
  PROVE  /\ MayLease(candidate, x) => MayLease(current, x)
         /\ MayWrite(candidate, x) /\ ~MayWrite(current, x) =>
              /\ x \notin directories
              /\ Exact(x) \in candidate
              /\ \E pattern \in current : pattern.tree /\ pattern.root = x
  <1>1. ASSUME NEW d \in candidate PROVE \E p \in current : Covers(p, d)
    BY <1>1 DEF Added
  <1>2. Exact(x) \in Declaration /\ Exact(x).root = x /\ ~Exact(x).tree
    BY ExactTyped
  <1>3. MayLease(candidate, x) => MayLease(current, x)
    BY <1>1, <1>2, CoversTransitive DEF MayLease
  <1>4. ASSUME MayWrite(candidate, x), ~MayWrite(current, x)
        PROVE  /\ x \notin directories
               /\ Exact(x) \in candidate
               /\ \E pattern \in current : pattern.tree /\ pattern.root = x
    <2>1. PICK d \in candidate : Matches(d, Exact(x))
      BY <1>4 DEF MayWrite
    <2>2. PICK p \in current : Covers(p, d)
      BY <1>1
    <2>3. ~Matches(p, Exact(x))
      BY <1>4 DEF MayWrite
    <2>4. p \in Declaration /\ d \in Declaration /\ p.root \in Path /\ d.root \in Path
      BY DEF Declaration
    <2>5. p.tree /\ ~d.tree
      <3>1. CASE ~p.tree
        BY <2>1, <2>2, <2>3, <3>1 DEF Covers
      <3>2. CASE p.tree /\ d.tree
        <4>1. Below(x, d.root)
          BY <1>2, <2>1, <3>2 DEF Matches
        <4>2. Below(x, p.root)
          BY <2>2, <2>4, <3>2, <4>1, BelowTransitive DEF Covers
        <4>3. QED
          BY <1>2, <2>3, <3>2, <4>2 DEF Matches
      <3>3. QED
        BY <2>4, <3>1, <3>2 DEF Declaration
    <2>6. d = Exact(x)
      BY <2>1, <2>5 DEF Matches
    <2>7. p.root = x
      BY <1>2, <2>2, <2>3, <2>5, <2>6 DEF Covers, Matches
    <2>8. x \notin directories
      BY <1>2, <2>6 DEF Ambiguous
    <2>9. QED
      BY <2>5, <2>6, <2>7, <2>8
  <1>5. QED
    BY <1>3, <1>4

\* Revisions that add nothing never add up: a chain of them stays within the
\* scope that was approved first.
THEOREM SilentRevisionsCompose ==
  ASSUME NEW first \in SUBSET Declaration, NEW second \in SUBSET Declaration,
         NEW third \in SUBSET Declaration, Added(first, second) = {}, Added(second, third) = {}
  PROVE  Added(first, third) = {}
  <1>1. ASSUME NEW d \in third PROVE \E p \in first : Covers(p, d)
    <2>1. PICK q \in second : Covers(q, d)
      BY <1>1 DEF Added
    <2>2. PICK p \in first : Covers(p, q)
      BY <2>1 DEF Added
    <2>3. QED
      BY <2>1, <2>2, CoversTransitive
  <1>2. QED
    BY <1>1 DEF Added

-----------------------------------------------------------------------------
(* The tests of a write.                                                   *)

\* A file written in the declared ones is in the scope that allowed these, or
\* lies below a declared file that the scope names exactly: this is all that the
\* second test of post_tool can find.
THEOREM SecondScopeTest ==
  ASSUME NEW scope \in SUBSET Declaration, NEW declared \in SUBSET Path,
         NEW actual \in SUBSET Path, \A y \in declared : MayWrite(scope, y),
         PathsWithin(actual, declared), NEW x \in actual
  PROVE  MayWrite(scope, x) \/ \E y \in declared : Exact(y) \in scope /\ Below(x, y)
  <1>1. PICK y \in declared : x = y \/ Below(x, y)
    BY DEF PathsWithin
  <1>2. CASE x = y
    BY <1>2
  <1>3. CASE Below(x, y)
    <2>1. PICK p \in scope : Matches(p, Exact(y))
      BY DEF MayWrite
    <2>2. CASE p.tree
      <3>1. p.root \in Path /\ Below(y, p.root)
        BY <2>1, <2>2, ExactTyped DEF Matches, Declaration
      <3>2. Below(x, p.root)
        BY <1>3, <3>1, BelowTransitive
      <3>3. QED
        BY <2>2, <3>2, ExactTyped DEF MayWrite, Matches
    <2>3. CASE ~p.tree
      BY <1>3, <2>1, <2>3 DEF Matches
    <2>4. QED
      BY <2>2, <2>3
  <1>4. QED
    BY <1>1, <1>2, <1>3

\* When no declared file has become a directory, the scope of a write is a set
\* of files, as in Guardian: the first test is inclusion in the declared files,
\* and the second one follows from it.
THEOREM ScopesAreSetsOfFiles ==
  ASSUME NEW scope \in SUBSET Declaration, NEW declared \in SUBSET Path,
         NEW actual \in SUBSET Path, \A y \in declared : MayWrite(scope, y),
         \A x \in actual, y \in declared : ~Below(x, y)
  PROVE  /\ PathsWithin(actual, declared) <=> actual \subseteq declared
         /\ PathsWithin(actual, declared) => \A x \in actual : MayWrite(scope, x)
  BY DEF PathsWithin

-----------------------------------------------------------------------------
(* Repairs.                                                                 *)

\* Whatever an acceptance criterion requires can be repaired: the last phase,
\* the one that reopens, may write all of it, and all that any phase may write.
THEOREM LastPhaseRepairs ==
  ASSUME NEW last \in Nat \ {0}, NEW phases, DOMAIN phases = 1..last, NEW required,
         RepairScope(phases), PathCoverage(phases, required)
  PROVE  /\ \A a \in DOMAIN required : \A d \in required[a] :
              \E pattern \in phases[last].allowed : Matches(pattern, d)
         /\ \A i \in 1..last : \A x : MayWrite(phases[i].allowed, x) => MayWrite(phases[last].allowed, x)
  <1>1. \A i \in 1..last : phases[i].allowed \subseteq phases[last].allowed
    <2>1. last \in DOMAIN phases /\ \A i \in DOMAIN phases : i <= last
      OBVIOUS
    <2>2. QED
      BY <2>1 DEF RepairScope
  <1>2. QED
    BY <1>1 DEF PathCoverage, MayWrite
=============================================================================
