---------------------------- MODULE OpenRunProofs ----------------------------
(***************************************************************************)
(* Proofs about OpenRun, for any number of terminals, old Runs and         *)
(* sessions.                                                               *)
(***************************************************************************)
EXTENDS OpenRun, FiniteSetTheorems, TLAPS

\* What the place of a terminal says about its Run and its OpenCode.
Unmade == {"create", "inspect", "scrap", "register", "unregister", "stranded"}
Held == Unmade \cup {"cleanup", "cancel", "cancelDirty", "failed", "uncleaned"}
Registered == {"launch", "wait", "terminate", "active"}
Outside == Opening \cup {"unopened", "dead"}
PlacesInv ==
  \A p \in Openers :
    /\ pc[p] \in Held => run[p] = p
    /\ pc[p] \in Registered \cup {"cleanup", "cancel", "cancelDirty", "failed"} => run[p] \in runs
    /\ run[p] \in runs \cup {p, None}
    /\ pc[p] \in Unmade => p \notin runs
    /\ pc[p] \in {"inspect", "register"} => p \in tree
    /\ pc[p] \in {"cancel", "failed"} => run[p] \notin tree
    /\ pc[p] = "retire" => run[p] \in runs
    /\ pc[p] \in Opening \cup {"unopened", "look", "prepare", "retire"} => p \notin runs
    /\ child[p] # "none" => pc[p] \in {"wait", "terminate", "active", "dead"} /\ run[p] \in runs

\* A Run that is not registered has no history.
FreshInv ==
  \A r \in RunIds \ runs : stage[r] = "PLANNING" /\ blocked[r] = "NONE" /\ bound[r] = None

\* The session of a new Run is its first participant.
BoundInv == \A r \in Openers : bound[r] # None => <<r, bound[r]>> \in owners

\* A migration goes on from a version that was read, and a creation has
\* begun on no version at all.
SchemaInv ==
  /\ \A p \in Openers :
       /\ pc[p] \in {"tables", "migrate"} => level[p] <= version
       /\ pc[p] = "migrate" => level[p] \in 1..6
       /\ pc[p] = "script" => /\ level[p] <= 6 /\ version \in {0, Latest}
                              /\ \A k \in 1..level[p] : Script[k] \in tables
                              /\ level[p] > 0 => versioned = "yes"
  /\ version < Latest => runs \subseteq OldRuns

DatabaseInv == VersionNamesTables /\ SchemaInv /\ ReadOnlyIsOld
HistoryInv == FreshInv /\ BoundInv /\ CancelledUnused /\ SessionHasOneRun
RunInv == PlacesInv /\ HistoryInv
TreeInv == FailedStartLeavesNothing /\ StrayTreesTraced /\ LostTreesReported
IInv == OpenTypeOK /\ DatabaseInv /\ RunInv /\ TreeInv

-----------------------------------------------------------------------------
(* The tables of each version.                                             *)

LEMMA ScriptIs ==
  /\ Script[1] = "legacy" /\ Script[2] = "sessions" /\ Script[3] = "quality"
  /\ Script[4] = "planning" /\ Script[5] = "candidates" /\ Script[6] = "reviews"
BY DEF Script

LEMMA TablesAre ==
  /\ TablesOf(0) = {} /\ TablesOf(1) = {"legacy"}
  /\ TablesOf(2) = {"legacy", "sessions"} /\ TablesOf(3) = {"legacy", "sessions"}
  /\ TablesOf(4) = {"legacy", "sessions", "quality"}
  /\ TablesOf(5) = {"legacy", "sessions", "quality", "planning"}
  /\ TablesOf(6) = {"legacy", "sessions", "quality", "planning", "candidates"}
  /\ TablesOf(7) = {"legacy", "sessions", "quality", "planning", "candidates", "reviews"}
  /\ Groups = TablesOf(7)
<1>1. 1..0 = {} /\ 1..1 = {1} /\ 1..2 = {1, 2} /\ 1..3 = {1, 2, 3} /\ 1..4 = {1, 2, 3, 4}
      /\ 1..5 = {1, 2, 3, 4, 5} /\ 1..6 = {1, 2, 3, 4, 5, 6}
  OBVIOUS
<1>2. TablesOf(0) = {}
  BY <1>1 DEF TablesOf
<1>3. TablesOf(1) = {"legacy"}
  BY <1>1, ScriptIs DEF TablesOf
<1>4. TablesOf(2) = {"legacy", "sessions"} /\ TablesOf(3) = {"legacy", "sessions"}
  BY <1>1, ScriptIs DEF TablesOf
<1>5. TablesOf(4) = {"legacy", "sessions", "quality"}
  BY <1>1, ScriptIs DEF TablesOf
<1>6. TablesOf(5) = {"legacy", "sessions", "quality", "planning"}
  BY <1>1, ScriptIs DEF TablesOf
<1>7. TablesOf(6) = {"legacy", "sessions", "quality", "planning", "candidates"}
  BY <1>1, ScriptIs DEF TablesOf
<1>8. TablesOf(7) = {"legacy", "sessions", "quality", "planning", "candidates", "reviews"}
  BY <1>1, ScriptIs DEF TablesOf
<1>9. Groups = TablesOf(7)
  BY <1>1 DEF TablesOf, Groups
<1> QED
  BY <1>2, <1>3, <1>4, <1>5, <1>6, <1>7, <1>8, <1>9

\* Tables, with the versions of the artifacts, tell the version.
LEMMA TablesTell ==
  ASSUME NEW v \in 0..7, NEW w \in 0..7, TablesOf(v) = TablesOf(w)
  PROVE v = w \/ (v \in {2, 3} /\ w \in {2, 3})
BY TablesAre

-----------------------------------------------------------------------------
(* A step that leaves the database and whoever opens it alone.             *)

\* Beyond _initialize terminals neither come back nor come out of nowhere.
LEMMA DatabaseKept ==
  ASSUME IInv,
         UNCHANGED <<version, tables, versioned, leases, readonly, level>>,
         runs' \subseteq runs \/ version = Latest,
         \A p \in Openers : pc'[p] \in Outside => pc'[p] = pc[p] \/ pc'[p] = "dead",
         \A p \in Openers : pc[p] \in Outside => pc'[p] = pc[p] \/ pc'[p] = "dead"
  PROVE DatabaseInv'
<1>1. VersionNamesTables'
  BY DEF IInv, DatabaseInv, VersionNamesTables, Creating, Outside, Opening
<1>2. SchemaInv'
  BY DEF IInv, DatabaseInv, SchemaInv, OpenTypeOK, Outside, Opening
<1>3. ReadOnlyIsOld'
  BY DEF IInv, DatabaseInv, ReadOnlyIsOld
<1> QED
  BY <1>1, <1>2, <1>3 DEF DatabaseInv

\* What the rows alone say is kept by whoever leaves them alone.
LEMMA HistoryKept ==
  ASSUME IInv, UNCHANGED <<runs, rows>>
  PROVE HistoryInv'
BY DEF IInv, RunInv, HistoryInv, rows, FreshInv, BoundInv, CancelledUnused, SessionHasOneRun

-----------------------------------------------------------------------------
(* The steps beyond _initialize.                                           *)

LEMMA LookKeeps ==
  ASSUME IInv, NEW p \in Openers, Look(p)
  PROVE  IInv'
<1> USE UncertainAssumption, NoneAssumption, RunsAssumption
    DEF IInv, Look, Go, On, End, To, schema, rows, terminals
<1>1. OpenTypeOK'
  BY DEF OpenTypeOK, RunIds, Places, Ended, Opening, Children, Active
<1>2. DatabaseInv'
  BY <1>1, DatabaseKept
  DEF OpenTypeOK, RunInv, PlacesInv, DatabaseInv, VersionNamesTables, Outside,
      Places, Ended, Opening, Children, Held, Unmade
<1>3. PlacesInv'
  BY DEF OpenTypeOK, RunInv, HistoryInv, PlacesInv, FreshInv, Places, Ended,
         Opening, Children, Held, Unmade, Registered, Active, RunIds
<1>4. HistoryInv'
  BY HistoryKept
<1>5. FailedStartLeavesNothing'
  BY DEF OpenTypeOK, RunInv, TreeInv, FailedStartLeavesNothing, PlacesInv,
         Held, Unmade, Places, Ended, Opening, Children
<1>6. StrayTreesTraced'
  BY DEF OpenTypeOK, RunInv, TreeInv, StrayTreesTraced, PlacesInv, Held, Unmade, Places,
         Ended, Opening, Children, Active
<1>7. LostTreesReported'
  BY DEF OpenTypeOK, RunInv, HistoryInv, TreeInv, LostTreesReported, PlacesInv,
         FreshInv, Held, Unmade, Registered, Places, Ended, Opening, Children, Active,
         RunIds
<1> QED
  BY <1>1, <1>2, <1>3, <1>4, <1>5, <1>6, <1>7 DEF RunInv, TreeInv

LEMMA RetireKeeps ==
  ASSUME IInv, NEW p \in Openers, Retire(p)
  PROVE  IInv'
<1> USE UncertainAssumption, NoneAssumption, RunsAssumption
    DEF IInv, Retire, Go, On, End, To, schema, rows, terminals
<1>1. OpenTypeOK'
  BY DEF OpenTypeOK, RunIds, Places, Ended, Opening, Children, Active
<1>2. DatabaseInv'
  BY <1>1, DatabaseKept
  DEF OpenTypeOK, RunInv, PlacesInv, DatabaseInv, VersionNamesTables, Outside,
      Places, Ended, Opening, Children, Held, Unmade
<1>3. PlacesInv'
  BY DEF OpenTypeOK, RunInv, HistoryInv, PlacesInv, FreshInv, Places, Ended,
         Opening, Children, Held, Unmade, Registered, Active, RunIds
<1>4. FreshInv' /\ BoundInv'
  BY DEF OpenTypeOK, RunInv, HistoryInv, PlacesInv, FreshInv, BoundInv, RunIds,
         Held, Unmade, Registered
<1>5. CancelledUnused'
  BY DEF OpenTypeOK, RunInv, HistoryInv, CancelledUnused, PlacesInv, Held, Unmade
<1>6. SessionHasOneRun'
  BY DEF OpenTypeOK, RunInv, HistoryInv, SessionHasOneRun, BoundInv, RunIds
<1>7. FailedStartLeavesNothing'
  BY DEF OpenTypeOK, RunInv, TreeInv, FailedStartLeavesNothing, PlacesInv,
         Held, Unmade, Places, Ended, Opening, Children
<1>8. StrayTreesTraced'
  BY DEF OpenTypeOK, RunInv, TreeInv, StrayTreesTraced, PlacesInv, Held, Unmade, Places,
         Ended, Opening, Children
<1>9. LostTreesReported'
  BY DEF OpenTypeOK, RunInv, HistoryInv, TreeInv, LostTreesReported, PlacesInv,
         FreshInv, Held, Unmade, Registered, Places, Ended, Opening, Children, Active,
         RunIds
<1> QED
  BY <1>1, <1>2, <1>3, <1>4, <1>5, <1>6, <1>7, <1>8, <1>9
  DEF RunInv, HistoryInv, TreeInv

LEMMA RefuseKeeps ==
  ASSUME IInv, NEW p \in Openers, Refuse(p)
  PROVE  IInv'
<1> USE UncertainAssumption, NoneAssumption, RunsAssumption
    DEF IInv, Refuse, Go, On, End, To, schema, rows, terminals
<1>1. OpenTypeOK'
  BY DEF OpenTypeOK, RunIds, Places, Ended, Opening, Children, Active
<1>2. DatabaseInv'
  BY <1>1, DatabaseKept
  DEF OpenTypeOK, RunInv, PlacesInv, DatabaseInv, VersionNamesTables, Outside,
      Places, Ended, Opening, Children, Held, Unmade
<1>3. PlacesInv'
  BY DEF OpenTypeOK, RunInv, HistoryInv, PlacesInv, FreshInv, Places, Ended,
         Opening, Children, Held, Unmade, Registered, Active, RunIds
<1>4. HistoryInv'
  BY HistoryKept
<1>5. FailedStartLeavesNothing'
  BY DEF OpenTypeOK, RunInv, TreeInv, FailedStartLeavesNothing, PlacesInv,
         Held, Unmade, Places, Ended, Opening, Children
<1>6. StrayTreesTraced'
  BY DEF OpenTypeOK, RunInv, TreeInv, StrayTreesTraced, PlacesInv, Held, Unmade, Places,
         Ended, Opening, Children
<1>7. LostTreesReported'
  BY DEF OpenTypeOK, RunInv, HistoryInv, TreeInv, LostTreesReported, PlacesInv,
         FreshInv, Held, Unmade, Registered, Places, Ended, Opening, Children, Active,
         RunIds
<1> QED
  BY <1>1, <1>2, <1>3, <1>4, <1>5, <1>6, <1>7 DEF RunInv, TreeInv

LEMMA PrepareKeeps ==
  ASSUME IInv, NEW p \in Openers, Prepare(p)
  PROVE  IInv'
<1> USE UncertainAssumption, NoneAssumption, RunsAssumption
    DEF IInv, Prepare, Go, On, End, To, schema, rows, terminals
<1>1. OpenTypeOK'
  BY DEF OpenTypeOK, RunIds, Places, Ended, Opening, Children, Active
<1>2. DatabaseInv'
  BY <1>1, DatabaseKept
  DEF OpenTypeOK, RunInv, PlacesInv, DatabaseInv, VersionNamesTables, Outside,
      Places, Ended, Opening, Children, Held, Unmade
<1>3. PlacesInv'
  BY DEF OpenTypeOK, RunInv, HistoryInv, PlacesInv, FreshInv, Places, Ended,
         Opening, Children, Held, Unmade, Registered, Active, RunIds
<1>4. HistoryInv'
  BY HistoryKept
<1>5. FailedStartLeavesNothing'
  BY DEF OpenTypeOK, RunInv, TreeInv, FailedStartLeavesNothing, PlacesInv,
         Held, Unmade, Places, Ended, Opening, Children
<1>6. StrayTreesTraced'
  BY DEF OpenTypeOK, RunInv, TreeInv, StrayTreesTraced, PlacesInv, Held, Unmade, Places,
         Ended, Opening, Children
<1>7. LostTreesReported'
  BY DEF OpenTypeOK, RunInv, HistoryInv, TreeInv, LostTreesReported, PlacesInv,
         FreshInv, Held, Unmade, Registered, Places, Ended, Opening, Children, Active,
         RunIds
<1> QED
  BY <1>1, <1>2, <1>3, <1>4, <1>5, <1>6, <1>7 DEF RunInv, TreeInv

LEMMA CreateWorktreeKeeps ==
  ASSUME IInv, NEW p \in Openers, CreateWorktree(p)
  PROVE  IInv'
<1> USE UncertainAssumption, NoneAssumption, RunsAssumption
    DEF IInv, CreateWorktree, Go, On, End, To, schema, rows, terminals
<1>1. OpenTypeOK'
  BY DEF OpenTypeOK, RunIds, Places, Ended, Opening, Children, Active
<1>2. DatabaseInv'
  BY <1>1, DatabaseKept
  DEF OpenTypeOK, RunInv, PlacesInv, DatabaseInv, VersionNamesTables, Outside,
      Places, Ended, Opening, Children, Held, Unmade
<1>3. PlacesInv'
  BY DEF OpenTypeOK, RunInv, HistoryInv, PlacesInv, FreshInv, Places, Ended,
         Opening, Children, Held, Unmade, Registered, Active, RunIds
<1>4. HistoryInv'
  BY HistoryKept
<1>5. FailedStartLeavesNothing'
  BY DEF OpenTypeOK, RunInv, TreeInv, FailedStartLeavesNothing, PlacesInv,
         Held, Unmade, Places, Ended, Opening, Children
<1>6. StrayTreesTraced'
  BY DEF OpenTypeOK, RunInv, TreeInv, StrayTreesTraced, PlacesInv, Held, Unmade, Places,
         Ended, Opening, Children
<1>7. LostTreesReported'
  BY DEF OpenTypeOK, RunInv, HistoryInv, TreeInv, LostTreesReported, PlacesInv,
         FreshInv, Held, Unmade, Registered, Places, Ended, Opening, Children, Active,
         RunIds
<1> QED
  BY <1>1, <1>2, <1>3, <1>4, <1>5, <1>6, <1>7 DEF RunInv, TreeInv

LEMMA InspectKeeps ==
  ASSUME IInv, NEW p \in Openers, Inspect(p)
  PROVE  IInv'
<1> USE UncertainAssumption, NoneAssumption, RunsAssumption
    DEF IInv, Inspect, Go, On, End, To, schema, rows, terminals
<1>1. OpenTypeOK'
  BY DEF OpenTypeOK, RunIds, Places, Ended, Opening, Children, Active
<1>2. DatabaseInv'
  BY <1>1, DatabaseKept
  DEF OpenTypeOK, RunInv, PlacesInv, DatabaseInv, VersionNamesTables, Outside,
      Places, Ended, Opening, Children, Held, Unmade
<1>3. PlacesInv'
  BY DEF OpenTypeOK, RunInv, HistoryInv, PlacesInv, FreshInv, Places, Ended,
         Opening, Children, Held, Unmade, Registered, Active, RunIds
<1>4. HistoryInv'
  BY HistoryKept
<1>5. FailedStartLeavesNothing'
  BY DEF OpenTypeOK, RunInv, TreeInv, FailedStartLeavesNothing, PlacesInv,
         Held, Unmade, Places, Ended, Opening, Children
<1>6. StrayTreesTraced'
  BY DEF OpenTypeOK, RunInv, TreeInv, StrayTreesTraced, PlacesInv, Held, Unmade, Places,
         Ended, Opening, Children
<1>7. LostTreesReported'
  BY DEF OpenTypeOK, RunInv, HistoryInv, TreeInv, LostTreesReported, PlacesInv,
         FreshInv, Held, Unmade, Registered, Places, Ended, Opening, Children, Active,
         RunIds
<1> QED
  BY <1>1, <1>2, <1>3, <1>4, <1>5, <1>6, <1>7 DEF RunInv, TreeInv

LEMMA ScrapKeeps ==
  ASSUME IInv, NEW p \in Openers, Scrap(p)
  PROVE  IInv'
<1> USE UncertainAssumption, NoneAssumption, RunsAssumption
    DEF IInv, Scrap, Go, On, End, To, schema, rows, terminals
<1>1. OpenTypeOK'
  BY DEF OpenTypeOK, RunIds, Places, Ended, Opening, Children, Active
<1>2. DatabaseInv'
  BY <1>1, DatabaseKept
  DEF OpenTypeOK, RunInv, PlacesInv, DatabaseInv, VersionNamesTables, Outside,
      Places, Ended, Opening, Children, Held, Unmade
<1>3. PlacesInv'
  BY DEF OpenTypeOK, RunInv, HistoryInv, PlacesInv, FreshInv, Places, Ended,
         Opening, Children, Held, Unmade, Registered, Active, RunIds
<1>4. HistoryInv'
  BY HistoryKept
<1>5. FailedStartLeavesNothing'
  BY DEF OpenTypeOK, RunInv, TreeInv, FailedStartLeavesNothing, PlacesInv,
         Held, Unmade, Places, Ended, Opening, Children
<1>6. StrayTreesTraced'
  BY DEF OpenTypeOK, RunInv, TreeInv, StrayTreesTraced, PlacesInv, Held, Unmade, Places,
         Ended, Opening, Children
<1>7. LostTreesReported'
  BY DEF OpenTypeOK, RunInv, HistoryInv, TreeInv, LostTreesReported, PlacesInv,
         FreshInv, Held, Unmade, Registered, Places, Ended, Opening, Children, Active,
         RunIds
<1> QED
  BY <1>1, <1>2, <1>3, <1>4, <1>5, <1>6, <1>7 DEF RunInv, TreeInv

LEMMA RegisterKeeps ==
  ASSUME IInv, NEW p \in Openers, Register(p)
  PROVE  IInv'
<1> USE UncertainAssumption, NoneAssumption, RunsAssumption
    DEF IInv, Register, Go, On, End, To, schema, rows, terminals
<1>1. OpenTypeOK'
  BY DEF OpenTypeOK, RunIds, Places, Ended, Opening, Children, Active
<1>2. DatabaseInv'
  BY <1>1, DatabaseKept
  DEF OpenTypeOK, RunInv, PlacesInv, DatabaseInv, VersionNamesTables, Outside,
      Places, Ended, Opening, Children, Held, Unmade
<1>3. PlacesInv'
  BY DEF OpenTypeOK, RunInv, HistoryInv, PlacesInv, FreshInv, Places, Ended,
         Opening, Children, Held, Unmade, Registered, Active, RunIds
<1>4. FreshInv' /\ BoundInv'
  BY DEF OpenTypeOK, RunInv, HistoryInv, PlacesInv, FreshInv, BoundInv, RunIds,
         Held, Unmade, Registered
<1>5. CancelledUnused'
  BY DEF OpenTypeOK, RunInv, HistoryInv, CancelledUnused, PlacesInv, Held, Unmade
<1>6. SessionHasOneRun'
  BY DEF OpenTypeOK, RunInv, HistoryInv, SessionHasOneRun, BoundInv, RunIds
<1>7. FailedStartLeavesNothing'
  BY DEF OpenTypeOK, RunInv, TreeInv, FailedStartLeavesNothing, PlacesInv,
         Held, Unmade, Places, Ended, Opening, Children
<1>8. StrayTreesTraced'
  BY DEF OpenTypeOK, RunInv, TreeInv, StrayTreesTraced, PlacesInv, Held, Unmade, Places,
         Ended, Opening, Children
<1>9. LostTreesReported'
  BY DEF OpenTypeOK, RunInv, HistoryInv, TreeInv, LostTreesReported, PlacesInv,
         FreshInv, Held, Unmade, Registered, Places, Ended, Opening, Children, Active,
         RunIds
<1> QED
  BY <1>1, <1>2, <1>3, <1>4, <1>5, <1>6, <1>7, <1>8, <1>9
  DEF RunInv, HistoryInv, TreeInv

LEMMA RegisterFailsKeeps ==
  ASSUME IInv, NEW p \in Openers, RegisterFails(p)
  PROVE  IInv'
<1> USE UncertainAssumption, NoneAssumption, RunsAssumption
    DEF IInv, RegisterFails, Go, On, End, To, schema, rows, terminals
<1>1. OpenTypeOK'
  BY DEF OpenTypeOK, RunIds, Places, Ended, Opening, Children, Active
<1>2. DatabaseInv'
  BY <1>1, DatabaseKept
  DEF OpenTypeOK, RunInv, PlacesInv, DatabaseInv, VersionNamesTables, Outside,
      Places, Ended, Opening, Children, Held, Unmade
<1>3. PlacesInv'
  BY DEF OpenTypeOK, RunInv, HistoryInv, PlacesInv, FreshInv, Places, Ended,
         Opening, Children, Held, Unmade, Registered, Active, RunIds
<1>4. HistoryInv'
  BY HistoryKept
<1>5. FailedStartLeavesNothing'
  BY DEF OpenTypeOK, RunInv, TreeInv, FailedStartLeavesNothing, PlacesInv,
         Held, Unmade, Places, Ended, Opening, Children
<1>6. StrayTreesTraced'
  BY DEF OpenTypeOK, RunInv, TreeInv, StrayTreesTraced, PlacesInv, Held, Unmade, Places,
         Ended, Opening, Children
<1>7. LostTreesReported'
  BY DEF OpenTypeOK, RunInv, HistoryInv, TreeInv, LostTreesReported, PlacesInv,
         FreshInv, Held, Unmade, Registered, Places, Ended, Opening, Children, Active,
         RunIds
<1> QED
  BY <1>1, <1>2, <1>3, <1>4, <1>5, <1>6, <1>7 DEF RunInv, TreeInv

LEMMA UnregisterKeeps ==
  ASSUME IInv, NEW p \in Openers, Unregister(p)
  PROVE  IInv'
<1> USE UncertainAssumption, NoneAssumption, RunsAssumption
    DEF IInv, Unregister, Go, On, End, To, schema, rows, terminals
<1>1. OpenTypeOK'
  BY DEF OpenTypeOK, RunIds, Places, Ended, Opening, Children, Active
<1>2. DatabaseInv'
  BY <1>1, DatabaseKept
  DEF OpenTypeOK, RunInv, PlacesInv, DatabaseInv, VersionNamesTables, Outside,
      Places, Ended, Opening, Children, Held, Unmade
<1>3. PlacesInv'
  BY DEF OpenTypeOK, RunInv, HistoryInv, PlacesInv, FreshInv, Places, Ended,
         Opening, Children, Held, Unmade, Registered, Active, RunIds
<1>4. HistoryInv'
  BY HistoryKept
<1>5. FailedStartLeavesNothing'
  BY DEF OpenTypeOK, RunInv, TreeInv, FailedStartLeavesNothing, PlacesInv,
         Held, Unmade, Places, Ended, Opening, Children
<1>6. StrayTreesTraced'
  BY DEF OpenTypeOK, RunInv, TreeInv, StrayTreesTraced, PlacesInv, Held, Unmade, Places,
         Ended, Opening, Children
<1>7. LostTreesReported'
  BY DEF OpenTypeOK, RunInv, HistoryInv, TreeInv, LostTreesReported, PlacesInv,
         FreshInv, Held, Unmade, Registered, Places, Ended, Opening, Children, Active,
         RunIds
<1> QED
  BY <1>1, <1>2, <1>3, <1>4, <1>5, <1>6, <1>7 DEF RunInv, TreeInv

LEMMA ResumeKeeps ==
  ASSUME IInv, NEW p \in Openers, Resume(p)
  PROVE  IInv'
<1> USE UncertainAssumption, NoneAssumption, RunsAssumption
    DEF IInv, Resume, Go, On, End, To, schema, rows, terminals
<1>1. OpenTypeOK'
  BY DEF OpenTypeOK, RunIds, Places, Ended, Opening, Children, Active
<1>2. DatabaseInv'
  BY <1>1, DatabaseKept
  DEF OpenTypeOK, RunInv, PlacesInv, DatabaseInv, VersionNamesTables, Outside,
      Places, Ended, Opening, Children, Held, Unmade
<1>3. PlacesInv'
  BY DEF OpenTypeOK, RunInv, HistoryInv, PlacesInv, FreshInv, Places, Ended,
         Opening, Children, Held, Unmade, Registered, Active, RunIds
<1>4. HistoryInv'
  BY HistoryKept
<1>5. FailedStartLeavesNothing'
  BY DEF OpenTypeOK, RunInv, TreeInv, FailedStartLeavesNothing, PlacesInv,
         Held, Unmade, Places, Ended, Opening, Children
<1>6. StrayTreesTraced'
  BY DEF OpenTypeOK, RunInv, TreeInv, StrayTreesTraced, PlacesInv, Held, Unmade, Places,
         Ended, Opening, Children, Active
<1>7. LostTreesReported'
  BY DEF OpenTypeOK, RunInv, HistoryInv, TreeInv, LostTreesReported, PlacesInv,
         FreshInv, Held, Unmade, Registered, Places, Ended, Opening, Children, Active,
         RunIds
<1> QED
  BY <1>1, <1>2, <1>3, <1>4, <1>5, <1>6, <1>7 DEF RunInv, TreeInv

LEMMA LaunchKeeps ==
  ASSUME IInv, NEW p \in Openers, Launch(p)
  PROVE  IInv'
<1> USE UncertainAssumption, NoneAssumption, RunsAssumption
    DEF IInv, Launch, Go, On, End, To, Fail, Created, schema, rows, terminals
<1>1. OpenTypeOK'
  BY DEF OpenTypeOK, RunIds, Places, Ended, Opening, Children, Active
<1>2. DatabaseInv'
  BY <1>1, DatabaseKept
  DEF OpenTypeOK, RunInv, PlacesInv, DatabaseInv, VersionNamesTables, Outside,
      Places, Ended, Opening, Children, Held, Unmade
<1>3. PlacesInv'
  BY DEF OpenTypeOK, RunInv, HistoryInv, PlacesInv, FreshInv, Places, Ended,
         Opening, Children, Held, Unmade, Registered, Active, RunIds
<1>4. HistoryInv'
  BY HistoryKept
<1>5. FailedStartLeavesNothing'
  BY DEF OpenTypeOK, RunInv, TreeInv, FailedStartLeavesNothing, PlacesInv,
         Held, Unmade, Places, Ended, Opening, Children
<1>6. StrayTreesTraced'
  BY DEF OpenTypeOK, RunInv, TreeInv, StrayTreesTraced, PlacesInv, Held, Unmade, Places,
         Ended, Opening, Children
<1>7. LostTreesReported'
  BY DEF OpenTypeOK, RunInv, HistoryInv, TreeInv, LostTreesReported, PlacesInv,
         FreshInv, Held, Unmade, Registered, Places, Ended, Opening, Children, Active,
         RunIds
<1> QED
  BY <1>1, <1>2, <1>3, <1>4, <1>5, <1>6, <1>7 DEF RunInv, TreeInv

LEMMA WaitKeeps ==
  ASSUME IInv, NEW p \in Openers, Wait(p)
  PROVE  IInv'
<1> USE UncertainAssumption, NoneAssumption, RunsAssumption
    DEF IInv, Wait, Go, On, End, To, schema, rows, terminals
<1>1. OpenTypeOK'
  BY DEF OpenTypeOK, RunIds, Places, Ended, Opening, Children, Active
<1>2. DatabaseInv'
  BY <1>1, DatabaseKept
  DEF OpenTypeOK, RunInv, PlacesInv, DatabaseInv, VersionNamesTables, Outside,
      Places, Ended, Opening, Children, Held, Unmade
<1>3. PlacesInv'
  BY DEF OpenTypeOK, RunInv, HistoryInv, PlacesInv, FreshInv, Places, Ended,
         Opening, Children, Held, Unmade, Registered, Active, RunIds
<1>4. HistoryInv'
  BY HistoryKept
<1>5. FailedStartLeavesNothing'
  BY DEF OpenTypeOK, RunInv, TreeInv, FailedStartLeavesNothing, PlacesInv,
         Held, Unmade, Places, Ended, Opening, Children
<1>6. StrayTreesTraced'
  BY DEF OpenTypeOK, RunInv, TreeInv, StrayTreesTraced, PlacesInv, Held, Unmade, Places,
         Ended, Opening, Children
<1>7. LostTreesReported'
  BY DEF OpenTypeOK, RunInv, HistoryInv, TreeInv, LostTreesReported, PlacesInv,
         FreshInv, Held, Unmade, Registered, Places, Ended, Opening, Children, Active,
         RunIds
<1> QED
  BY <1>1, <1>2, <1>3, <1>4, <1>5, <1>6, <1>7 DEF RunInv, TreeInv

LEMMA TerminateKeeps ==
  ASSUME IInv, NEW p \in Openers, Terminate(p)
  PROVE  IInv'
<1> USE UncertainAssumption, NoneAssumption, RunsAssumption
    DEF IInv, Terminate, Go, On, End, To, Fail, Created, schema, rows,
        terminals
<1>1. OpenTypeOK'
  BY DEF OpenTypeOK, RunIds, Places, Ended, Opening, Children, Active
<1>2. DatabaseInv'
  BY <1>1, DatabaseKept
  DEF OpenTypeOK, RunInv, PlacesInv, DatabaseInv, VersionNamesTables, Outside,
      Places, Ended, Opening, Children, Held, Unmade
<1>3. PlacesInv'
  BY DEF OpenTypeOK, RunInv, HistoryInv, PlacesInv, FreshInv, Places, Ended,
         Opening, Children, Held, Unmade, Registered, Active, RunIds
<1>4. HistoryInv'
  BY HistoryKept
<1>5. FailedStartLeavesNothing'
  BY DEF OpenTypeOK, RunInv, TreeInv, FailedStartLeavesNothing, PlacesInv,
         Held, Unmade, Places, Ended, Opening, Children
<1>6. StrayTreesTraced'
  BY DEF OpenTypeOK, RunInv, TreeInv, StrayTreesTraced, PlacesInv, Held, Unmade, Places,
         Ended, Opening, Children
<1>7. LostTreesReported'
  BY DEF OpenTypeOK, RunInv, HistoryInv, TreeInv, LostTreesReported, PlacesInv,
         FreshInv, Held, Unmade, Registered, Places, Ended, Opening, Children, Active,
         RunIds
<1> QED
  BY <1>1, <1>2, <1>3, <1>4, <1>5, <1>6, <1>7 DEF RunInv, TreeInv

LEMMA CleanupKeeps ==
  ASSUME IInv, NEW p \in Openers, Cleanup(p)
  PROVE  IInv'
<1> USE UncertainAssumption, NoneAssumption, RunsAssumption
    DEF IInv, Cleanup, Go, On, End, To, schema, rows, terminals
<1>1. OpenTypeOK'
  BY DEF OpenTypeOK, RunIds, Places, Ended, Opening, Children, Active
<1>2. DatabaseInv'
  BY <1>1, DatabaseKept
  DEF OpenTypeOK, RunInv, PlacesInv, DatabaseInv, VersionNamesTables, Outside,
      Places, Ended, Opening, Children, Held, Unmade
<1>3. PlacesInv'
  BY DEF OpenTypeOK, RunInv, HistoryInv, PlacesInv, FreshInv, Places, Ended,
         Opening, Children, Held, Unmade, Registered, Active, RunIds
<1>4. HistoryInv'
  BY HistoryKept
<1>5. FailedStartLeavesNothing'
  BY DEF OpenTypeOK, RunInv, TreeInv, FailedStartLeavesNothing, PlacesInv,
         Held, Unmade, Places, Ended, Opening, Children
<1>6. StrayTreesTraced'
  BY DEF OpenTypeOK, RunInv, TreeInv, StrayTreesTraced, PlacesInv, Held, Unmade, Places,
         Ended, Opening, Children
<1>7. LostTreesReported'
  BY DEF OpenTypeOK, RunInv, HistoryInv, TreeInv, LostTreesReported, PlacesInv,
         FreshInv, Held, Unmade, Registered, Places, Ended, Opening, Children, Active,
         RunIds
<1> QED
  BY <1>1, <1>2, <1>3, <1>4, <1>5, <1>6, <1>7 DEF RunInv, TreeInv

LEMMA CancelKeeps ==
  ASSUME IInv, NEW p \in Openers, Cancel(p)
  PROVE  IInv'
<1> USE UncertainAssumption, NoneAssumption, RunsAssumption
    DEF IInv, Cancel, Go, On, End, To, CanCancel, schema, rows, terminals
<1>1. OpenTypeOK'
  BY DEF OpenTypeOK, RunIds, Places, Ended, Opening, Children, Active
<1>2. DatabaseInv'
  BY <1>1, DatabaseKept
  DEF OpenTypeOK, RunInv, PlacesInv, DatabaseInv, VersionNamesTables, Outside,
      Places, Ended, Opening, Children, Held, Unmade
<1>3. PlacesInv'
  BY DEF OpenTypeOK, RunInv, HistoryInv, PlacesInv, FreshInv, Places, Ended,
         Opening, Children, Held, Unmade, Registered, Active, RunIds
<1>4. FreshInv' /\ BoundInv'
  BY DEF OpenTypeOK, RunInv, HistoryInv, PlacesInv, FreshInv, BoundInv, RunIds,
         Held, Unmade, Registered
<1>5. CancelledUnused'
  BY DEF OpenTypeOK, RunInv, HistoryInv, CancelledUnused, PlacesInv, Held, Unmade
<1>6. SessionHasOneRun'
  BY DEF OpenTypeOK, RunInv, HistoryInv, SessionHasOneRun, BoundInv, RunIds
<1>7. FailedStartLeavesNothing'
  BY DEF OpenTypeOK, RunInv, TreeInv, FailedStartLeavesNothing, PlacesInv,
         Held, Unmade, Places, Ended, Opening, Children
<1>8. StrayTreesTraced'
  BY DEF OpenTypeOK, RunInv, TreeInv, StrayTreesTraced, PlacesInv, Held, Unmade, Places,
         Ended, Opening, Children
<1>9. LostTreesReported'
  BY DEF OpenTypeOK, RunInv, HistoryInv, TreeInv, LostTreesReported, PlacesInv,
         FreshInv, Held, Unmade, Registered, Places, Ended, Opening, Children, Active,
         RunIds
<1> QED
  BY <1>1, <1>2, <1>3, <1>4, <1>5, <1>6, <1>7, <1>8, <1>9
  DEF RunInv, HistoryInv, TreeInv

LEMMA CloseKeeps ==
  ASSUME IInv, NEW p \in Openers, Close(p)
  PROVE  IInv'
<1> USE UncertainAssumption, NoneAssumption, RunsAssumption
    DEF IInv, Close, Go, On, End, To, schema, rows, terminals
<1>1. OpenTypeOK'
  BY DEF OpenTypeOK, RunIds, Places, Ended, Opening, Children, Active
<1>2. DatabaseInv'
  BY <1>1, DatabaseKept
  DEF OpenTypeOK, RunInv, PlacesInv, DatabaseInv, VersionNamesTables, Outside,
      Places, Ended, Opening, Children, Held, Unmade
<1>3. PlacesInv'
  BY DEF OpenTypeOK, RunInv, HistoryInv, PlacesInv, FreshInv, Places, Ended,
         Opening, Children, Held, Unmade, Registered, Active, RunIds
<1>4. HistoryInv'
  BY HistoryKept
<1>5. FailedStartLeavesNothing'
  BY DEF OpenTypeOK, RunInv, TreeInv, FailedStartLeavesNothing, PlacesInv,
         Held, Unmade, Places, Ended, Opening, Children
<1>6. StrayTreesTraced'
  BY DEF OpenTypeOK, RunInv, TreeInv, StrayTreesTraced, PlacesInv, Held, Unmade, Places,
         Ended, Opening, Children
<1>7. LostTreesReported'
  BY DEF OpenTypeOK, RunInv, HistoryInv, TreeInv, LostTreesReported, PlacesInv,
         FreshInv, Held, Unmade, Registered, Places, Ended, Opening, Children, Active,
         RunIds
<1> QED
  BY <1>1, <1>2, <1>3, <1>4, <1>5, <1>6, <1>7 DEF RunInv, TreeInv

LEMMA DieKeeps ==
  ASSUME IInv, NEW p \in Openers, Die(p)
  PROVE  IInv'
<1> USE UncertainAssumption, NoneAssumption, RunsAssumption
    DEF IInv, Die, Go, On, End, To, schema, rows, terminals
<1>1. OpenTypeOK'
  BY DEF OpenTypeOK, RunIds, Places, Ended, Opening, Children, Active
<1>2. DatabaseInv'
  BY <1>1, DatabaseKept
  DEF OpenTypeOK, RunInv, PlacesInv, DatabaseInv, VersionNamesTables, Outside,
      Places, Ended, Opening, Children, Held, Unmade
<1>3. PlacesInv'
  BY DEF OpenTypeOK, RunInv, HistoryInv, PlacesInv, FreshInv, Places, Ended,
         Opening, Children, Held, Unmade, Registered, Active, RunIds
<1>4. HistoryInv'
  BY HistoryKept
<1>5. FailedStartLeavesNothing'
  BY DEF OpenTypeOK, RunInv, TreeInv, FailedStartLeavesNothing, PlacesInv,
         Held, Unmade, Places, Ended, Opening, Children
<1>6. StrayTreesTraced'
  BY DEF OpenTypeOK, RunInv, TreeInv, StrayTreesTraced, PlacesInv, Held, Unmade, Places,
         Ended, Opening, Children
<1>7. LostTreesReported'
  BY DEF OpenTypeOK, RunInv, HistoryInv, TreeInv, LostTreesReported, PlacesInv,
         FreshInv, Held, Unmade, Registered, Places, Ended, Opening, Children, Active,
         RunIds
<1> QED
  BY <1>1, <1>2, <1>3, <1>4, <1>5, <1>6, <1>7 DEF RunInv, TreeInv

LEMMA AttachKeeps ==
  ASSUME IInv, NEW p \in Openers, Attach(p)
  PROVE  IInv'
<1> USE UncertainAssumption, NoneAssumption, RunsAssumption
    DEF IInv, Attach, Go, On, End, To, schema, rows, terminals
<1>1. OpenTypeOK'
  BY DEF OpenTypeOK, RunIds, Places, Ended, Opening, Children, Active
<1>2. DatabaseInv'
  BY <1>1, DatabaseKept
  DEF OpenTypeOK, RunInv, PlacesInv, DatabaseInv, VersionNamesTables, Outside,
      Places, Ended, Opening, Children, Held, Unmade
<1>3. PlacesInv'
  BY DEF OpenTypeOK, RunInv, HistoryInv, PlacesInv, FreshInv, Places, Ended,
         Opening, Children, Held, Unmade, Registered, Active, RunIds
<1>4. HistoryInv'
  BY HistoryKept
<1>5. FailedStartLeavesNothing'
  BY DEF OpenTypeOK, RunInv, TreeInv, FailedStartLeavesNothing, PlacesInv,
         Held, Unmade, Places, Ended, Opening, Children
<1>6. StrayTreesTraced'
  BY DEF OpenTypeOK, RunInv, TreeInv, StrayTreesTraced, PlacesInv, Held, Unmade, Places,
         Ended, Opening, Children
<1>7. LostTreesReported'
  BY DEF OpenTypeOK, RunInv, HistoryInv, TreeInv, LostTreesReported, PlacesInv,
         FreshInv, Held, Unmade, Registered, Places, Ended, Opening, Children, Active,
         RunIds
<1> QED
  BY <1>1, <1>2, <1>3, <1>4, <1>5, <1>6, <1>7 DEF RunInv, TreeInv

LEMMA LeaveKeeps ==
  ASSUME IInv, NEW p \in Openers, Leave(p)
  PROVE  IInv'
<1> USE UncertainAssumption, NoneAssumption, RunsAssumption
    DEF IInv, Leave, Go, On, End, To, schema, rows, terminals
<1>1. OpenTypeOK'
  BY DEF OpenTypeOK, RunIds, Places, Ended, Opening, Children, Active
<1>2. DatabaseInv'
  BY <1>1, DatabaseKept
  DEF OpenTypeOK, RunInv, PlacesInv, DatabaseInv, VersionNamesTables, Outside,
      Places, Ended, Opening, Children, Held, Unmade
<1>3. PlacesInv'
  BY DEF OpenTypeOK, RunInv, HistoryInv, PlacesInv, FreshInv, Places, Ended,
         Opening, Children, Held, Unmade, Registered, Active, RunIds
<1>4. HistoryInv'
  BY HistoryKept
<1>5. FailedStartLeavesNothing'
  BY DEF OpenTypeOK, RunInv, TreeInv, FailedStartLeavesNothing, PlacesInv,
         Held, Unmade, Places, Ended, Opening, Children
<1>6. StrayTreesTraced'
  BY DEF OpenTypeOK, RunInv, TreeInv, StrayTreesTraced, PlacesInv, Held, Unmade, Places,
         Ended, Opening, Children
<1>7. LostTreesReported'
  BY DEF OpenTypeOK, RunInv, HistoryInv, TreeInv, LostTreesReported, PlacesInv,
         FreshInv, Held, Unmade, Registered, Places, Ended, Opening, Children, Active,
         RunIds
<1> QED
  BY <1>1, <1>2, <1>3, <1>4, <1>5, <1>6, <1>7 DEF RunInv, TreeInv

LEMMA BindTaskKeeps ==
  ASSUME IInv, NEW p \in Openers, NEW s \in Sessions, BindTask(p, s)
  PROVE  IInv'
<1> USE UncertainAssumption, NoneAssumption, RunsAssumption
    DEF IInv, BindTask, Go, On, End, To, Free, schema, rows, terminals
<1>1. OpenTypeOK'
  BY DEF OpenTypeOK, RunIds, Places, Ended, Opening, Children, Active, RunInv,
         PlacesInv
<1>2. DatabaseInv'
  BY <1>1, DatabaseKept
  DEF OpenTypeOK, RunInv, PlacesInv, DatabaseInv, VersionNamesTables, Outside,
      Places, Ended, Opening, Children, Held, Unmade
<1>3. PlacesInv'
  BY DEF OpenTypeOK, RunInv, HistoryInv, PlacesInv, FreshInv, Places, Ended,
         Opening, Children, Held, Unmade, Registered, Active, RunIds
<1>4. FreshInv' /\ BoundInv'
  BY DEF OpenTypeOK, RunInv, HistoryInv, PlacesInv, FreshInv, BoundInv, RunIds,
         Held, Unmade, Registered
<1>5. CancelledUnused'
  BY DEF OpenTypeOK, RunInv, HistoryInv, CancelledUnused, PlacesInv, Held, Unmade
<1>6. SessionHasOneRun'
  BY DEF OpenTypeOK, RunInv, HistoryInv, SessionHasOneRun, BoundInv, RunIds
<1>7. FailedStartLeavesNothing'
  BY DEF OpenTypeOK, RunInv, TreeInv, FailedStartLeavesNothing, PlacesInv,
         Held, Unmade, Places, Ended, Opening, Children
<1>8. StrayTreesTraced'
  BY DEF OpenTypeOK, RunInv, TreeInv, StrayTreesTraced, PlacesInv, Held, Unmade, Places,
         Ended, Opening, Children
<1>9. LostTreesReported'
  BY DEF OpenTypeOK, RunInv, HistoryInv, TreeInv, LostTreesReported, PlacesInv,
         FreshInv, Held, Unmade, Registered, Places, Ended, Opening, Children, Active,
         RunIds
<1> QED
  BY <1>1, <1>2, <1>3, <1>4, <1>5, <1>6, <1>7, <1>8, <1>9
  DEF RunInv, HistoryInv, TreeInv

LEMMA AttachSessionKeeps ==
  ASSUME IInv, NEW p \in Openers, NEW s \in Sessions, AttachSession(p, s)
  PROVE  IInv'
<1> USE UncertainAssumption, NoneAssumption, RunsAssumption
    DEF IInv, AttachSession, Go, On, End, To, Free, schema, rows, terminals
<1>1. OpenTypeOK'
  BY DEF OpenTypeOK, RunIds, Places, Ended, Opening, Children, Active, RunInv,
         PlacesInv
<1>2. DatabaseInv'
  BY <1>1, DatabaseKept
  DEF OpenTypeOK, RunInv, PlacesInv, DatabaseInv, VersionNamesTables, Outside,
      Places, Ended, Opening, Children, Held, Unmade
<1>3. PlacesInv'
  BY DEF OpenTypeOK, RunInv, HistoryInv, PlacesInv, FreshInv, Places, Ended,
         Opening, Children, Held, Unmade, Registered, Active, RunIds
<1>4. FreshInv' /\ BoundInv'
  BY DEF OpenTypeOK, RunInv, HistoryInv, PlacesInv, FreshInv, BoundInv, RunIds,
         Held, Unmade, Registered
<1>5. CancelledUnused'
  BY DEF OpenTypeOK, RunInv, HistoryInv, CancelledUnused, PlacesInv, Held, Unmade
<1>6. SessionHasOneRun'
  BY DEF OpenTypeOK, RunInv, HistoryInv, SessionHasOneRun, BoundInv, RunIds
<1>7. FailedStartLeavesNothing'
  BY DEF OpenTypeOK, RunInv, TreeInv, FailedStartLeavesNothing, PlacesInv,
         Held, Unmade, Places, Ended, Opening, Children
<1>8. StrayTreesTraced'
  BY DEF OpenTypeOK, RunInv, TreeInv, StrayTreesTraced, PlacesInv, Held, Unmade, Places,
         Ended, Opening, Children
<1>9. LostTreesReported'
  BY DEF OpenTypeOK, RunInv, HistoryInv, TreeInv, LostTreesReported, PlacesInv,
         FreshInv, Held, Unmade, Registered, Places, Ended, Opening, Children, Active,
         RunIds
<1> QED
  BY <1>1, <1>2, <1>3, <1>4, <1>5, <1>6, <1>7, <1>8, <1>9
  DEF RunInv, HistoryInv, TreeInv

LEMMA WorkKeeps ==
  ASSUME IInv, NEW r \in RunIds, Work(r)
  PROVE  IInv'
<1> USE UncertainAssumption, NoneAssumption, RunsAssumption
    DEF IInv, Work, Go, On, End, To, schema, rows, terminals
<1>1. OpenTypeOK'
  BY DEF OpenTypeOK, RunIds, Places, Ended, Opening, Children, Active
<1>2. DatabaseInv'
  BY <1>1, DatabaseKept
  DEF OpenTypeOK, RunInv, PlacesInv, DatabaseInv, VersionNamesTables, Outside,
      Places, Ended, Opening, Children, Held, Unmade
<1>3. PlacesInv'
  BY DEF OpenTypeOK, RunInv, HistoryInv, PlacesInv, FreshInv, Places, Ended,
         Opening, Children, Held, Unmade, Registered, Active, RunIds
<1>4. FreshInv' /\ BoundInv'
  BY DEF OpenTypeOK, RunInv, HistoryInv, PlacesInv, FreshInv, BoundInv, RunIds,
         Held, Unmade, Registered
<1>5. CancelledUnused'
  BY DEF OpenTypeOK, RunInv, HistoryInv, CancelledUnused, PlacesInv, Held, Unmade
<1>6. SessionHasOneRun'
  BY DEF OpenTypeOK, RunInv, HistoryInv, SessionHasOneRun, BoundInv, RunIds
<1>7. FailedStartLeavesNothing'
  BY DEF OpenTypeOK, RunInv, TreeInv, FailedStartLeavesNothing, PlacesInv,
         Held, Unmade, Places, Ended, Opening, Children
<1>8. StrayTreesTraced'
  BY DEF OpenTypeOK, RunInv, TreeInv, StrayTreesTraced, PlacesInv, Held, Unmade, Places,
         Ended, Opening, Children
<1>9. LostTreesReported'
  BY DEF OpenTypeOK, RunInv, HistoryInv, TreeInv, LostTreesReported, PlacesInv,
         FreshInv, Held, Unmade, Registered, Places, Ended, Opening, Children, Active,
         RunIds
<1> QED
  BY <1>1, <1>2, <1>3, <1>4, <1>5, <1>6, <1>7, <1>8, <1>9
  DEF RunInv, HistoryInv, TreeInv

LEMMA RemoveAcceptedKeeps ==
  ASSUME IInv, NEW r \in RunIds, RemoveAccepted(r)
  PROVE  IInv'
<1> USE UncertainAssumption, NoneAssumption, RunsAssumption
    DEF IInv, RemoveAccepted, Go, On, End, To, schema, rows, terminals
<1>1. OpenTypeOK'
  BY DEF OpenTypeOK, RunIds, Places, Ended, Opening, Children, Active
<1>2. DatabaseInv'
  BY <1>1, DatabaseKept
  DEF OpenTypeOK, RunInv, PlacesInv, DatabaseInv, VersionNamesTables, Outside,
      Places, Ended, Opening, Children, Held, Unmade
<1>3. PlacesInv'
  BY DEF OpenTypeOK, RunInv, HistoryInv, PlacesInv, FreshInv, Places, Ended,
         Opening, Children, Held, Unmade, Registered, Active, RunIds
<1>4. HistoryInv'
  BY HistoryKept
<1>5. FailedStartLeavesNothing'
  BY DEF OpenTypeOK, RunInv, TreeInv, FailedStartLeavesNothing, PlacesInv,
         Held, Unmade, Places, Ended, Opening, Children
<1>6. StrayTreesTraced'
  BY DEF OpenTypeOK, RunInv, TreeInv, StrayTreesTraced, PlacesInv, Held, Unmade, Places,
         Ended, Opening, Children
<1>7. LostTreesReported'
  BY DEF OpenTypeOK, RunInv, HistoryInv, TreeInv, LostTreesReported, PlacesInv,
         FreshInv, Held, Unmade, Registered, Places, Ended, Opening, Children, Active,
         RunIds
<1> QED
  BY <1>1, <1>2, <1>3, <1>4, <1>5, <1>6, <1>7 DEF RunInv, TreeInv

LEMMA BlockKeeps ==
  ASSUME IInv, NEW r \in RunIds, Block(r)
  PROVE  IInv'
<1> USE UncertainAssumption, NoneAssumption, RunsAssumption
    DEF IInv, Block, Go, On, End, To, schema, rows, terminals
<1>1. OpenTypeOK'
  BY DEF OpenTypeOK, RunIds, Places, Ended, Opening, Children, Active
<1>2. DatabaseInv'
  BY <1>1, DatabaseKept
  DEF OpenTypeOK, RunInv, PlacesInv, DatabaseInv, VersionNamesTables, Outside,
      Places, Ended, Opening, Children, Held, Unmade
<1>3. PlacesInv'
  BY DEF OpenTypeOK, RunInv, HistoryInv, PlacesInv, FreshInv, Places, Ended,
         Opening, Children, Held, Unmade, Registered, Active, RunIds
<1>4. FreshInv' /\ BoundInv'
  BY DEF OpenTypeOK, RunInv, HistoryInv, PlacesInv, FreshInv, BoundInv, RunIds,
         Held, Unmade, Registered
<1>5. CancelledUnused'
  BY DEF OpenTypeOK, RunInv, HistoryInv, CancelledUnused, PlacesInv, Held, Unmade
<1>6. SessionHasOneRun'
  BY DEF OpenTypeOK, RunInv, HistoryInv, SessionHasOneRun, BoundInv, RunIds
<1>7. FailedStartLeavesNothing'
  BY DEF OpenTypeOK, RunInv, TreeInv, FailedStartLeavesNothing, PlacesInv,
         Held, Unmade, Places, Ended, Opening, Children
<1>8. StrayTreesTraced'
  BY DEF OpenTypeOK, RunInv, TreeInv, StrayTreesTraced, PlacesInv, Held, Unmade, Places,
         Ended, Opening, Children
<1>9. LostTreesReported'
  BY DEF OpenTypeOK, RunInv, HistoryInv, TreeInv, LostTreesReported, PlacesInv,
         FreshInv, Held, Unmade, Registered, Places, Ended, Opening, Children, Active,
         RunIds
<1> QED
  BY <1>1, <1>2, <1>3, <1>4, <1>5, <1>6, <1>7, <1>8, <1>9
  DEF RunInv, HistoryInv, TreeInv

-----------------------------------------------------------------------------
(* The steps of _initialize.                                               *)

LEMMA RunsKept ==
  ASSUME IInv, OpenTypeOK', UNCHANGED <<runs, rows, tree, run, child>>,
         \A p \in Openers : \/ pc'[p] = pc[p]
                            \/ /\ pc[p] \in Opening \cup {"unopened"}
                               /\ pc'[p] \in Opening \cup {"unopened", "look"}
  PROVE RunInv' /\ TreeInv'
<1> USE DEF IInv, rows
<1>1. PlacesInv'
  BY DEF RunInv, PlacesInv, Opening, Held, Unmade, Registered
<1>2. HistoryInv'
  BY HistoryKept
<1>3. FailedStartLeavesNothing'
  BY DEF TreeInv, FailedStartLeavesNothing, Opening
<1>4. StrayTreesTraced'
  BY DEF TreeInv, StrayTreesTraced, Opening
<1>5. LostTreesReported'
  BY DEF TreeInv, LostTreesReported, Opening, Active
<1> QED
  BY <1>1, <1>2, <1>3, <1>4, <1>5 DEF RunInv, TreeInv

LEMMA ReadVersionKeeps ==
  ASSUME IInv, NEW p \in Openers, ReadVersion(p), UNCHANGED <<rows, tree, run, child>>
  PROVE IInv'
<1> USE TablesAre DEF IInv, ReadVersion, To, Opened, Refused, schema, Latest
<1>1. OpenTypeOK'
  BY ScriptIs DEF OpenTypeOK, rows, Places, Ended, Opening, DatabaseInv, SchemaInv
<1>2. VersionNamesTables'
  BY ScriptIs, TablesTell DEF OpenTypeOK, DatabaseInv, SchemaInv, VersionNamesTables, Creating, Opening
<1>3. SchemaInv'
  BY ScriptIs, TablesTell DEF OpenTypeOK, DatabaseInv, SchemaInv, VersionNamesTables, Creating, Opening
<1>4. ReadOnlyIsOld'
  BY TablesTell DEF OpenTypeOK, DatabaseInv, SchemaInv, VersionNamesTables, Creating, ReadOnlyIsOld
<1>5. RunInv' /\ TreeInv'
  BY <1>1, RunsKept DEF OpenTypeOK, Opening
<1> QED
  BY <1>1, <1>2, <1>3, <1>4, <1>5 DEF DatabaseInv

LEMMA ReadTablesKeeps ==
  ASSUME IInv, NEW p \in Openers, ReadTables(p), UNCHANGED <<rows, tree, run, child>>
  PROVE IInv'
<1> USE TablesAre DEF IInv, ReadTables, To, Opened, Refused, schema, Latest
<1>1. OpenTypeOK'
  BY ScriptIs DEF OpenTypeOK, rows, Places, Ended, Opening, DatabaseInv, SchemaInv
<1>2. VersionNamesTables'
  BY ScriptIs, TablesTell DEF OpenTypeOK, DatabaseInv, SchemaInv, VersionNamesTables, Creating, Opening
<1>3. SchemaInv'
  BY ScriptIs, TablesTell DEF OpenTypeOK, DatabaseInv, SchemaInv, VersionNamesTables, Creating, Opening
<1>4. ReadOnlyIsOld'
  BY TablesTell DEF OpenTypeOK, DatabaseInv, SchemaInv, VersionNamesTables, Creating, ReadOnlyIsOld
<1>5. RunInv' /\ TreeInv'
  BY <1>1, RunsKept DEF OpenTypeOK, Opening
<1> QED
  BY <1>1, <1>2, <1>3, <1>4, <1>5 DEF DatabaseInv

LEMMA RunScriptKeeps ==
  ASSUME IInv, NEW p \in Openers, RunScript(p), UNCHANGED <<rows, tree, run, child>>
  PROVE IInv'
<1> USE TablesAre DEF IInv, RunScript, To, Opened, Refused, schema, Latest
<1>1. OpenTypeOK'
  BY ScriptIs DEF OpenTypeOK, rows, Places, Ended, Opening, DatabaseInv, SchemaInv
<1>2. VersionNamesTables'
  BY ScriptIs, TablesTell DEF OpenTypeOK, DatabaseInv, SchemaInv, VersionNamesTables, Creating, Opening
<1>3. SchemaInv'
  BY ScriptIs, TablesTell DEF OpenTypeOK, DatabaseInv, SchemaInv, VersionNamesTables, Creating, Opening
<1>4. ReadOnlyIsOld'
  BY TablesTell DEF OpenTypeOK, DatabaseInv, SchemaInv, VersionNamesTables, Creating, ReadOnlyIsOld
<1>5. RunInv' /\ TreeInv'
  BY <1>1, RunsKept DEF OpenTypeOK, Opening
<1> QED
  BY <1>1, <1>2, <1>3, <1>4, <1>5 DEF DatabaseInv

LEMMA StampKeeps ==
  ASSUME IInv, NEW p \in Openers, Stamp(p), UNCHANGED <<rows, tree, run, child>>
  PROVE IInv'
<1> USE TablesAre DEF IInv, Stamp, To, Opened, Refused, schema, Latest
<1>1. OpenTypeOK'
  BY ScriptIs DEF OpenTypeOK, rows, Places, Ended, Opening, DatabaseInv, SchemaInv
<1>a. tables = Groups /\ versioned = "yes"
  <2>1. level[p] = 6 /\ \A k \in 1..6 : Script[k] \in tables
    BY DEF DatabaseInv, SchemaInv
  <2>2. {"legacy", "sessions", "quality", "planning", "candidates", "reviews"} \subseteq tables
    BY <2>1, ScriptIs
  <2> QED
    BY <2>1, <2>2 DEF OpenTypeOK, DatabaseInv, SchemaInv
<1>2. VersionNamesTables'
  BY <1>a DEF OpenTypeOK, DatabaseInv, VersionNamesTables, Creating, Opening
<1>3. SchemaInv'
  BY ScriptIs, TablesTell DEF OpenTypeOK, DatabaseInv, SchemaInv, VersionNamesTables, Creating, Opening
<1>4. ReadOnlyIsOld'
  BY TablesTell DEF OpenTypeOK, DatabaseInv, SchemaInv, VersionNamesTables, Creating, ReadOnlyIsOld
<1>5. RunInv' /\ TreeInv'
  BY <1>1, RunsKept DEF OpenTypeOK, Opening
<1> QED
  BY <1>1, <1>2, <1>3, <1>4, <1>5 DEF DatabaseInv

LEMMA MigrateStepKeeps ==
  ASSUME IInv, NEW p \in Openers, MigrateStep(p), UNCHANGED <<rows, tree, run, child>>
  PROVE IInv'
<1> USE TablesAre DEF IInv, MigrateStep, To, Opened, Refused, schema, Latest, Migrated, CanMigrate
<1>1. OpenTypeOK'
  BY ScriptIs DEF OpenTypeOK, rows, Places, Ended, Opening, DatabaseInv, SchemaInv
<1>2. VersionNamesTables'
  <2>1. CASE CanMigrate(level[p])
    <3>1. level[p] \in 2..6 /\ level[p] <= version
      BY DEF DatabaseInv, SchemaInv
    <3>2. version = level[p]
      BY <2>1, <3>1, TablesTell DEF OpenTypeOK, DatabaseInv, VersionNamesTables, Creating
    <3>3. tables' = TablesOf(level[p] + 1)
      BY <2>1, <3>1
    <3>4. version' = level[p] + 1 /\ versioned' = "yes"
      BY <2>1
    <3>5. level[p] = 6 \/ pc'[p] = "migrate"
      BY <2>1, <3>1 DEF OpenTypeOK
    <3>6. ASSUME NEW q \in Openers, pc'[q] \notin Opening \cup {"unopened", "dead"}
          PROVE  version' = Latest /\ tables' = Groups
      BY <3>1, <3>2, <3>3, <3>4, <3>5, <3>6, <2>1 DEF OpenTypeOK, DatabaseInv, VersionNamesTables, Opening
    <3> QED
      BY <3>1, <3>3, <3>4, <3>6 DEF VersionNamesTables, Creating
  <2>2. CASE ~CanMigrate(level[p])
    BY <2>2 DEF OpenTypeOK, DatabaseInv, VersionNamesTables, Creating, Opening
  <2> QED
    BY <2>1, <2>2
<1>3. SchemaInv'
  BY ScriptIs, TablesTell DEF OpenTypeOK, DatabaseInv, SchemaInv, VersionNamesTables, Creating, Opening
<1>4. ReadOnlyIsOld'
  BY TablesTell DEF OpenTypeOK, DatabaseInv, SchemaInv, VersionNamesTables, Creating, ReadOnlyIsOld
<1>5. RunInv' /\ TreeInv'
  BY <1>1, RunsKept DEF OpenTypeOK, Opening
<1> QED
  BY <1>1, <1>2, <1>3, <1>4, <1>5 DEF DatabaseInv

LEMMA MigrateAllKeeps ==
  ASSUME IInv, NEW p \in Openers, MigrateAll(p), UNCHANGED <<rows, tree, run, child>>
  PROVE IInv'
<1> USE TablesAre DEF IInv, MigrateAll, To, Opened, Refused, schema, Latest, CanMigrate
<1>1. OpenTypeOK'
  BY ScriptIs DEF OpenTypeOK, rows, Places, Ended, Opening, DatabaseInv, SchemaInv
<1>2. VersionNamesTables'
  BY ScriptIs, TablesTell DEF OpenTypeOK, DatabaseInv, SchemaInv, VersionNamesTables, Creating, Opening
<1>3. SchemaInv'
  BY ScriptIs, TablesTell DEF OpenTypeOK, DatabaseInv, SchemaInv, VersionNamesTables, Creating, Opening
<1>4. ReadOnlyIsOld'
  BY TablesTell DEF OpenTypeOK, DatabaseInv, SchemaInv, VersionNamesTables, Creating, ReadOnlyIsOld
<1>5. RunInv' /\ TreeInv'
  BY <1>1, RunsKept DEF OpenTypeOK, Opening
<1> QED
  BY <1>1, <1>2, <1>3, <1>4, <1>5 DEF DatabaseInv

LEMMA OpenAgainKeeps ==
  ASSUME IInv, NEW p \in Openers, OpenAgain(p), UNCHANGED <<rows, tree, run, child>>
  PROVE IInv'
<1> USE TablesAre DEF IInv, OpenAgain, To, Opened, Refused, schema, Latest
<1>1. OpenTypeOK'
  BY ScriptIs DEF OpenTypeOK, rows, Places, Ended, Opening, DatabaseInv, SchemaInv
<1>2. VersionNamesTables'
  BY ScriptIs, TablesTell DEF OpenTypeOK, DatabaseInv, SchemaInv, VersionNamesTables, Creating, Opening
<1>3. SchemaInv'
  BY ScriptIs, TablesTell DEF OpenTypeOK, DatabaseInv, SchemaInv, VersionNamesTables, Creating, Opening
<1>4. ReadOnlyIsOld'
  BY TablesTell DEF OpenTypeOK, DatabaseInv, SchemaInv, VersionNamesTables, Creating, ReadOnlyIsOld
<1>5. RunInv' /\ TreeInv'
  BY <1>1, RunsKept DEF OpenTypeOK, Opening
<1> QED
  BY <1>1, <1>2, <1>3, <1>4, <1>5 DEF DatabaseInv

-----------------------------------------------------------------------------
(* The invariant.                                                          *)

LEMMA InitInv == Init => IInv
<1> SUFFICES ASSUME Init PROVE IInv
  OBVIOUS
<1> USE UncertainAssumption, NoneAssumption, RunsAssumption, TablesAre DEF Init, SchemaInit, Latest
<1>1. OpenTypeOK
  <2>1. version \in 0..7 /\ runs \subseteq OldRuns /\ leases \subseteq runs /\ readonly \subseteq runs
    OBVIOUS
  <2>2. tables \subseteq Groups /\ versioned \in {"yes", "no"}
    BY <2>1
  <2>3. bound \in [RunIds -> Sessions \cup {None}] /\ owners \subseteq RunIds \X Sessions
    BY <2>1 DEF RunIds
  <2>4. pc \in [Openers -> Places] /\ child \in [Openers -> Children]
    BY DEF Places, Opening, Ended, Children
  <2> QED
    BY <2>1, <2>2, <2>3, <2>4 DEF OpenTypeOK, RunIds, Opening
<1>2. DatabaseInv
  <2>1. VersionNamesTables
    BY DEF VersionNamesTables, Creating, Opening
  <2>2. SchemaInv
    BY DEF SchemaInv
  <2>3. ReadOnlyIsOld
    BY DEF ReadOnlyIsOld
  <2> QED
    BY <2>1, <2>2, <2>3 DEF DatabaseInv
<1>3. RunInv
  <2>1. PlacesInv
    BY DEF PlacesInv, Held, Unmade, Registered, Opening
  <2>2. FreshInv /\ BoundInv /\ CancelledUnused
    BY DEF FreshInv, BoundInv, CancelledUnused, RunIds
  <2>3. SessionHasOneRun
    BY DEF SessionHasOneRun, RunIds
  <2> QED
    BY <2>1, <2>2, <2>3 DEF RunInv, HistoryInv
<1>4. TreeInv
  BY DEF TreeInv, FailedStartLeavesNothing, StrayTreesTraced, LostTreesReported, Active
<1> QED
  BY <1>1, <1>2, <1>3, <1>4 DEF IInv

LEMMA StutterInv == IInv /\ UNCHANGED vars => IInv'
<1> SUFFICES ASSUME IInv, UNCHANGED vars PROVE IInv'
  OBVIOUS
<1> USE DEF IInv, vars, schema, rows, terminals
<1>1. OpenTypeOK'
  BY DEF OpenTypeOK
<1>2. DatabaseInv'
  BY DEF DatabaseInv, VersionNamesTables, SchemaInv, ReadOnlyIsOld, Creating
<1>3. RunInv' /\ TreeInv'
  BY <1>1, RunsKept
<1> QED
  BY <1>1, <1>2, <1>3

LEMMA StepInv == IInv /\ Next => IInv'
<1> SUFFICES ASSUME IInv, Next PROVE IInv'
  OBVIOUS
<1>1. ASSUME NEW p \in Openers, ReadVersion(p), UNCHANGED <<rows, tree, run, child>> PROVE IInv'
  BY <1>1, ReadVersionKeeps
<1>2. ASSUME NEW p \in Openers, ReadTables(p), UNCHANGED <<rows, tree, run, child>> PROVE IInv'
  BY <1>2, ReadTablesKeeps
<1>3. ASSUME NEW p \in Openers, RunScript(p), UNCHANGED <<rows, tree, run, child>> PROVE IInv'
  BY <1>3, RunScriptKeeps
<1>4. ASSUME NEW p \in Openers, Stamp(p), UNCHANGED <<rows, tree, run, child>> PROVE IInv'
  BY <1>4, StampKeeps
<1>5. ASSUME NEW p \in Openers, MigrateStep(p), UNCHANGED <<rows, tree, run, child>> PROVE IInv'
  BY <1>5, MigrateStepKeeps
<1>6. ASSUME NEW p \in Openers, MigrateAll(p), UNCHANGED <<rows, tree, run, child>> PROVE IInv'
  BY <1>6, MigrateAllKeeps
<1>7. ASSUME NEW p \in Openers, OpenAgain(p), UNCHANGED <<rows, tree, run, child>> PROVE IInv'
  BY <1>7, OpenAgainKeeps
<1>8. ASSUME NEW p \in Openers, Look(p) PROVE IInv'
  BY <1>8, LookKeeps
<1>9. ASSUME NEW p \in Openers, Retire(p) PROVE IInv'
  BY <1>9, RetireKeeps
<1>10. ASSUME NEW p \in Openers, Prepare(p) PROVE IInv'
  BY <1>10, PrepareKeeps
<1>11. ASSUME NEW p \in Openers, CreateWorktree(p) PROVE IInv'
  BY <1>11, CreateWorktreeKeeps
<1>12. ASSUME NEW p \in Openers, Inspect(p) PROVE IInv'
  BY <1>12, InspectKeeps
<1>13. ASSUME NEW p \in Openers, Scrap(p) PROVE IInv'
  BY <1>13, ScrapKeeps
<1>14. ASSUME NEW p \in Openers, Register(p) PROVE IInv'
  BY <1>14, RegisterKeeps
<1>15. ASSUME NEW p \in Openers, RegisterFails(p) PROVE IInv'
  BY <1>15, RegisterFailsKeeps
<1>16. ASSUME NEW p \in Openers, Unregister(p) PROVE IInv'
  BY <1>16, UnregisterKeeps
<1>17. ASSUME NEW p \in Openers, Resume(p) PROVE IInv'
  BY <1>17, ResumeKeeps
<1>18. ASSUME NEW p \in Openers, Launch(p) PROVE IInv'
  BY <1>18, LaunchKeeps
<1>19. ASSUME NEW p \in Openers, Wait(p) PROVE IInv'
  BY <1>19, WaitKeeps
<1>20. ASSUME NEW p \in Openers, Terminate(p) PROVE IInv'
  BY <1>20, TerminateKeeps
<1>21. ASSUME NEW p \in Openers, Cleanup(p) PROVE IInv'
  BY <1>21, CleanupKeeps
<1>22. ASSUME NEW p \in Openers, Cancel(p) PROVE IInv'
  BY <1>22, CancelKeeps
<1>23. ASSUME NEW p \in Openers, Refuse(p) PROVE IInv'
  BY <1>23, RefuseKeeps
<1>24. ASSUME NEW p \in Openers, Close(p) PROVE IInv'
  BY <1>24, CloseKeeps
<1>25. ASSUME NEW p \in Openers, Die(p) PROVE IInv'
  BY <1>25, DieKeeps
<1>26. ASSUME NEW p \in Openers, Attach(p) PROVE IInv'
  BY <1>26, AttachKeeps
<1>27. ASSUME NEW p \in Openers, Leave(p) PROVE IInv'
  BY <1>27, LeaveKeeps
<1>28. ASSUME NEW p \in Openers, NEW s \in Sessions, BindTask(p, s) PROVE IInv'
  BY <1>28, BindTaskKeeps
<1>29. ASSUME NEW p \in Openers, NEW s \in Sessions, AttachSession(p, s) PROVE IInv'
  BY <1>29, AttachSessionKeeps
<1>30. ASSUME NEW r \in RunIds, Work(r) PROVE IInv'
  BY <1>30, WorkKeeps
<1>31. ASSUME NEW r \in RunIds, RemoveAccepted(r) PROVE IInv'
  BY <1>31, RemoveAcceptedKeeps
<1>32. ASSUME NEW r \in RunIds, Block(r) PROVE IInv'
  BY <1>32, BlockKeeps
<1> QED
  BY <1>1, <1>2, <1>3, <1>4, <1>5, <1>6, <1>7, <1>8, <1>9, <1>10, <1>11, <1>12,
     <1>13, <1>14, <1>15, <1>16, <1>17, <1>18, <1>19, <1>20, <1>21, <1>22,
     <1>23, <1>24, <1>25, <1>26, <1>27, <1>28, <1>29, <1>30, <1>31, <1>32
  DEF Next, Step, Initialize, Others

LEMMA AlwaysInv == Spec => []IInv
<1>1. IInv /\ [Next]_vars => IInv'
  BY StepInv, StutterInv
<1> QED
  BY <1>1, InitInv, PTL DEF Spec

-----------------------------------------------------------------------------
\* The `open` command, the database and the Runs keep their types.
THEOREM OpenTyped == Spec => []OpenTypeOK
<1>1. IInv => OpenTypeOK
  BY DEF IInv, DatabaseInv, RunInv, HistoryInv, TreeInv
<1> QED
  BY <1>1, AlwaysInv, PTL

\* Whatever number of terminals creates or migrates the database, its version
\* names its tables, and who gets past _initialize has the latest ones.
THEOREM VersionIsSchema == Spec => []VersionNamesTables
<1>1. IInv => VersionNamesTables
  BY DEF IInv, DatabaseInv, RunInv, HistoryInv, TreeInv
<1> QED
  BY <1>1, AlwaysInv, PTL

\* Only Runs from before the planning tables are ever made read-only, and none
\* of them has a write lease.
THEOREM ReadOnlyAreOld == Spec => []ReadOnlyIsOld
<1>1. IInv => ReadOnlyIsOld
  BY DEF IInv, DatabaseInv, RunInv, HistoryInv, TreeInv
<1> QED
  BY <1>1, AlwaysInv, PTL

\* A start that failed with its Run registered, and was not reported as badly
\* cleaned up, has left nothing.
THEOREM FailedStartsAreClean == Spec => []FailedStartLeavesNothing
<1>1. IInv => FailedStartLeavesNothing
  BY DEF IInv, DatabaseInv, RunInv, HistoryInv, TreeInv
<1> QED
  BY <1>1, AlwaysInv, PTL

\* A cancelled Run has no task and never gets one.
THEOREM OnlyUnusedCancelled == Spec => []CancelledUnused
<1>1. IInv => CancelledUnused
  BY DEF IInv, DatabaseInv, RunInv, HistoryInv, TreeInv
<1> QED
  BY <1>1, AlwaysInv, PTL

\* A worktree without a row is the one of a terminal that is still at it, died
\* over it, reported that it could not remove it, or failed inside
\* create_worktree; no other terminal works on it.
THEOREM TreesAccountedFor == Spec => []StrayTreesTraced
<1>1. IInv => StrayTreesTraced
  BY DEF IInv, DatabaseInv, RunInv, HistoryInv, TreeInv
<1> QED
  BY <1>1, AlwaysInv, PTL

\* An active Run without its worktree is reported by the terminal that started
\* it, or that terminal is about to, or died.
THEOREM LossesReported == Spec => []LostTreesReported
<1>1. IInv => LostTreesReported
  BY DEF IInv, DatabaseInv, RunInv, HistoryInv, TreeInv
<1> QED
  BY <1>1, AlwaysInv, PTL

\* A session takes part in one Run, for any number of sessions and terminals.
THEOREM SessionsKeepToOneRun == Spec => []SessionHasOneRun
<1>1. IInv => SessionHasOneRun
  BY DEF IInv, DatabaseInv, RunInv, HistoryInv, TreeInv
<1> QED
  BY <1>1, AlwaysInv, PTL
-----------------------------------------------------------------------------
(* A worktree that a terminal has left behind.                             *)

Stray(p) == pc[p] \in Ended /\ p \in tree \ runs
StraysStay == [][\A p \in Openers : Stray(p) => Stray(p)']_vars

\* The terminal itself has ended, the others remove and register only what is
\* theirs, and the review command removes only what has a row.
LEMMA StrayStep ==
  ASSUME IInv, NEW q \in Openers, Stray(q), Next
  PROVE  Stray(q)'
<1> USE DEF Stray, Ended, IInv, OpenTypeOK
<1>1. ASSUME NEW p \in Openers, Initialize(p) \/ OpenAgain(p), UNCHANGED <<rows, tree, run, child>>
      PROVE  Stray(q)'
  <2>1. p # q
    BY <1>1 DEF Initialize, OpenAgain, ReadVersion, ReadTables, RunScript, Stamp, MigrateStep, MigrateAll
  <2> QED
    BY <1>1, <2>1 DEF Initialize, OpenAgain, ReadVersion, ReadTables, RunScript, Stamp, MigrateStep,
       MigrateAll, Migrated, Opened, Refused, To, schema
<1>2. ASSUME NEW p \in Openers, Look(p) \/ Retire(p) \/ Refuse(p) \/ Prepare(p) \/ Inspect(p)
             \/ RegisterFails(p) \/ Resume(p) \/ Launch(p) \/ Wait(p) \/ Terminate(p) \/ Cancel(p)
             \/ Close(p) \/ Die(p)
      PROVE  Stray(q)'
  <2>1. p # q
    BY <1>2 DEF Look, Retire, Refuse, Prepare, Inspect, RegisterFails, Resume, Launch, Wait, Terminate,
       Cancel, Close, Die
  <2>2. pc'[q] = pc[q]
    BY <1>2, <2>1 DEF Look, Retire, Refuse, Prepare, Inspect, RegisterFails, Resume, Launch, Wait,
       Terminate, Cancel, Close, Die, Go, On, End, Fail
  <2>3. UNCHANGED <<tree, runs>>
    BY <1>2 DEF Look, Retire, Refuse, Prepare, Inspect, RegisterFails, Resume, Launch, Wait,
       Terminate, Cancel, Close, Die, schema
  <2> QED
    BY <2>2, <2>3
<1>3. ASSUME NEW p \in Openers,
             CreateWorktree(p) \/ Scrap(p) \/ Unregister(p) \/ Cleanup(p) \/ Register(p)
      PROVE  Stray(q)'
  <2>1. p # q
    BY <1>3 DEF CreateWorktree, Scrap, Unregister, Cleanup, Register
  <2>2. run[p] # q
    BY <1>3, <2>1 DEF RunInv, PlacesInv, Held, Unmade, CreateWorktree, Scrap, Unregister, Cleanup, Register
  <2> QED
    BY <1>3, <2>1, <2>2 DEF CreateWorktree, Scrap, Unregister, Cleanup, Register, Go, On, End, schema
<1>4. ASSUME Others PROVE Stray(q)'
  <2>1. pc' = pc /\ runs' = runs
    BY <1>4 DEF Others, Attach, Leave, BindTask, AttachSession, Work, RemoveAccepted, Block, terminals, schema
  <2>2. stage[q] = "PLANNING"
    BY DEF RunInv, HistoryInv, FreshInv, RunIds
  <2>3. q \in tree'
    BY <1>4, <2>2 DEF Others, Attach, Leave, BindTask, AttachSession, Work, RemoveAccepted, Block
  <2> QED
    BY <2>1, <2>3
<1> QED
  BY <1>1, <1>2, <1>3, <1>4 DEF Next, Step

\* What a terminal leaves without a row it leaves for ever: no later command,
\* of whichever terminal, removes that worktree or makes a Run of it.
THEOREM StraysAreForGood == Spec => StraysStay
<1>1. IInv /\ UNCHANGED vars => \A p \in Openers : Stray(p) => Stray(p)'
  BY DEF vars, schema, terminals, Stray
<1>2. IInv /\ [Next]_vars => [\A p \in Openers : Stray(p) => Stray(p)']_vars
  BY <1>1, StrayStep
<1> QED
  BY <1>2, AlwaysInv, PTL DEF Spec, StraysStay

-----------------------------------------------------------------------------
(* A database that is stuck.                                               *)

\* Those who do not have the database open.
Barred == \A p \in Openers : pc[p] \in Opening \cup {"unopened", "dead"}

\* Once the database is stuck it stays so, whatever is tried and however
\* often: nobody ever gets past _initialize again.
StuckForGood == [][Stuck => Stuck' /\ Barred /\ Barred']_vars

LEMMA StuckBars == IInv /\ Stuck => Barred
  BY DEF IInv, DatabaseInv, VersionNamesTables, Stuck, Creating, Barred, Latest

\* A step of _initialize on a stuck database changes neither its version nor
\* its tables, except that an older schema goes on to version 4 at most.
LEMMA StuckInitialize ==
  ASSUME IInv, Stuck, NEW p \in Openers, Initialize(p) \/ OpenAgain(p)
  PROVE  Stuck'
<1> USE TablesAre DEF IInv, DatabaseInv, OpenTypeOK, SchemaInv, To, Opened, Refused, schema, Latest
<1>1. CASE ReadVersion(p) \/ OpenAgain(p)
  BY <1>1 DEF ReadVersion, OpenAgain, Stuck, Creating
<1>2. CASE ReadTables(p)
  BY <1>2 DEF ReadTables, Stuck, Creating
<1>3. CASE RunScript(p)
  BY <1>3, ScriptIs DEF RunScript, Stuck, Creating
<1>4. CASE Stamp(p)
  BY <1>4 DEF Stamp, Stuck, Creating
<1>5. CASE MigrateStep(p)
  <2>1. CASE CanMigrate(level[p])
    <3>1. level[p] \in 2..6 /\ level[p] <= version /\ pc[p] = "migrate"
      BY <1>5 DEF MigrateStep
    <3>2. version \in 1..4 /\ leases # {}
      BY <3>1 DEF Stuck, Creating
    <3>3. version = level[p]
      BY <2>1, <3>1, <3>2, TablesTell DEF CanMigrate, VersionNamesTables, Creating
    <3>4. level[p] # 4
      BY <2>1, <3>2 DEF CanMigrate
    <3>5. version' = level[p] + 1 /\ leases' = leases
      BY <1>5, <2>1 DEF MigrateStep, Migrated
    <3> QED
      BY <3>1, <3>2, <3>3, <3>4, <3>5 DEF Stuck
  <2>2. CASE ~CanMigrate(level[p])
    BY <1>5, <2>2 DEF MigrateStep, Stuck, Creating
  <2> QED
    BY <2>1, <2>2
<1>6. CASE MigrateAll(p)
  BY <1>6 DEF MigrateAll, Stuck, Creating
<1> QED
  BY <1>1, <1>2, <1>3, <1>4, <1>5, <1>6 DEF Initialize

LEMMA StuckStep == IInv /\ Stuck /\ Next => Stuck'
<1> SUFFICES ASSUME IInv, Stuck, Next PROVE Stuck'
  OBVIOUS
<1>1. Barred
  BY StuckBars
<1>2. ASSUME NEW p \in Openers, Initialize(p) \/ OpenAgain(p) PROVE Stuck'
  BY <1>2, StuckInitialize
<1>3. ASSUME NEW p \in Openers, Die(p) PROVE Stuck'
  BY <1>3 DEF Die, Go, schema, Stuck, Creating, IInv, OpenTypeOK
<1>4. ASSUME NEW p \in Openers,
             Look(p) \/ Retire(p) \/ Prepare(p) \/ CreateWorktree(p) \/ Inspect(p) \/ Scrap(p)
             \/ Register(p) \/ RegisterFails(p) \/ Unregister(p) \/ Resume(p) \/ Launch(p) \/ Wait(p) \/ Terminate(p) \/ Cleanup(p) \/ Cancel(p)
             \/ Refuse(p) \/ Close(p)
      PROVE  FALSE
  BY <1>1, <1>4 DEF Barred, Opening, Look, Retire, Prepare, CreateWorktree, Inspect, Scrap,
     Register, RegisterFails, Unregister, Resume, Launch, Wait, Terminate, Cleanup, Cancel, Refuse, Close
<1>5. ASSUME Others PROVE Stuck'
  <2>1. UNCHANGED <<version, tables, leases, pc>>
    BY <1>5 DEF Others, Attach, Leave, BindTask, AttachSession, Work, RemoveAccepted, Block,
       schema, terminals
  <2> QED
    BY <2>1 DEF Stuck, Creating
<1> QED
  BY <1>2, <1>3, <1>4, <1>5 DEF Next, Step

\* A schema whose creation died, or a pending write lease of a Run from before
\* the planning tables, shuts this program out of the project for good.
THEOREM StuckStaysStuck == Spec => StuckForGood
<1>1. IInv /\ IInv' /\ [Next]_vars => [Stuck => Stuck' /\ Barred /\ Barred']_vars
  <2>1. IInv /\ Stuck /\ UNCHANGED vars => Stuck'
    BY DEF vars, schema, terminals, Stuck, Creating
  <2>2. IInv' /\ Stuck' => Barred'
    BY StuckBars, PTL
  <2> QED
    BY <2>1, <2>2, StuckBars, StuckStep
<1> QED
  BY <1>1, AlwaysInv, PTL DEF Spec, StuckForGood

-----------------------------------------------------------------------------
(* Which Runs are active.                                                  *)

\* A Run that is accepted, cancelled or retired never becomes active again.
DoneForGood == [][\A r \in runs : r \notin Active => r \notin Active']_vars

\* At most one terminal is between its second look and the row of its Run.
Starting == {"create", "inspect", "register"}
OneStarts == \A p, q \in Openers : pc[p] \in Starting /\ pc[q] \in Starting => p = q

\* Whoever is there has seen no active Run, and there is none yet.
SerialInv ==
  /\ \A p \in Openers : pc[p] \in Starting => Active = {}
  /\ \A r, q \in Active : r = q

\* Except for a new Run nothing becomes active.
Settles == Active' \subseteq Active /\ runs' = runs

LEMMA QuietSettles ==
  ASSUME UNCHANGED <<runs, stage, blocked>>
  PROVE  Settles /\ Active' = Active
  BY DEF Settles, Active

LEMMA InitializeSettles ==
  ASSUME NEW p \in Openers, Initialize(p) \/ OpenAgain(p), UNCHANGED rows
  PROVE  Settles
  BY QuietSettles DEF Initialize, OpenAgain, ReadVersion, ReadTables, RunScript, Stamp, MigrateStep,
     MigrateAll, Migrated, schema, rows

LEMMA CommandSettles ==
  ASSUME IInv, NEW p \in Openers,
         Look(p) \/ Retire(p) \/ Prepare(p) \/ CreateWorktree(p) \/ Inspect(p) \/ Scrap(p)
         \/ RegisterFails(p) \/ Unregister(p) \/ Resume(p)
         \/ Launch(p) \/ Wait(p) \/ Terminate(p) \/ Cleanup(p) \/ Cancel(p)
         \/ Refuse(p) \/ Close(p) \/ Die(p)
  PROVE  Settles
<1>1. CASE Retire(p)
  BY <1>1 DEF Retire, Settles, Active, schema, IInv, OpenTypeOK
<1>2. CASE Cancel(p)
  BY <1>2 DEF Cancel, Settles, Active, schema, IInv, OpenTypeOK
<1>3. CASE Look(p) \/ Prepare(p) \/ CreateWorktree(p) \/ Inspect(p) \/ Scrap(p) \/ RegisterFails(p)
            \/ Unregister(p) \/ Resume(p) \/ Launch(p)
           \/ Wait(p) \/ Terminate(p) \/ Cleanup(p) \/ Refuse(p) \/ Close(p) \/ Die(p)
  BY <1>3, QuietSettles DEF Look, Prepare, CreateWorktree, Inspect, Scrap, RegisterFails, Unregister,
     Resume, Launch, Wait, Terminate, Cleanup, Refuse, Close, Die, schema, rows
<1> QED
  BY <1>1, <1>2, <1>3

LEMMA OthersSettle == ASSUME IInv, Others PROVE Settles
<1>1. ASSUME NEW p \in Openers, Attach(p) \/ Leave(p) PROVE Settles
  BY <1>1, QuietSettles DEF Attach, Leave, schema, rows
<1>2. ASSUME NEW p \in Openers, NEW s \in Sessions, BindTask(p, s) \/ AttachSession(p, s) PROVE Settles
  BY <1>2, QuietSettles DEF BindTask, AttachSession, schema
<1>3. ASSUME NEW r \in RunIds, Work(r) PROVE Settles
  BY <1>3 DEF Work, Settles, Active, schema, IInv, OpenTypeOK
<1>4. ASSUME NEW r \in RunIds, RemoveAccepted(r) PROVE Settles
  BY <1>4, QuietSettles DEF RemoveAccepted, schema, rows
<1>5. ASSUME NEW r \in RunIds, Block(r) PROVE Settles
  BY <1>5 DEF Block, Settles, Active, schema, IInv, OpenTypeOK
<1> QED
  BY <1>1, <1>2, <1>3, <1>4, <1>5 DEF Others

\* A step settles Runs or registers a new one.
LEMMA SettlesOrRegisters ==
  ASSUME IInv, [Next]_vars
  PROVE  Settles \/ \E p \in Openers : Register(p)
<1>1. CASE UNCHANGED vars
  BY <1>1, QuietSettles DEF vars, schema, rows
<1> QED
  BY <1>1, InitializeSettles, CommandSettles, OthersSettle DEF Next, Step

LEMMA RegisterAdds ==
  ASSUME IInv, NEW p \in Openers, Register(p)
  PROVE  pc[p] = "register" /\ pc'[p] = "launch" /\ p \notin runs /\ runs' = runs \cup {p}
         /\ Active' \subseteq Active \cup {p} /\ Active' \cap runs \subseteq Active
         /\ \A q \in Openers : q # p => pc'[q] = pc[q]
  BY DEF Register, Go, rows, Active, IInv, OpenTypeOK, RunInv, PlacesInv, Held, Unmade

THEOREM DoneStaysDone == Spec => DoneForGood
<1>1. IInv /\ [Next]_vars => [\A r \in runs : r \notin Active => r \notin Active']_vars
  BY SettlesOrRegisters, RegisterAdds DEF Settles
<1> QED
  BY <1>1, AlwaysInv, PTL DEF Spec, DoneForGood

\* A terminal begins to start a Run only past an empty look.
LEMMA BeginsToStart ==
  ASSUME IInv, Next, NEW q \in Openers, pc'[q] \in Starting, pc[q] \notin Starting
  PROVE  Active = {}
<1> USE DEF Go, On, End, To, Starting
<1>1. ASSUME NEW p \in Openers, Initialize(p) \/ OpenAgain(p) PROVE FALSE
  BY <1>1 DEF Initialize, OpenAgain, ReadVersion, ReadTables, RunScript, Stamp, MigrateStep,
     MigrateAll, Migrated, Opened, Refused, IInv, OpenTypeOK
<1>2. ASSUME NEW p \in Openers, Look(p) \/ Retire(p) \/ Register(p) \/ RegisterFails(p) \/ Unregister(p)
      PROVE  FALSE
  BY <1>2 DEF Look, Retire, Register, RegisterFails, Unregister, IInv, OpenTypeOK
<1>3. ASSUME NEW p \in Openers, Prepare(p) PROVE Active = {}
  BY <1>3 DEF Prepare, IInv, OpenTypeOK
<1>4. ASSUME NEW p \in Openers, CreateWorktree(p) \/ Inspect(p) \/ Scrap(p) PROVE FALSE
  BY <1>4 DEF CreateWorktree, Inspect, Scrap, IInv, OpenTypeOK
<1>5. ASSUME NEW p \in Openers, Resume(p) \/ Launch(p) \/ Wait(p) \/ Terminate(p) \/ Cleanup(p) \/ Cancel(p)
      PROVE  FALSE
  BY <1>5 DEF Resume, Launch, Wait, Terminate, Cleanup, Cancel, Fail, IInv, OpenTypeOK
<1>6. ASSUME NEW p \in Openers, Refuse(p) \/ Close(p) \/ Die(p) PROVE FALSE
  BY <1>6 DEF Refuse, Close, Die, IInv, OpenTypeOK
<1>7. ASSUME Others PROVE FALSE
  <2>1. pc' = pc
    BY <1>7 DEF Others, Attach, Leave, BindTask, AttachSession, Work, RemoveAccepted, Block, terminals
  <2> QED
    BY <2>1
<1> QED
  BY <1>1, <1>2, <1>3, <1>4, <1>5, <1>6, <1>7 DEF Next, Step

LEMMA SerialStep == IInv /\ SerialInv /\ OneStarts /\ [Next]_vars => SerialInv'
<1> SUFFICES ASSUME IInv, SerialInv, OneStarts, [Next]_vars PROVE SerialInv'
  OBVIOUS
<1>1. ASSUME NEW q \in Openers, pc'[q] \in Starting PROVE Active = {}
  <2>1. pc[q] \in Starting => Active = {}
    BY DEF SerialInv
  <2>2. UNCHANGED vars => pc' = pc
    BY DEF vars, terminals
  <2> QED
    BY <1>1, <2>1, <2>2, BeginsToStart
<1>2. CASE Settles
  BY <1>1, <1>2 DEF Settles, SerialInv
<1>3. CASE \E p \in Openers : Register(p)
  <2>1. PICK p \in Openers : Register(p)
    BY <1>3
  <2>2. Active = {} /\ Active' \subseteq {p}
    BY <2>1, RegisterAdds DEF SerialInv, Starting
  <2>3. \A q \in Openers : pc'[q] \notin Starting
    BY <2>1, RegisterAdds DEF OneStarts, Starting
  <2> QED
    BY <2>2, <2>3 DEF SerialInv
<1> QED
  BY <1>2, <1>3, SettlesOrRegisters

\* A second Run is started next to an active one only when two terminals are
\* between their look and their row at once: as long as that does not happen,
\* the project has one active Run at most, through every timeout, cleanup,
\* retirement and crash.
THEOREM SerialStartsAreAlone == Spec /\ []OneStarts => []OneActiveRun
<1>1. Init => SerialInv
  BY DEF Init, SchemaInit, SerialInv, Starting, Active
<1>2. SerialInv => OneActiveRun
  <2> SUFFICES ASSUME SerialInv PROVE Cardinality(Active) <= 1
    BY DEF OneActiveRun
  <2>1. CASE Active = {}
    BY <2>1, FS_EmptySet
  <2>2. ASSUME NEW r \in Active PROVE Cardinality(Active) <= 1
    <3>1. Active = {r}
      BY <2>2 DEF SerialInv
    <3>2. Cardinality(Active) = 1
      BY <3>1, FS_Singleton
    <3> QED
      BY <3>2
  <2> QED
    BY <2>1, <2>2
<1> QED
  BY <1>1, <1>2, SerialStep, AlwaysInv, PTL DEF Spec
=============================================================================
