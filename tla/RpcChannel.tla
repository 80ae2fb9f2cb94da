------------------------------ MODULE RpcChannel ------------------------------
(***************************************************************************)
(* The pipe between the plugin and its authority server.  The server takes *)
(* one line at a time, carries it out, remembers the answer under the id   *)
(* of the request and writes it; a repeated line gets the remembered       *)
(* answer.  The client numbers its requests, gives up on a request whose   *)
(* timer runs out while the server goes on serving it, drops late answers, *)
(* and rejects everything once the server has ended.  The hooks and tools  *)
(* of the plugin are concurrent callers; each asks for the status first    *)
(* and binds a mutation to it, or to the last context that any of them has *)
(* seen.  Other processes commit to the same Run at any time.              *)
(*                                                                         *)
(* The other end may also be a program that speaks the protocol as it      *)
(* likes, repeats lines and reuses ids: this is what the cache is for.     *)
(***************************************************************************)
EXTENDS Naturals, Sequences, FiniteSets

CONSTANTS
  Callers,      \* concurrent hooks and tools of the plugin
  OtherLines,   \* the lines of a program that is not the plugin
  CacheSize,    \* MAX_CACHE_ENTRIES
  None,
  MaxLines,     \* bound on the lines written
  MaxRevision   \* bound on the revision

ASSUME SizesAssumption == CacheSize \in Nat \ {0} /\ MaxLines \in Nat /\ MaxRevision \in Nat
ASSUME NoneAssumption == None \notin Nat
ASSUME OtherLinesAssumption ==
  OtherLines \subseteq [id : 1..MaxLines, op : {"status", "mutate"}, rev : 0..MaxRevision]

VARIABLES
  peer,      \* who writes the lines: "plugin" or "other"
  inbox,     \* lines written and not yet read
  serving,   \* the line being carried out, with its outcome, or None
  outbox,    \* answers written and not yet read
  cache,     \* the remembered answers, oldest first
  server,    \* "up" or "down"
  revision,  \* of the Run
  nextID,    \* of the client
  pending,   \* ids with a timer
  failure,   \* "yes" once the client has failed
  stage,     \* what a caller waits for
  asked,     \* the id of its request
  known,     \* the revision its own status showed
  latest,    \* latestStatus of the hooks
  written,   \* number of lines written
  served,    \* history: the lines carried out
  heard      \* history: the ids whose answers reached a caller

authority == <<inbox, serving, outbox, cache, server, revision, served>>
client == <<nextID, pending, failure>>
callers == <<stage, asked, known, latest>>
vars == <<peer, authority, client, callers, written, heard>>

Line == [id : 1..MaxLines, op : {"status", "mutate"}, rev : 0..MaxRevision]
Result == [line : Line, outcome : {"ok", "error"}, rev : 0..MaxRevision]
Service == [line : Line, outcome : {"ok", "error"}]
ASSUME NoServiceAssumption == None \notin Service

Ids == 1..MaxLines

-----------------------------------------------------------------------------
(* serve                                                                   *)

Served(l) == served' = Append(served, l)

\* Fault: the cache looks at the id of a request and not at its content.
RemembersById(l, e) == e.line.id = l.id

\* The remembered answer is to the very same line.
Remembers(l, e) == e.line = l

Known(l) == \E k \in 1..Len(cache) : cache[k].line.id = l.id

\* A request that is remembered is not carried out again; another request
\* with its id is refused.
Replay ==
  /\ server = "up" /\ serving = None /\ inbox # <<>>
  /\ \E k \in 1..Len(cache) :
       LET l == Head(inbox)
           e == cache[k]
       IN /\ e.line.id = l.id
          /\ outbox' = Append(outbox, IF Remembers(l, e) THEN [e EXCEPT !.line = l]
                                      ELSE [line |-> l, outcome |-> "error", rev |-> revision])
  /\ inbox' = Tail(inbox)
  /\ UNCHANGED <<peer, serving, cache, server, revision, served, client, callers, written, heard>>

\* _dispatch: a mutation moves the revision when it succeeds, and must then be
\* bound to the current one, or when it fails and records its refusal or a
\* block, whatever it was bound to.  It may succeed without a move, and so with
\* a stale context, when it repeats a drive or a confirmation.
Outcome(l, outcome) ==
  \/ UNCHANGED revision
  \/ /\ l.op = "mutate"
     /\ outcome = "ok" => l.rev = revision
     /\ revision < MaxRevision
     /\ revision' = revision + 1

\* Fault: requests are served by a pool, in any order.
DispatchAny ==
  /\ server = "up" /\ serving = None
  /\ \E k \in 1..Len(inbox), outcome \in {"ok", "error"} :
       /\ ~Known(inbox[k])
       /\ Outcome(inbox[k], outcome)
       /\ serving' = [line |-> inbox[k], outcome |-> outcome]
       /\ inbox' = SubSeq(inbox, 1, k - 1) \o SubSeq(inbox, k + 1, Len(inbox))
       /\ Served(inbox[k])
  /\ UNCHANGED <<peer, outbox, cache, server, client, callers, written, heard>>

Dispatch ==
  /\ server = "up" /\ serving = None /\ inbox # <<>> /\ ~Known(Head(inbox))
  /\ \E outcome \in {"ok", "error"} :
       /\ Outcome(Head(inbox), outcome)
       /\ serving' = [line |-> Head(inbox), outcome |-> outcome]
  /\ inbox' = Tail(inbox)
  /\ Served(Head(inbox))
  /\ UNCHANGED <<peer, outbox, cache, server, client, callers, written, heard>>

\* Fault: only what succeeded is remembered.
RememberedSuccess(c, e) ==
  IF e.outcome = "error" THEN c
  ELSE IF Len(c) < CacheSize THEN Append(c, e) ELSE Append(Tail(c), e)

\* Fault: nothing is forgotten.
RememberedForever(c, e) == Append(c, e)

\* The oldest answer is forgotten when there are too many.
Remembered(c, e) == IF Len(c) < CacheSize THEN Append(c, e) ELSE Append(Tail(c), e)

\* The status that an answer carries is read after the operation.
Answered == [line |-> serving.line, outcome |-> serving.outcome, rev |-> revision]

\* Fault: an answer may overtake one that has not been read.
ReplyOvertaking ==
  /\ server = "up" /\ serving # None
  /\ cache' = Remembered(cache, Answered)
  /\ outbox' \in {Append(outbox, Answered), <<Answered>> \o outbox}
  /\ serving' = None
  /\ UNCHANGED <<peer, inbox, server, revision, served, client, callers, written, heard>>

Reply ==
  /\ server = "up" /\ serving # None
  /\ cache' = Remembered(cache, Answered)
  /\ outbox' = Append(outbox, Answered)
  /\ serving' = None
  /\ UNCHANGED <<peer, inbox, server, revision, served, client, callers, written, heard>>

\* With the process go the lines it has not read and the answers it remembers.
Ends == server' = "down" /\ serving' = None /\ inbox' = <<>> /\ cache' = <<>>

\* The server dies, perhaps with a request carried out and not answered.
Crash ==
  /\ server = "up" /\ Ends
  /\ UNCHANGED <<peer, outbox, revision, served, client, callers, written, heard>>

\* A terminal, the MCP server or another authority commits to the Run.
OtherCommit ==
  /\ revision < MaxRevision
  /\ revision' = revision + 1
  /\ UNCHANGED <<peer, inbox, serving, outbox, cache, server, served, client, callers, written, heard>>

-----------------------------------------------------------------------------
(* createAuthorityClient, with the callers.                                *)

\* Fault: the number of a request that is settled is used again.
LowestId == CHOOSE i \in Ids : i \notin pending /\ \A j \in Ids : j < i => j \in pending

NewId == nextID

Write(l) ==
  /\ written < MaxLines
  /\ written' = written + 1
  /\ inbox' = IF server = "up" THEN Append(inbox, l) ELSE inbox

\* request: nothing is written once the client has failed.  Ids are counted
\* over the lines that are written: TooLarge uses one up that nobody sees.
Ask(c, op, rev) ==
  /\ failure = "no"
  /\ Write([id |-> NewId, op |-> op, rev |-> rev])
  /\ pending' = pending \cup {NewId}
  /\ asked' = [asked EXCEPT ![c] = NewId]
  /\ nextID' = nextID + 1
  /\ stage' = [stage EXCEPT ![c] = op]
  /\ UNCHANGED <<peer, serving, outbox, cache, server, revision, served, failure, known, latest, heard>>

AskStatus(c) == peer = "plugin" /\ stage[c] = "idle" /\ Ask(c, "status", 0)

\* attach_session, authorize_tool and bind_task are bound to the last context
\* seen, complete_phase and the planning and quality tools to the status they
\* have asked for.
AskMutation(c) ==
  /\ stage[c] = "bound"
  /\ \E rev \in {latest, known[c]} : Ask(c, "mutate", rev)

\* A mutation of more than MAX_MESSAGE_BYTES is rejected and not written.
TooLarge(c) ==
  /\ failure = "no"
  /\ stage[c] = "bound"
  /\ stage' = [stage EXCEPT ![c] = "idle"]
  /\ UNCHANGED <<peer, authority, client, asked, known, latest, written, heard>>

\* The promise of a caller is settled.
Resolve(c, a) ==
  /\ stage' = [stage EXCEPT ![c] = IF a.line.op = "status" /\ a.outcome = "ok" THEN "bound" ELSE "idle"]
  /\ known' = [known EXCEPT ![c] = IF a.line.op = "status" /\ a.outcome = "ok" THEN a.rev ELSE @]
  /\ IF a.outcome = "ok"
     THEN latest' \in {a.rev} \cup (IF a.line.op = "status" THEN {} ELSE {latest})
     ELSE UNCHANGED latest

Deliver ==
  /\ peer = "plugin" /\ outbox # <<>>
  /\ LET a == Head(outbox)
     IN IF a.line.id \in pending
        THEN /\ pending' = pending \ {a.line.id}
             /\ heard' = heard \cup {a.line.id}
             /\ \E c \in Callers :
                  /\ asked[c] = a.line.id /\ stage[c] \in {"status", "mutate"}
                  /\ Resolve(c, a)
        ELSE UNCHANGED <<pending, heard, stage, known, latest>>
  /\ outbox' = Tail(outbox)
  /\ UNCHANGED <<peer, inbox, serving, cache, server, revision, served, nextID, failure, asked, written>>

\* The timer of a request runs out; the line stays written.
Timeout(c) ==
  /\ stage[c] \in {"status", "mutate"} /\ asked[c] \in pending
  /\ pending' = pending \ {asked[c]}
  /\ stage' = [stage EXCEPT ![c] = "idle"]
  /\ UNCHANGED <<peer, authority, nextID, failure, asked, known, latest, written, heard>>

\* Fault: the timers are cleared and the promises are left as they are.
FailQuietly ==
  /\ peer = "plugin" /\ failure = "no"
  /\ failure' = "yes" /\ pending' = {}
  /\ UNCHANGED <<peer, authority, nextID, callers, written, heard>>

\* fail: the server has ended or broken the protocol, or the plugin closes the
\* client.  A server that still runs is killed, which is Crash, but may get to
\* carry out what was written before.
Fail ==
  /\ peer = "plugin" /\ failure = "no"
  /\ failure' = "yes" /\ pending' = {}
  /\ stage' = [c \in Callers |-> IF stage[c] \in {"status", "mutate"} THEN "idle" ELSE stage[c]]
  /\ UNCHANGED <<peer, authority, nextID, asked, known, latest, written, heard>>

\* The other program writes any of its lines, and reads its answers.
OtherWrites(l) ==
  /\ peer = "other" /\ Write(l)
  /\ UNCHANGED <<peer, serving, outbox, cache, server, revision, served, client, callers, heard>>

OtherReads ==
  /\ peer = "other" /\ outbox # <<>>
  /\ outbox' = Tail(outbox)
  /\ UNCHANGED <<peer, inbox, serving, cache, server, revision, served, client, callers, written, heard>>

-----------------------------------------------------------------------------
Init ==
  /\ peer \in {"plugin", "other"}
  /\ inbox = <<>> /\ serving = None /\ outbox = <<>> /\ cache = <<>> /\ server = "up"
  /\ revision = 0 /\ nextID = 1 /\ pending = {} /\ failure = "no"
  /\ stage = [c \in Callers |-> "idle"] /\ asked = [c \in Callers |-> 0]
  /\ known = [c \in Callers |-> 0] /\ latest = None
  /\ written = 0 /\ served = <<>> /\ heard = {}

Serve == Replay \/ Dispatch \/ Reply

Next ==
  \/ Serve \/ Crash \/ OtherCommit \/ Deliver \/ Fail \/ OtherReads
  \/ \E c \in Callers : AskStatus(c) \/ AskMutation(c) \/ TooLarge(c) \/ Timeout(c)
  \/ \E l \in OtherLines : OtherWrites(l)

\* A timer that is not cleared runs out.
Spec == Init /\ [][Next]_vars /\ \A c \in Callers : WF_vars(Timeout(c))

-----------------------------------------------------------------------------
(* Properties.                                                             *)

\* Types and the size of the cache; a caller that holds a status has a context
\* to bind its mutation to.
RpcTypeOK ==
  /\ peer \in {"plugin", "other"} /\ server \in {"up", "down"} /\ failure \in {"no", "yes"}
  /\ inbox \in Seq(Line) /\ outbox \in Seq(Result) /\ cache \in Seq(Result) /\ served \in Seq(Line)
  /\ serving \in {None} \cup Service
  /\ Len(cache) <= CacheSize
  /\ revision \in 0..MaxRevision /\ nextID \in 1..(MaxLines + 1) /\ written \in 0..MaxLines
  /\ pending \subseteq Ids /\ heard \subseteq Ids
  /\ stage \in [Callers -> {"idle", "status", "bound", "mutate"}]
  /\ asked \in [Callers -> 0..MaxLines] /\ known \in [Callers -> 0..MaxRevision]
  /\ latest \in {None} \cup 0..MaxRevision
  /\ \A c \in Callers : stage[c] = "bound" => latest # None

\* A line is carried out again only when CacheSize other requests were carried
\* out in between.
RunsOnce ==
  \A j, k \in 1..Len(served) : j < k /\ served[j].id = served[k].id =>
    Cardinality({served[i].id : i \in (j + 1)..(k - 1)}) >= CacheSize

\* An answer that grants something is to a line that was carried out, never to
\* another one with its id.
AnswersOwnLine ==
  \A k \in 1..Len(outbox) : outbox[k].outcome = "ok" =>
    \E i \in 1..Len(served) : served[i] = outbox[k].line

\* A caller with a status in its hands knows what became of every request that
\* was given up before it asked: each is carried out, and none takes effect
\* behind its back.
StatusSettlesEarlier ==
  \A c \in Callers : stage[c] = "bound" =>
    \A i \in 1..asked[c] : \E k \in 1..Len(served) : served[k].id = i

\* The context that mutations are bound to never goes back, however the
\* answers of concurrent callers, the late and the lost ones interleave.
LatestForward == [][latest # None => latest' # None /\ latest' >= latest]_vars

\* No caller waits for ever.
CallsEnd == \A c \in Callers : stage[c] \in {"status", "mutate"} ~> stage[c] \in {"idle", "bound"}

\* The plugin's requests are remote calls that run at most once.
Remote == INSTANCE RemoteCall WITH
  call <- [i \in Ids |-> IF i >= nextID THEN "new" ELSE IF i \in pending THEN "open"
                         ELSE IF i \in heard THEN "answered" ELSE "given up"],
  ran <- [i \in Ids |-> IF peer = "other" THEN 0
                        ELSE Cardinality({k \in 1..Len(served) : served[k].id = i})]
KeepsCall == Remote!Spec
=============================================================================
