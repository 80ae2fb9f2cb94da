--------------------------- MODULE RpcChannelProofs ---------------------------
(***************************************************************************)
(* Proofs about RpcChannel, for any number of callers, any size of the     *)
(* cache and any program at the other end.                                 *)
(***************************************************************************)
EXTENDS RpcChannel, FiniteSetTheorems, SequenceTheorems, TLAPS

\* The ends of the pipe that are not in use.
Sides ==
  /\ peer = "plugin" => nextID = written + 1
  /\ peer = "other" => /\ nextID = 1 /\ pending = {} /\ heard = {}
                       /\ \A c \in Callers : stage[c] = "idle"
  /\ server = "down" => inbox = <<>> /\ serving = None /\ cache = <<>>

TInv == RpcTypeOK /\ Sides

-----------------------------------------------------------------------------
(* Queues.                                                                 *)

LEMMA TakeFirst ==
  ASSUME NEW S, NEW s \in Seq(S), s # <<>>
  PROVE  /\ Head(s) \in S /\ Head(s) = s[1] /\ Tail(s) \in Seq(S)
         /\ Len(s) \in Nat /\ Len(s) >= 1 /\ Len(Tail(s)) = Len(s) - 1
         /\ \A k \in 1..Len(Tail(s)) : k + 1 \in 1..Len(s) /\ Tail(s)[k] = s[k + 1]
  BY HeadTailProperties, EmptySeq, LenProperties

LEMMA AddLast ==
  ASSUME NEW S, NEW s \in Seq(S), NEW e \in S
  PROVE  /\ Append(s, e) \in Seq(S) /\ Len(s) \in Nat /\ Len(Append(s, e)) = Len(s) + 1
         /\ \A k \in 1..Len(s) : Append(s, e)[k] = s[k]
         /\ Append(s, e)[Len(s) + 1] = e
  BY AppendProperties, LenProperties

\* The answers remembered after one more: the oldest one may be missing.
Forgotten == IF Len(cache) < CacheSize THEN 0 ELSE 1

LEMMA Remembering ==
  ASSUME cache \in Seq(Result), Len(cache) <= CacheSize, NEW e \in Result
  PROVE  /\ Remembered(cache, e) \in Seq(Result)
         /\ Len(cache) \in Nat /\ Len(Remembered(cache, e)) = Len(cache) + 1 - Forgotten
         /\ Len(Remembered(cache, e)) <= CacheSize
         /\ \A k \in 1..(Len(cache) - Forgotten) :
              /\ k + Forgotten \in 1..Len(cache)
              /\ Remembered(cache, e)[k] = cache[k + Forgotten]
         /\ Remembered(cache, e)[Len(cache) + 1 - Forgotten] = e
<1>1. CASE Len(cache) < CacheSize
  <2>1. Remembered(cache, e) = Append(cache, e) /\ Forgotten = 0
    BY <1>1 DEF Remembered, Forgotten
  <2> QED
    BY <1>1, <2>1, AddLast, SizesAssumption
<1>2. CASE ~(Len(cache) < CacheSize)
  <2>1. Remembered(cache, e) = Append(Tail(cache), e) /\ Forgotten = 1
    BY <1>2 DEF Remembered, Forgotten
  <2>2. Len(cache) \in Nat /\ Len(cache) = CacheSize /\ Len(cache) >= 1
    BY <1>2, SizesAssumption, LenProperties
  <2>3. cache # <<>>
    BY <2>2, EmptySeq
  <2>4. /\ Tail(cache) \in Seq(Result) /\ Len(Tail(cache)) = Len(cache) - 1
        /\ \A k \in 1..Len(Tail(cache)) : k + 1 \in 1..Len(cache) /\ Tail(cache)[k] = cache[k + 1]
    BY <2>3, TakeFirst
  <2> DEFINE t == Append(Tail(cache), e)
  <2>5. /\ t \in Seq(Result) /\ Len(t) = Len(cache)
        /\ \A k \in 1..(Len(cache) - 1) : t[k] = cache[k + 1] /\ k + 1 \in 1..Len(cache)
        /\ t[Len(cache)] = e
    <3>1. /\ t \in Seq(Result) /\ Len(t) = Len(Tail(cache)) + 1
          /\ \A k \in 1..Len(Tail(cache)) : t[k] = Tail(cache)[k]
          /\ t[Len(Tail(cache)) + 1] = e
      BY <2>4, AddLast
    <3> HIDE DEF t
    <3> QED
      BY <2>2, <2>4, <3>1
  <2> HIDE DEF t
  <2> QED
    BY <2>1, <2>2, <2>5 DEF t
<1> QED
  BY <1>1, <1>2

-----------------------------------------------------------------------------
(* Types, one action at a time.                                            *)

USE SizesAssumption DEF Ids

LEMMA TypedReplay == ASSUME TInv, Replay PROVE TInv'
<1>1. PICK k \in 1..Len(cache) :
        outbox' = Append(outbox, IF Remembers(Head(inbox), cache[k])
                                 THEN [cache[k] EXCEPT !.line = Head(inbox)]
                                 ELSE [line |-> Head(inbox), outcome |-> "error", rev |-> revision])
  BY DEF Replay
<1> DEFINE a == IF Remembers(Head(inbox), cache[k]) THEN [cache[k] EXCEPT !.line = Head(inbox)]
                ELSE [line |-> Head(inbox), outcome |-> "error", rev |-> revision]
<1>2. Head(inbox) \in Line /\ Tail(inbox) \in Seq(Line)
  BY TakeFirst DEF Replay, TInv, RpcTypeOK
<1>3. cache[k] \in Result
  BY <1>1, ElementOfSeq DEF TInv, RpcTypeOK
<1>4. a \in Result
  BY <1>2, <1>3 DEF Result, TInv, RpcTypeOK
<1> HIDE DEF a
<1>5. outbox' \in Seq(Result)
  BY <1>1, <1>4, AddLast DEF TInv, RpcTypeOK, a
<1> QED
  BY <1>2, <1>5 DEF Replay, TInv, RpcTypeOK, Sides, client, callers

LEMMA TypedDispatch == ASSUME TInv, Dispatch PROVE TInv'
<1>1. PICK outcome \in {"ok", "error"} :
        Outcome(Head(inbox), outcome) /\ serving' = [line |-> Head(inbox), outcome |-> outcome]
  BY DEF Dispatch
<1>2. Head(inbox) \in Line /\ Tail(inbox) \in Seq(Line)
  BY TakeFirst DEF Dispatch, TInv, RpcTypeOK
<1>3. serving' \in Service /\ served' \in Seq(Line)
  BY <1>1, <1>2, AddLast DEF Dispatch, Served, Service, TInv, RpcTypeOK
<1>4. revision' \in 0..MaxRevision
  BY <1>1 DEF Outcome, TInv, RpcTypeOK
<1> QED
  BY <1>2, <1>3, <1>4 DEF Dispatch, TInv, RpcTypeOK, Sides, client, callers

LEMMA AnsweredTyped == ASSUME TInv, serving # None PROVE Answered \in Result
  BY DEF TInv, RpcTypeOK, Answered, Result, Service

LEMMA TypedReply == ASSUME TInv, Reply PROVE TInv'
<1>1. Answered \in Result
  BY AnsweredTyped DEF Reply
<1>2. cache' \in Seq(Result) /\ Len(cache') <= CacheSize
  BY <1>1, Remembering DEF Reply, TInv, RpcTypeOK
<1>3. outbox' \in Seq(Result)
  BY <1>1, AddLast DEF Reply, TInv, RpcTypeOK
<1> QED
  BY <1>2, <1>3 DEF Reply, TInv, RpcTypeOK, Sides, client, callers

LEMMA Ended ==
  ASSUME Ends
  PROVE  /\ inbox' \in Seq(Line) /\ cache' \in Seq(Result) /\ Len(cache') = 0 /\ serving' = None
         /\ server' = "down" /\ inbox' = <<>> /\ cache' = <<>>
  BY DEF Ends

LEMMA TypedCrash == ASSUME TInv, Crash PROVE TInv'
  BY Ended DEF Crash, TInv, RpcTypeOK, Sides, client, callers

LEMMA TypedCommit == ASSUME TInv, OtherCommit PROVE TInv'
  BY DEF OtherCommit, TInv, RpcTypeOK, Sides, client, callers

LEMMA TypedWrite ==
  ASSUME TInv, NEW l \in Line, Write(l)
  PROVE  inbox' \in Seq(Line) /\ written' = written + 1 /\ written' \in 0..MaxLines
         /\ (server = "down" => inbox' = inbox)
  BY AddLast DEF Write, TInv, RpcTypeOK

LEMMA TypedAsk ==
  ASSUME TInv, peer = "plugin", NEW c \in Callers, NEW op \in {"status", "mutate"},
         NEW rev \in 0..MaxRevision, Ask(c, op, rev)
  PROVE  TInv'
<1> DEFINE l == [id |-> NewId, op |-> op, rev |-> rev]
<1>1. written < MaxLines /\ NewId = written + 1 /\ written \in Nat
  BY DEF Ask, Write, NewId, TInv, RpcTypeOK, Sides
<1>2. NewId \in Ids /\ l \in Line
  BY <1>1 DEF Line
<1> HIDE DEF l
<1>3. inbox' \in Seq(Line) /\ written' = written + 1 /\ (server = "down" => inbox' = inbox)
  BY <1>2, TypedWrite DEF Ask, l
<1>4. /\ pending' = pending \cup {NewId} /\ asked' = [asked EXCEPT ![c] = NewId]
      /\ nextID' = nextID + 1 /\ stage' = [stage EXCEPT ![c] = op]
      /\ UNCHANGED <<peer, serving, outbox, cache, server, revision, served, failure, known, latest, heard>>
  BY DEF Ask
<1>5. \A d \in Callers : stage'[d] = "bound" => stage[d] = "bound"
  BY <1>4 DEF TInv, RpcTypeOK
<1>6. asked' \in [Callers -> 0..MaxLines] /\ stage' \in [Callers -> {"idle", "status", "bound", "mutate"}]
  BY <1>2, <1>4 DEF TInv, RpcTypeOK
<1>7. nextID' \in 1..(MaxLines + 1) /\ written' \in 0..MaxLines /\ nextID' = written' + 1
  BY <1>1, <1>3, <1>4 DEF NewId
<1> QED
  BY <1>2, <1>3, <1>4, <1>5, <1>6, <1>7 DEF TInv, RpcTypeOK, Sides

LEMMA TypedDeliver == ASSUME TInv, Deliver PROVE TInv'
<1>1. Head(outbox) \in Result /\ Tail(outbox) \in Seq(Result)
  BY TakeFirst DEF Deliver, TInv, RpcTypeOK
<1> DEFINE a == Head(outbox)
<1>2. CASE a.line.id \in pending
  <2>1. PICK c \in Callers : Resolve(c, a)
    BY <1>2 DEF Deliver
  <2>2. /\ stage' = [stage EXCEPT ![c] = IF a.line.op = "status" /\ a.outcome = "ok" THEN "bound" ELSE "idle"]
        /\ known' = [known EXCEPT ![c] = IF a.line.op = "status" /\ a.outcome = "ok" THEN a.rev ELSE @]
        /\ IF a.outcome = "ok"
           THEN latest' \in {a.rev} \cup (IF a.line.op = "status" THEN {} ELSE {latest})
           ELSE UNCHANGED latest
    BY <2>1 DEF Resolve
  <2>3. a.rev \in 0..MaxRevision /\ a.rev # None
    BY <1>1, NoneAssumption DEF Result
  <2>4. latest' \in {None} \cup 0..MaxRevision /\ (latest # None => latest' # None)
    BY <2>2, <2>3 DEF TInv, RpcTypeOK
  <2>5. \A d \in Callers : stage'[d] = "bound" => latest' # None
    BY <2>2, <2>3, <2>4 DEF TInv, RpcTypeOK
  <2>6. /\ stage' \in [Callers -> {"idle", "status", "bound", "mutate"}]
        /\ known' \in [Callers -> 0..MaxRevision]
    BY <2>2, <2>3 DEF TInv, RpcTypeOK
  <2>7. pending' \subseteq Ids /\ heard' \subseteq Ids
    BY <1>2 DEF Deliver, TInv, RpcTypeOK
  <2> QED
    BY <1>1, <2>4, <2>5, <2>6, <2>7 DEF Deliver, TInv, RpcTypeOK, Sides
<1>3. CASE a.line.id \notin pending
  BY <1>1, <1>3 DEF Deliver, TInv, RpcTypeOK, Sides
<1> QED
  BY <1>2, <1>3

LEMMA TypedTimeout == ASSUME TInv, NEW c \in Callers, Timeout(c) PROVE TInv'
<1>1. /\ stage' \in [Callers -> {"idle", "status", "bound", "mutate"}]
      /\ \A d \in Callers : stage'[d] # "idle" => stage'[d] = stage[d]
      /\ peer = "plugin"
  BY DEF Timeout, TInv, RpcTypeOK, Sides
<1> QED
  BY <1>1 DEF Timeout, TInv, RpcTypeOK, Sides, authority

LEMMA TypedTooLarge == ASSUME TInv, NEW c \in Callers, TooLarge(c) PROVE TInv'
<1>1. peer = "plugin"
  BY DEF TooLarge, TInv, RpcTypeOK, Sides
<1> QED
  BY <1>1 DEF TooLarge, TInv, RpcTypeOK, Sides, authority, client

LEMMA TypedFail == ASSUME TInv, Fail PROVE TInv'
<1>1. /\ stage' \in [Callers -> {"idle", "status", "bound", "mutate"}]
      /\ \A d \in Callers : stage'[d] = "bound" => stage[d] = "bound"
  BY DEF Fail, TInv, RpcTypeOK
<1> QED
  BY <1>1 DEF Fail, TInv, RpcTypeOK, Sides, authority

LEMMA TypedOther == ASSUME TInv, NEW l \in OtherLines, OtherWrites(l) PROVE TInv'
<1>1. l \in Line
  BY OtherLinesAssumption DEF Line
<1>2. inbox' \in Seq(Line) /\ written' \in 0..MaxLines /\ (server = "down" => inbox' = inbox)
  BY <1>1, TypedWrite DEF OtherWrites
<1> QED
  BY <1>2 DEF OtherWrites, TInv, RpcTypeOK, Sides, client, callers

LEMMA TypedOtherReads == ASSUME TInv, OtherReads PROVE TInv'
<1>1. Tail(outbox) \in Seq(Result)
  BY TakeFirst DEF OtherReads, TInv, RpcTypeOK
<1> QED
  BY <1>1 DEF OtherReads, TInv, RpcTypeOK, Sides, client, callers

\* What the callers ask is bound to a revision they know.
LEMMA Asking ==
  ASSUME TInv, NEW c \in Callers, AskStatus(c) \/ AskMutation(c)
  PROVE  /\ peer = "plugin"
         /\ \E op \in {"status", "mutate"}, rev \in 0..MaxRevision : Ask(c, op, rev)
<1>1. CASE AskStatus(c)
  <2>1. 0 \in 0..MaxRevision
    OBVIOUS
  <2> QED
    BY <1>1, <2>1 DEF AskStatus
<1>2. CASE AskMutation(c)
  <2>1. latest \in 0..MaxRevision /\ known[c] \in 0..MaxRevision /\ peer = "plugin"
    BY <1>2 DEF AskMutation, TInv, RpcTypeOK, Sides
  <2> QED
    BY <1>2, <2>1 DEF AskMutation
<1> QED
  BY <1>1, <1>2

LEMMA InitTyped == Init => TInv
<1> SUFFICES ASSUME Init PROVE TInv
  OBVIOUS
<1>1. /\ inbox \in Seq(Line) /\ outbox \in Seq(Result) /\ cache \in Seq(Result) /\ served \in Seq(Line)
      /\ Len(cache) = 0
  BY DEF Init
<1> QED
  BY <1>1 DEF Init, TInv, RpcTypeOK, Sides

LEMMA NextTyped == TInv /\ [Next]_vars => TInv'
<1> SUFFICES ASSUME TInv, [Next]_vars PROVE TInv'
  OBVIOUS
<1>1. CASE UNCHANGED vars
  BY <1>1 DEF vars, authority, client, callers, TInv, RpcTypeOK, Sides
<1>2. ASSUME NEW c \in Callers, AskStatus(c) \/ AskMutation(c) PROVE TInv'
  BY <1>2, Asking, TypedAsk
<1> QED
  BY <1>1, <1>2, TypedReplay, TypedDispatch, TypedReply, TypedCrash, TypedCommit, TypedDeliver,
     TypedFail, TypedOtherReads, TypedTimeout, TypedTooLarge, TypedOther DEF Next, Serve

\* The channel keeps its types: queues hold lines and answers, the cache stays
\* within its limit, and a caller with a status knows a context.
THEOREM RpcTyped == Spec => []RpcTypeOK
<1>1. TInv => RpcTypeOK
  BY DEF TInv
<1> QED
  BY <1>1, InitTyped, NextTyped, PTL DEF Spec

-----------------------------------------------------------------------------
(* The order of the plugin's requests: ids are carried out one after the   *)
(* other, and what was answered or forgotten lies behind.                  *)

Order ==
  peer = "plugin" =>
    /\ \A k \in 1..Len(served) : served[k].id = k
    /\ Len(served) <= written
    /\ server = "up" => Len(served) + Len(inbox) = written
    /\ \A k \in 1..Len(inbox) : inbox[k].id = Len(served) + k
    /\ \A k \in 1..Len(outbox) : outbox[k].line.id <= Len(served)
    /\ serving # None => serving.line.id <= Len(served)
    /\ \A k \in 1..Len(cache) : cache[k].line.id <= Len(served)
    /\ \A c \in Callers : stage[c] = "bound" => asked[c] <= Len(served)
    /\ \A i \in heard : i <= Len(served)
    /\ \A i \in pending : i <= written /\ i \notin heard

OInv == TInv /\ Order

LEMMA Lengths ==
  ASSUME TInv
  PROVE  /\ Len(served) \in Nat /\ Len(inbox) \in Nat /\ Len(outbox) \in Nat /\ Len(cache) \in Nat
         /\ written \in Nat /\ nextID \in Nat /\ revision \in Nat
         /\ \A k \in 1..Len(served) : served[k] \in Line
         /\ \A k \in 1..Len(inbox) : inbox[k] \in Line
         /\ \A k \in 1..Len(outbox) : outbox[k] \in Result
         /\ \A k \in 1..Len(cache) : cache[k] \in Result
  BY LenProperties, ElementOfSeq DEF TInv, RpcTypeOK

\* The plugin repeats no id, so it meets no remembered answer.
LEMMA NoReplay == ASSUME OInv, Replay PROVE peer = "other"
<1> SUFFICES ASSUME peer # "other" PROVE FALSE
  OBVIOUS
<1>1. peer = "plugin"
  BY DEF OInv, TInv, RpcTypeOK
<1>2. PICK k \in 1..Len(cache) : cache[k].line.id = Head(inbox).id
  BY DEF Replay
<1>3. Head(inbox) = inbox[1] /\ 1 \in 1..Len(inbox)
  BY TakeFirst DEF Replay, OInv, TInv, RpcTypeOK
<1>4. cache[k].line.id <= Len(served) /\ Head(inbox).id = Len(served) + 1
  BY <1>1, <1>3 DEF OInv, Order
<1> QED
  BY <1>2, <1>4, Lengths DEF OInv

LEMMA OrderDispatch == ASSUME OInv, peer = "plugin", Dispatch PROVE Order'
<1>1. /\ Head(inbox) \in Line /\ Head(inbox) = inbox[1] /\ Len(inbox) >= 1
      /\ Len(Tail(inbox)) = Len(inbox) - 1
      /\ \A k \in 1..Len(Tail(inbox)) : k + 1 \in 1..Len(inbox) /\ Tail(inbox)[k] = inbox[k + 1]
  BY TakeFirst DEF Dispatch, OInv, TInv, RpcTypeOK
<1>2. /\ Len(served') = Len(served) + 1
      /\ \A k \in 1..Len(served) : served'[k] = served[k]
      /\ served'[Len(served) + 1] = Head(inbox)
  BY <1>1, AddLast DEF Dispatch, Served, OInv, TInv, RpcTypeOK
<1>3. Head(inbox).id = Len(served) + 1 /\ server = "up"
  BY <1>1, Lengths DEF OInv, Order, Dispatch
<1>4. \A k \in 1..Len(served') : served'[k].id = k
  <2>1. \A k \in 1..Len(served') : k \in 1..Len(served) \/ k = Len(served) + 1
    BY <1>2, Lengths DEF OInv
  <2> QED
    BY <1>2, <1>3, <2>1 DEF OInv, Order
<1>5. \A k \in 1..Len(inbox') : inbox'[k].id = Len(served') + k
  BY <1>1, <1>2, Lengths DEF Dispatch, OInv, Order
<1>6. Len(served') + Len(inbox') = written' /\ Len(served') <= written'
  BY <1>1, <1>2, <1>3, Lengths DEF Dispatch, OInv, Order
<1>7. serving'.line.id <= Len(served')
  BY <1>2, <1>3, Lengths DEF Dispatch, OInv
<1>8. UNCHANGED <<peer, outbox, cache, server, pending, stage, asked, written, heard>>
  BY DEF Dispatch, client, callers
<1>9. /\ \A k \in 1..Len(outbox) : outbox[k].line.id \in Nat /\ outbox[k].line.id <= Len(served')
      /\ \A k \in 1..Len(cache) : cache[k].line.id \in Nat /\ cache[k].line.id <= Len(served')
  <2>1. /\ \A k \in 1..Len(outbox) : outbox[k].line.id \in Nat
        /\ \A k \in 1..Len(cache) : cache[k].line.id \in Nat
    <3>1. \A a \in Result : a.line.id \in Nat
      BY DEF Result, Line
    <3> QED
      BY <3>1, Lengths DEF OInv
  <2>2. \A n \in Nat : n <= Len(served) => n <= Len(served')
    BY <1>2, Lengths DEF OInv
  <2> QED
    BY <2>1, <2>2 DEF OInv, Order
<1>10. /\ \A c \in Callers : stage[c] = "bound" => asked[c] <= Len(served')
       /\ \A i \in heard : i <= Len(served')
  BY <1>2, Lengths DEF OInv, Order, TInv, RpcTypeOK
<1> QED
  BY <1>4, <1>5, <1>6, <1>7, <1>8, <1>9, <1>10 DEF OInv, Order

LEMMA OrderReply == ASSUME OInv, Reply PROVE Order'
<1>1. Answered \in Result /\ Answered.line.id = serving.line.id
  BY AnsweredTyped DEF Reply, OInv, Answered
<1>2. /\ Len(outbox') = Len(outbox) + 1
      /\ \A k \in 1..Len(outbox) : outbox'[k] = outbox[k]
      /\ outbox'[Len(outbox) + 1] = Answered
  BY <1>1, AddLast DEF Reply, OInv, TInv, RpcTypeOK
<1>3. \A k \in 1..Len(outbox') : k \in 1..Len(outbox) \/ k = Len(outbox) + 1
  BY <1>2, Lengths DEF OInv
<1>4. \A k \in 1..Len(cache') : \/ cache'[k] = Answered
                                \/ \E j \in 1..Len(cache) : cache'[k] = cache[j]
  <2>1. /\ Len(cache') = Len(cache) + 1 - Forgotten /\ Len(cache) \in Nat
        /\ \A k \in 1..(Len(cache) - Forgotten) :
             k + Forgotten \in 1..Len(cache) /\ cache'[k] = cache[k + Forgotten]
        /\ cache'[Len(cache) + 1 - Forgotten] = Answered
    BY <1>1, Remembering DEF Reply, OInv, TInv, RpcTypeOK
  <2>2. Forgotten \in {0, 1}
    BY DEF Forgotten
  <2>3. \A k \in 1..Len(cache') : k \in 1..(Len(cache) - Forgotten) \/ k = Len(cache) + 1 - Forgotten
    BY <2>1, <2>2
  <2> QED
    BY <2>1, <2>3
<1> QED
  BY <1>1, <1>2, <1>3, <1>4 DEF Reply, OInv, Order, client, callers

LEMMA OrderAsk ==
  ASSUME OInv, peer = "plugin", NEW c \in Callers, NEW op \in {"status", "mutate"},
         NEW rev \in 0..MaxRevision, Ask(c, op, rev)
  PROVE  Order'
<1> DEFINE l == [id |-> NewId, op |-> op, rev |-> rev]
<1>1. written < MaxLines /\ NewId = written + 1 /\ written' = written + 1
  BY DEF Ask, Write, NewId, OInv, TInv, Sides
<1>2. l \in Line /\ l.id = written + 1
  BY <1>1, Lengths DEF Line, OInv
<1> HIDE DEF l
<1>3. inbox' = IF server = "up" THEN Append(inbox, l) ELSE inbox
  BY DEF Ask, Write, l
<1>4. \A k \in 1..Len(inbox') : inbox'[k].id = Len(served) + k
  <2>1. CASE server = "up"
    <3>1. /\ Len(inbox') = Len(inbox) + 1
          /\ \A k \in 1..Len(inbox) : inbox'[k] = inbox[k]
          /\ inbox'[Len(inbox) + 1] = l
      BY <1>2, <1>3, <2>1, AddLast DEF OInv, TInv, RpcTypeOK
    <3>2. \A k \in 1..Len(inbox') : k \in 1..Len(inbox) \/ k = Len(inbox) + 1
      BY <3>1, Lengths DEF OInv
    <3>3. l.id = Len(served) + (Len(inbox) + 1)
      BY <1>2, <2>1, Lengths DEF OInv, Order
    <3> QED
      BY <3>1, <3>2, <3>3 DEF OInv, Order
  <2>2. CASE server # "up"
    BY <1>3, <2>2 DEF OInv, Order
  <2> QED
    BY <2>1, <2>2
<1>5. server = "up" => Len(served) + Len(inbox') = written'
  <2>1. server = "up" => Len(inbox') = Len(inbox) + 1
    BY <1>2, <1>3, AddLast DEF OInv, TInv, RpcTypeOK
  <2> QED
    <3>1. server = "up" => Len(served) + Len(inbox) = written
      BY DEF OInv, Order
    <3>2. Len(served) \in Nat /\ Len(inbox) \in Nat /\ written \in Nat
      BY Lengths DEF OInv
    <3> QED
      BY <1>1, <2>1, <3>1, <3>2
<1>6. /\ pending' = pending \cup {written + 1} /\ asked' = [asked EXCEPT ![c] = written + 1]
      /\ stage' = [stage EXCEPT ![c] = op]
      /\ UNCHANGED <<peer, serving, outbox, cache, server, served, heard>>
  BY <1>1 DEF Ask
<1>7. \A d \in Callers : stage'[d] = "bound" => stage[d] = "bound" /\ asked'[d] = asked[d]
  BY <1>6 DEF OInv, TInv, RpcTypeOK
<1>8. \A i \in pending' : i <= written' /\ i \notin heard
  <2>1. \A i \in heard : i \in Nat /\ i <= written
    BY Lengths DEF OInv, Order, TInv, RpcTypeOK
  <2>2. \A i \in pending : i \in Nat
    BY DEF OInv, TInv, RpcTypeOK
  <2> QED
    BY <1>1, <1>6, <2>1, <2>2, Lengths DEF OInv, Order
<1>9. Len(served) <= written'
  BY <1>1, Lengths DEF OInv, Order
<1> QED
  BY <1>4, <1>5, <1>6, <1>7, <1>8, <1>9 DEF OInv, Order

LEMMA OrderDeliver == ASSUME OInv, Deliver PROVE Order'
<1> DEFINE a == Head(outbox)
<1>1. /\ a = outbox[1] /\ 1 \in 1..Len(outbox)
      /\ \A k \in 1..Len(Tail(outbox)) : k + 1 \in 1..Len(outbox) /\ Tail(outbox)[k] = outbox[k + 1]
  BY TakeFirst DEF Deliver, OInv, TInv, RpcTypeOK
<1>2. a.line.id <= Len(served)
  BY <1>1 DEF Deliver, OInv, Order
<1>3. \A k \in 1..Len(outbox') : outbox'[k].line.id <= Len(served)
  BY <1>1 DEF Deliver, OInv, Order
<1>4. UNCHANGED <<peer, inbox, serving, cache, server, served, asked, written>>
  BY DEF Deliver
<1>5. CASE a.line.id \in pending
  <2>1. PICK c \in Callers : asked[c] = a.line.id /\ Resolve(c, a)
    BY <1>5 DEF Deliver
  <2>2. pending' = pending \ {a.line.id} /\ heard' = heard \cup {a.line.id}
    BY <1>5 DEF Deliver
  <2>3. \A d \in Callers : stage'[d] = "bound" => d = c \/ stage[d] = "bound"
    BY <2>1 DEF Resolve, OInv, TInv, RpcTypeOK
  <2> HIDE DEF a
  <2> QED
    BY <1>2, <1>3, <1>4, <2>1, <2>2, <2>3 DEF OInv, Order
<1>6. CASE a.line.id \notin pending
  <2>1. UNCHANGED <<pending, heard, stage>>
    BY <1>6 DEF Deliver
  <2> QED
    BY <1>3, <1>4, <2>1 DEF OInv, Order
<1> QED
  BY <1>5, <1>6

LEMMA OrderEnds ==
  ASSUME OInv, Ends, UNCHANGED <<peer, outbox, served, pending, stage, asked, written, heard>>
  PROVE  Order'
<1>1. Len(inbox') = 0 /\ Len(cache') = 0
  BY Ended
<1> QED
  BY <1>1 DEF Ends, OInv, Order

LEMMA NextOrder == OInv /\ [Next]_vars => OInv'
<1> SUFFICES ASSUME OInv, [Next]_vars PROVE Order'
  BY NextTyped DEF OInv
<1>1. CASE UNCHANGED vars
  BY <1>1 DEF vars, authority, client, callers, OInv, Order
<1>2. CASE Replay
  BY <1>2, NoReplay DEF Replay, Order, OInv
<1>3. CASE Dispatch
  BY <1>3, OrderDispatch DEF Dispatch, Order
<1>4. CASE Reply
  BY <1>4, OrderReply
<1>5. CASE Crash
  BY <1>5, OrderEnds DEF Crash, client, callers
<1>6. CASE OtherCommit
  BY <1>6 DEF OtherCommit, client, callers, OInv, Order
<1>7. CASE Deliver
  BY <1>7, OrderDeliver
<1>8. CASE Fail
  <2>1. \A c \in Callers : stage'[c] = "bound" => stage[c] = "bound"
    BY <1>8 DEF Fail, OInv, TInv, RpcTypeOK
  <2>2. pending' = {} /\ UNCHANGED <<peer, authority, asked, written, heard>>
    BY <1>8 DEF Fail
  <2> QED
    BY <2>1, <2>2 DEF authority, OInv, Order
<1>9. CASE OtherReads
  BY <1>9 DEF OtherReads, Order
<1>10. ASSUME NEW c \in Callers, AskStatus(c) \/ AskMutation(c) PROVE Order'
  BY <1>10, Asking, OrderAsk DEF OInv
<1>11. ASSUME NEW c \in Callers, Timeout(c) PROVE Order'
  <2>1. \A d \in Callers : stage'[d] = "bound" => stage[d] = "bound"
    BY <1>11 DEF Timeout, OInv, TInv, RpcTypeOK
  <2>2. /\ pending' \subseteq pending
        /\ UNCHANGED <<peer, inbox, serving, outbox, cache, server, served, asked, written, heard>>
    BY <1>11 DEF Timeout, authority
  <2> QED
    BY <2>1, <2>2 DEF OInv, Order
<1>12. ASSUME NEW l \in OtherLines, OtherWrites(l) PROVE Order'
  BY <1>12 DEF OtherWrites, Order
<1>13. ASSUME NEW c \in Callers, TooLarge(c) PROVE Order'
  <2>1. \A d \in Callers : stage'[d] = "bound" => stage[d] = "bound"
    BY <1>13 DEF TooLarge, OInv, TInv, RpcTypeOK
  <2> QED
    BY <1>13, <2>1 DEF TooLarge, authority, client, OInv, Order
<1> QED
  BY <1>1, <1>2, <1>3, <1>4, <1>5, <1>6, <1>7, <1>8, <1>9, <1>10, <1>11, <1>12,
     <1>13 DEF Next, Serve

LEMMA InitOrder == Init => OInv
  BY InitTyped DEF Init, OInv, Order

\* A caller with a status in its hands knows that everything it, or any other
\* caller, asked before has been carried out.
THEOREM StatusSettles == Spec => []StatusSettlesEarlier
<1>1. OInv => StatusSettlesEarlier
  <2> SUFFICES ASSUME OInv, NEW c \in Callers, stage[c] = "bound", NEW i \in 1..asked[c]
               PROVE  \E k \in 1..Len(served) : served[k].id = i
    BY DEF StatusSettlesEarlier
  <2>1. peer = "plugin"
    BY DEF OInv, TInv, RpcTypeOK, Sides
  <2>2. asked[c] <= Len(served) /\ asked[c] \in Nat
    BY <2>1 DEF OInv, Order, TInv, RpcTypeOK
  <2>3. i \in 1..Len(served)
    BY <2>2, Lengths DEF OInv
  <2> QED
    BY <2>1, <2>3 DEF OInv, Order
<1> QED
  BY <1>1, InitOrder, NextOrder, PTL DEF Spec

-----------------------------------------------------------------------------
(* The context the callers bind their mutations to.                        *)

Forward ==
  peer = "plugin" =>
    /\ \A j, k \in 1..Len(outbox) : j <= k => outbox[j].rev <= outbox[k].rev
    /\ \A k \in 1..Len(outbox) : outbox[k].rev <= revision
    /\ latest # None => latest <= revision /\ \A k \in 1..Len(outbox) : latest <= outbox[k].rev

FInv == OInv /\ Forward

LEMMA Revisions ==
  ASSUME TInv
  PROVE  /\ revision \in Nat /\ (latest # None => latest \in Nat)
         /\ \A k \in 1..Len(outbox) : outbox[k].rev \in Nat
<1>1. \A a \in Result : a.rev \in Nat
  BY DEF Result
<1> QED
  BY <1>1, Lengths DEF TInv, RpcTypeOK

\* Commits move the revision, and no answer is involved.
LEMMA ForwardCommit ==
  ASSUME FInv, revision' \in Nat, revision' >= revision, UNCHANGED <<peer, outbox, latest>>
  PROVE  Forward'
<1>1. \A n \in Nat : n <= revision => n <= revision'
  BY Revisions DEF FInv, OInv
<1> QED
  BY <1>1, Revisions DEF FInv, OInv, Forward

LEMMA ForwardReply == ASSUME FInv, peer = "plugin", Reply PROVE Forward'
<1>1. Answered \in Result /\ Answered.rev = revision
  BY AnsweredTyped DEF Reply, FInv, OInv, Answered
<1>2. /\ Len(outbox') = Len(outbox) + 1
      /\ \A k \in 1..Len(outbox) : outbox'[k] = outbox[k]
      /\ outbox'[Len(outbox) + 1] = Answered
  BY <1>1, AddLast DEF Reply, FInv, OInv, TInv, RpcTypeOK
<1>3. \A k \in 1..Len(outbox') : k \in 1..Len(outbox) \/ k = Len(outbox) + 1
  BY <1>2, Lengths DEF FInv, OInv
<1>4. \A k \in 1..Len(outbox) : k \in Nat /\ k < Len(outbox) + 1
  BY Lengths DEF FInv, OInv
<1>5. UNCHANGED <<peer, revision, latest>>
  BY DEF Reply, client, callers
<1>6. \A j, k \in 1..Len(outbox') : j <= k => outbox'[j].rev <= outbox'[k].rev
  <2> SUFFICES ASSUME NEW j \in 1..Len(outbox'), NEW k \in 1..Len(outbox'), j <= k
               PROVE  outbox'[j].rev <= outbox'[k].rev
    OBVIOUS
  <2>1. CASE k \in 1..Len(outbox)
    <3>1. j \in 1..Len(outbox)
      BY <1>3, <2>1, Lengths DEF FInv, OInv
    <3> QED
      BY <1>2, <2>1, <3>1 DEF FInv, Forward
  <2>2. CASE k = Len(outbox) + 1
    BY <1>1, <1>2, <1>3, <2>2, Revisions DEF FInv, OInv, Forward
  <2> QED
    BY <1>3, <2>1, <2>2
<1>7. \A k \in 1..Len(outbox') : outbox'[k].rev <= revision
  BY <1>1, <1>2, <1>3, Revisions DEF FInv, OInv, Forward
<1>8. latest # None => latest <= revision /\ \A k \in 1..Len(outbox') : latest <= outbox'[k].rev
  BY <1>1, <1>2, <1>3, Revisions DEF FInv, OInv, Forward
<1> QED
  BY <1>5, <1>6, <1>7, <1>8 DEF Forward

LEMMA ForwardTake ==
  ASSUME FInv, outbox # <<>>, outbox' = Tail(outbox), UNCHANGED <<peer, revision>>,
         latest' \in {latest, Head(outbox).rev}
  PROVE  Forward'
<1>1. /\ Head(outbox) = outbox[1] /\ 1 \in 1..Len(outbox)
      /\ \A k \in 1..Len(outbox') : k \in Nat /\ 1 <= k + 1 /\ k + 1 \in 1..Len(outbox)
                                    /\ outbox'[k] = outbox[k + 1]
  BY TakeFirst DEF FInv, OInv, TInv, RpcTypeOK
<1>2. \A k \in 1..Len(outbox) : 1 <= k
  BY Lengths DEF FInv, OInv
<1>3. \A j, k \in 1..Len(outbox') : j <= k => j + 1 <= k + 1
  BY <1>1
<1> QED
  BY <1>1, <1>2, <1>3 DEF FInv, Forward

LEMMA Delivered ==
  ASSUME FInv, Deliver
  PROVE  latest' \in {latest, Head(outbox).rev}
  BY DEF Deliver, Resolve

LEMMA NextForward == FInv /\ [Next]_vars => FInv'
<1> SUFFICES ASSUME FInv, [Next]_vars PROVE Forward'
  BY NextOrder DEF FInv
<1>0. TInv /\ revision \in Nat /\ revision' \in Nat
  <2>1. TInv /\ TInv'
    BY NextTyped DEF FInv, OInv
  <2>2. revision \in 0..MaxRevision /\ revision' \in 0..MaxRevision
    BY <2>1 DEF TInv, RpcTypeOK
  <2> QED
    BY <2>1, <2>2
<1>1. CASE UNCHANGED vars
  BY <1>1 DEF vars, authority, client, callers, FInv, Forward
<1>2. CASE Replay
  BY <1>2, NoReplay DEF FInv, Replay, Forward
<1>3. CASE Dispatch
  <2>1. revision' >= revision
    BY <1>0, <1>3 DEF Dispatch, Outcome
  <2> QED
    BY <1>0, <1>3, <2>1, ForwardCommit DEF Dispatch, callers
<1>4. CASE Reply
  BY <1>4, ForwardReply DEF Reply, Forward
<1>5. CASE Crash
  BY <1>5 DEF Crash, callers, FInv, Forward
<1>6. CASE OtherCommit
  <2>1. revision' >= revision
    BY <1>0, <1>6 DEF OtherCommit
  <2> QED
    BY <1>0, <1>6, <2>1, ForwardCommit DEF OtherCommit, callers
<1>7. CASE Deliver
  BY <1>7, Delivered, ForwardTake DEF Deliver
<1>8. CASE Fail
  BY <1>8 DEF Fail, authority, FInv, Forward
<1>9. CASE OtherReads
  BY <1>9 DEF OtherReads, Forward
<1>10. ASSUME NEW c \in Callers, AskStatus(c) \/ AskMutation(c) PROVE Forward'
  <2>1. PICK op \in {"status", "mutate"}, rev \in 0..MaxRevision : Ask(c, op, rev)
    BY <1>0, <1>10, Asking
  <2>2. UNCHANGED <<peer, outbox, revision, latest>>
    BY <2>1 DEF Ask
  <2> QED
    BY <2>2 DEF FInv, Forward
<1>11. ASSUME NEW c \in Callers, Timeout(c) PROVE Forward'
  BY <1>11 DEF Timeout, authority, FInv, Forward
<1>12. ASSUME NEW l \in OtherLines, OtherWrites(l) PROVE Forward'
  BY <1>12 DEF OtherWrites, Forward
<1>13. ASSUME NEW c \in Callers, TooLarge(c) PROVE Forward'
  BY <1>13 DEF TooLarge, authority, FInv, Forward
<1> QED
  BY <1>1, <1>2, <1>3, <1>4, <1>5, <1>6, <1>7, <1>8, <1>9, <1>10, <1>11, <1>12,
     <1>13 DEF Next, Serve

\* The context of the callers never goes back to an earlier revision, whatever
\* answers are late, lost or dropped.
THEOREM ContextForward == Spec => LatestForward
<1>1. Init => FInv
  BY InitOrder DEF Init, FInv, Forward
<1>2. FInv /\ [Next]_vars => (latest # None => latest' # None /\ latest' >= latest)
  <2> SUFFICES ASSUME FInv, [Next]_vars, latest # None PROVE latest' # None /\ latest' >= latest
    OBVIOUS
  <2>1. latest \in Nat
    BY Revisions DEF FInv, OInv
  <2>2. CASE Deliver
    <3>1. Head(outbox) = outbox[1] /\ 1 \in 1..Len(outbox)
      BY <2>2, TakeFirst DEF Deliver, FInv, OInv, TInv, RpcTypeOK
    <3>2. Head(outbox).rev \in Nat /\ latest <= Head(outbox).rev
      BY <2>2, <3>1, Revisions DEF Deliver, FInv, OInv, Forward
    <3> QED
      BY <2>1, <2>2, <3>2, Delivered, NoneAssumption
  <2>3. CASE latest' = latest
    BY <2>1, <2>3
  <2>4. Deliver \/ latest' = latest
    <3>1. ASSUME NEW c \in Callers, AskStatus(c) \/ AskMutation(c) PROVE latest' = latest
      BY <3>1, Asking DEF Ask, FInv, OInv
    <3> QED
      BY <3>1 DEF Next, Serve, vars, callers, Replay, Dispatch, Reply, Crash, OtherCommit, Fail,
                  OtherReads, Timeout, TooLarge, OtherWrites
  <2> QED
    BY <2>2, <2>3, <2>4
<1> QED
  BY <1>1, <1>2, NextForward, PTL DEF Spec, LatestForward

-----------------------------------------------------------------------------
(* What the cache remembers: the last lines that were carried out.         *)

\* The lines whose answer has been written.
Settled == Len(served) - (IF serving = None THEN 0 ELSE 1)

Window ==
  /\ serving # None => Len(served) >= 1 /\ serving.line = served[Len(served)]
  /\ server = "up" =>
       /\ Len(cache) = IF Settled <= CacheSize THEN Settled ELSE CacheSize
       /\ \A k \in 1..Len(cache) : cache[k].line = served[(Settled - Len(cache)) + k]

\* Two lines with one id are more than CacheSize lines apart.
Apart ==
  \A j, k \in 1..Len(served) : j < k /\ served[j].id = served[k].id => k > j + CacheSize

CarriedOut(l) == \E i \in 1..Len(served) : served[i] = l
OwnLines == \A k \in 1..Len(outbox) : outbox[k].outcome = "ok" => CarriedOut(outbox[k].line)

WInv == TInv /\ Window /\ Apart /\ OwnLines

LEMMA CachedWereServed ==
  ASSUME WInv, server = "up", NEW k \in 1..Len(cache)
  PROVE  /\ (Settled - Len(cache)) + k \in 1..Len(served)
         /\ cache[k].line = served[(Settled - Len(cache)) + k]
<1>1. Settled \in Nat /\ Settled <= Len(served)
  <2>1. CASE serving = None
    BY <2>1, Lengths DEF Settled, WInv
  <2>2. CASE serving # None
    BY <2>2, Lengths DEF Settled, WInv, Window
  <2> QED
    BY <2>1, <2>2
<1>2. Len(cache) <= Settled /\ Len(cache) \in Nat
  BY <1>1, Lengths DEF WInv, Window
<1> QED
  BY <1>1, <1>2, Lengths DEF WInv, Window

LEMMA WindowDispatch == ASSUME WInv, Dispatch PROVE Window' /\ Apart' /\ OwnLines'
<1> DEFINE n == Len(served)
<1>1. /\ Head(inbox) \in Line /\ server = "up" /\ serving = None /\ ~Known(Head(inbox))
      /\ UNCHANGED <<outbox, cache, server>>
  BY TakeFirst DEF Dispatch, WInv, TInv, RpcTypeOK
<1>2. /\ Len(served') = n + 1 /\ n \in Nat
      /\ \A k \in 1..n : served'[k] = served[k]
      /\ served'[n + 1] = Head(inbox)
  BY <1>1, AddLast DEF Dispatch, Served, WInv, TInv, RpcTypeOK
<1>3. serving' # None /\ serving'.line = Head(inbox)
  <2>1. PICK outcome \in {"ok", "error"} : serving' = [line |-> Head(inbox), outcome |-> outcome]
    BY DEF Dispatch
  <2>2. serving' \in Service
    BY <1>1, <2>1 DEF Service
  <2> QED
    BY <2>1, <2>2, NoServiceAssumption
<1>4. Settled = n /\ Settled' = n
  BY <1>1, <1>2, <1>3 DEF Settled
<1> HIDE DEF n
<1>5. Window'
  <2>1. \A k \in 1..Len(cache) : cache[k].line = served'[(n - Len(cache)) + k]
    BY <1>1, <1>2, <1>4, CachedWereServed DEF n
  <2>2. Len(cache) = IF n <= CacheSize THEN n ELSE CacheSize
    BY <1>1, <1>4 DEF WInv, Window
  <2> QED
    BY <1>1, <1>2, <1>3, <1>4, <2>1, <2>2 DEF Window
<1>6. Apart'
  <2> SUFFICES ASSUME NEW j \in 1..Len(served'), NEW k \in 1..Len(served'),
                      j < k, served'[j].id = served'[k].id
               PROVE  k > j + CacheSize
    BY DEF Apart
  <2>1. CASE k \in 1..n
    <3>1. j \in 1..n
      BY <1>2, <2>1
    <3> QED
      BY <1>2, <2>1, <3>1 DEF WInv, Apart, n
  <2>2. CASE k = n + 1
    <3>1. j \in 1..n /\ served[j].id = Head(inbox).id
      BY <1>2, <2>2
    <3>2. SUFFICES ASSUME k <= j + CacheSize PROVE FALSE
      BY <1>2, <2>2
    <3> DEFINE i == j - (n - Len(cache))
    <3>3. Len(cache) \in Nat /\ Len(cache) = IF n <= CacheSize THEN n ELSE CacheSize
      BY <1>1, <1>4, Lengths DEF WInv, Window
    <3>4. i \in 1..Len(cache) /\ (n - Len(cache)) + i = j
      BY <1>2, <2>2, <3>1, <3>2, <3>3
    <3> HIDE DEF i
    <3>5. cache[i].line = served[j]
      BY <1>1, <1>4, <3>4, CachedWereServed
    <3> QED
      BY <1>1, <3>1, <3>4, <3>5 DEF Known
  <2> QED
    BY <1>2, <2>1, <2>2
<1>7. OwnLines'
  <2>1. \A i \in 1..n : i \in 1..Len(served')
    BY <1>2
  <2> QED
    BY <1>1, <1>2, <2>1 DEF WInv, OwnLines, CarriedOut, n
<1> QED
  BY <1>5, <1>6, <1>7

LEMMA WindowReply == ASSUME WInv, Reply PROVE Window' /\ Apart' /\ OwnLines'
<1> DEFINE n == Len(served)
<1>1. /\ Answered \in Result /\ Answered.line = serving.line /\ server = "up" /\ serving # None
      /\ serving' = None /\ cache' = Remembered(cache, Answered)
      /\ UNCHANGED <<server, served>>
  BY AnsweredTyped DEF Reply, WInv, Answered
<1>2. /\ Len(outbox') = Len(outbox) + 1
      /\ \A k \in 1..Len(outbox) : outbox'[k] = outbox[k]
      /\ outbox'[Len(outbox) + 1] = Answered
  BY <1>1, AddLast DEF Reply, WInv, TInv, RpcTypeOK
<1>3. n \in Nat /\ n >= 1 /\ serving.line = served[n] /\ Settled = n - 1 /\ Settled' = n
  BY <1>1, Lengths DEF WInv, Window, Settled
<1>4. /\ Len(cache') = Len(cache) + 1 - Forgotten /\ Len(cache) \in Nat
      /\ \A k \in 1..(Len(cache) - Forgotten) :
           k + Forgotten \in 1..Len(cache) /\ cache'[k] = cache[k + Forgotten]
      /\ cache'[Len(cache) + 1 - Forgotten] = Answered
  BY <1>1, Remembering DEF WInv, TInv, RpcTypeOK
<1>5. /\ Len(cache) = IF n - 1 <= CacheSize THEN n - 1 ELSE CacheSize
      /\ \A k \in 1..Len(cache) : cache[k].line = served[((n - 1) - Len(cache)) + k]
  BY <1>1, <1>3 DEF WInv, Window
<1> HIDE DEF n
<1>6. Window'
  <2>1. Forgotten = IF Len(cache) < CacheSize THEN 0 ELSE 1
    BY DEF Forgotten
  <2>2. Len(cache') = IF n <= CacheSize THEN n ELSE CacheSize
    BY <1>3, <1>4, <1>5, <2>1
  <2>3. ASSUME NEW k \in 1..Len(cache')
        PROVE  cache'[k].line = served[(n - Len(cache')) + k]
    <3>1. CASE k = Len(cache')
      <4>1. (n - Len(cache')) + k = n /\ cache'[k] = Answered
        BY <1>3, <1>4, <2>1, <3>1
      <4> QED
        BY <1>1, <1>3, <4>1
    <3>2. CASE k # Len(cache')
      <4>1. /\ k \in 1..(Len(cache) - Forgotten)
            /\ (n - Len(cache')) + k = ((n - 1) - Len(cache)) + (k + Forgotten)
        <5>1. Forgotten \in {0, 1} /\ Len(cache') \in Nat
          BY <1>4, <2>1, SizesAssumption
        <5>2. k \in Nat /\ 1 <= k /\ k < Len(cache')
          BY <3>2, <5>1
        <5> QED
          BY <1>3, <1>4, <5>1, <5>2
      <4> QED
        BY <1>4, <1>5, <4>1
    <3> QED
      BY <3>1, <3>2
  <2> QED
    BY <1>1, <1>3, <2>2, <2>3 DEF Window
<1>7. Apart'
  BY <1>1 DEF WInv, Apart
<1>8. OwnLines'
  <2>1. \A k \in 1..Len(outbox') : k \in 1..Len(outbox) \/ k = Len(outbox) + 1
    BY <1>2, Lengths DEF WInv
  <2>2. CarriedOut(Answered.line)
    BY <1>1, <1>3 DEF CarriedOut, n
  <2> QED
    BY <1>1, <1>2, <2>1, <2>2 DEF WInv, OwnLines, CarriedOut
<1> QED
  BY <1>6, <1>7, <1>8

LEMMA WindowReplay == ASSUME WInv, Replay PROVE Window' /\ Apart' /\ OwnLines'
<1> DEFINE l == Head(inbox)
<1>1. PICK k \in 1..Len(cache) :
        outbox' = Append(outbox, IF Remembers(l, cache[k]) THEN [cache[k] EXCEPT !.line = l]
                                 ELSE [line |-> l, outcome |-> "error", rev |-> revision])
  BY DEF Replay
<1> DEFINE a == IF Remembers(l, cache[k]) THEN [cache[k] EXCEPT !.line = l]
                ELSE [line |-> l, outcome |-> "error", rev |-> revision]
<1>2. l \in Line /\ cache[k] \in Result /\ server = "up"
  BY TakeFirst, Lengths DEF Replay, WInv, TInv, RpcTypeOK
<1>3. a \in Result /\ a.line = l /\ (a.outcome = "ok" => cache[k].line = l)
  BY <1>2 DEF Result, Remembers, WInv, TInv, RpcTypeOK
<1> HIDE DEF a
<1>4. a.outcome = "ok" => CarriedOut(a.line)
  BY <1>2, <1>3, CachedWereServed DEF CarriedOut
<1>5. /\ Len(outbox') = Len(outbox) + 1
      /\ \A i \in 1..Len(outbox) : outbox'[i] = outbox[i]
      /\ outbox'[Len(outbox) + 1] = a
  BY <1>1, <1>3, AddLast DEF WInv, TInv, RpcTypeOK, a
<1>6. \A i \in 1..Len(outbox') : i \in 1..Len(outbox) \/ i = Len(outbox) + 1
  BY <1>5, Lengths DEF WInv
<1>7. UNCHANGED <<serving, cache, server, served>>
  BY DEF Replay
<1>8. OwnLines'
  BY <1>4, <1>5, <1>6, <1>7 DEF WInv, OwnLines, CarriedOut
<1> QED
  BY <1>7, <1>8 DEF WInv, Window, Apart, Settled

\* The answers are read, or the server ends.
LEMMA WindowTake ==
  ASSUME WInv, outbox # <<>>, outbox' = Tail(outbox), UNCHANGED <<serving, cache, server, served>>
  PROVE  Window' /\ Apart' /\ OwnLines'
<1>1. \A k \in 1..Len(outbox') : k + 1 \in 1..Len(outbox) /\ outbox'[k] = outbox[k + 1]
  BY TakeFirst DEF WInv, TInv, RpcTypeOK
<1> QED
  BY <1>1 DEF WInv, Window, Apart, OwnLines, CarriedOut, Settled

LEMMA WindowEnds ==
  ASSUME WInv, Ends, UNCHANGED <<outbox, served>>
  PROVE  Window' /\ Apart' /\ OwnLines'
  BY DEF Ends, WInv, Window, Apart, OwnLines, CarriedOut

LEMMA WindowStays ==
  ASSUME WInv, UNCHANGED <<serving, outbox, cache, server, served>>
  PROVE  Window' /\ Apart' /\ OwnLines'
  BY DEF WInv, Window, Apart, OwnLines, CarriedOut, Settled

LEMMA NextWindow == WInv /\ [Next]_vars => WInv'
<1> SUFFICES ASSUME WInv, [Next]_vars PROVE Window' /\ Apart' /\ OwnLines'
  BY NextTyped DEF WInv
<1>1. CASE UNCHANGED vars
  BY <1>1, WindowStays DEF vars, authority
<1>2. CASE Crash \/ Fail
  BY <1>2, WindowEnds, WindowStays DEF Crash, Fail, authority
<1>3. CASE OtherCommit
  BY <1>3, WindowStays DEF OtherCommit
<1>4. CASE Deliver
  BY <1>4, WindowTake DEF Deliver
<1>5. CASE OtherReads
  BY <1>5, WindowTake DEF OtherReads
<1>6. ASSUME NEW c \in Callers, AskStatus(c) \/ AskMutation(c) PROVE Window' /\ Apart' /\ OwnLines'
  <2>1. PICK op \in {"status", "mutate"}, rev \in 0..MaxRevision : Ask(c, op, rev)
    BY <1>6, Asking DEF WInv
  <2> QED
    BY <2>1, WindowStays DEF Ask
<1>7. ASSUME NEW c \in Callers, Timeout(c) PROVE Window' /\ Apart' /\ OwnLines'
  BY <1>7, WindowStays DEF Timeout, authority
<1>8. ASSUME NEW l \in OtherLines, OtherWrites(l) PROVE Window' /\ Apart' /\ OwnLines'
  BY <1>8, WindowStays DEF OtherWrites
<1>9. ASSUME NEW c \in Callers, TooLarge(c) PROVE Window' /\ Apart' /\ OwnLines'
  BY <1>9, WindowStays DEF TooLarge, authority
<1> QED
  BY <1>1, <1>2, <1>3, <1>4, <1>5, <1>6, <1>7, <1>8, <1>9, WindowReplay, WindowDispatch, WindowReply
     DEF Next, Serve

LEMMA InitWindow == Init => WInv
  BY InitTyped DEF Init, WInv, Window, Apart, OwnLines, Settled

\* The CacheSize lines before the second of two lines with one id all have
\* different ids.
LEMMA ApartRunsOnce == WInv => RunsOnce
<1> SUFFICES ASSUME WInv, NEW j \in 1..Len(served), NEW k \in 1..Len(served),
                    j < k, served[j].id = served[k].id
             PROVE  Cardinality({served[i].id : i \in (j + 1)..(k - 1)}) >= CacheSize
  BY DEF RunsOnce
<1> DEFINE T == {served[i].id : i \in (j + 1)..(k - 1)}
           M == (k - CacheSize)..(k - 1)
           f == [i \in M |-> served[i].id]
<1>1. Len(served) \in Nat /\ CacheSize \in Nat /\ k > j + CacheSize
  BY Lengths DEF WInv, Apart
<1>2. \A i \in (j + 1)..(k - 1) : i \in 1..Len(served) /\ served[i].id \in 1..MaxLines
  <2>1. \A i \in (j + 1)..(k - 1) : i \in 1..Len(served)
    BY <1>1
  <2>2. \A l \in Line : l.id \in 1..MaxLines
    BY DEF Line
  <2> QED
    BY <2>1, <2>2, Lengths DEF WInv
<1>3. M \subseteq (j + 1)..(k - 1)
  BY <1>1
<1>4. IsFiniteSet(T) /\ Cardinality(T) \in Nat
  <2>1. IsFiniteSet(1..MaxLines)
    BY FS_Interval
  <2>2. T \in SUBSET (1..MaxLines)
    BY <1>2
  <2> HIDE DEF T
  <2> QED
    BY <2>1, <2>2, FS_Subset, FS_CardinalityType
<1>5. Cardinality(M) = CacheSize
  <2>1. k - CacheSize \in Int /\ k - 1 \in Int
    BY <1>1
  <2>2. Cardinality(M) = IF k - CacheSize > k - 1 THEN 0 ELSE (k - 1) - (k - CacheSize) + 1
    BY <2>1, FS_Interval
  <2> HIDE DEF M
  <2> QED
    BY <1>1, <2>2
<1>6. f \in Injection(M, T)
  <2>1. f \in [M -> T]
    BY <1>3
  <2>2. ASSUME NEW a \in M, NEW b \in M, f[a] = f[b] PROVE a = b
    <3>1. a \in 1..Len(served) /\ b \in 1..Len(served) /\ served[a].id = served[b].id
      BY <1>2, <1>3, <2>2
    <3>2. ~(a < b) /\ ~(b < a)
      BY <1>1, <3>1 DEF WInv, Apart
    <3> QED
      BY <1>1, <3>1, <3>2
  <2> HIDE DEF f, M, T
  <2> QED
    BY <2>1, <2>2 DEF Injection, IsInjective
<1> HIDE DEF f, M, T
<1>7. Cardinality(M) <= Cardinality(T)
  BY <1>4, <1>6, FS_Injection
<1>8. Cardinality(T) >= CacheSize
  BY <1>1, <1>4, <1>5, <1>7
<1> QED
  BY <1>8 DEF T

\* A request is not carried out twice while fewer than CacheSize others have
\* been carried out in between, whoever writes the lines.
THEOREM LinesRunOnce == Spec => []RunsOnce
  BY InitWindow, NextWindow, ApartRunsOnce, PTL DEF Spec

\* Nobody is granted what somebody else asked under the same id.
THEOREM AnswersBelong == Spec => []AnswersOwnLine
<1>1. WInv => AnswersOwnLine
  BY DEF WInv, OwnLines, CarriedOut, AnswersOwnLine
<1> QED
  BY <1>1, InitWindow, NextWindow, PTL DEF Spec

-----------------------------------------------------------------------------
(* The requests of the plugin are remote calls.                            *)

\* How far a request is, and how often it has been carried out.
Stat(i) == IF i >= nextID THEN "new" ELSE IF i \in pending THEN "open"
           ELSE IF i \in heard THEN "answered" ELSE "given up"
Count(i) == IF peer = "other" THEN 0
            ELSE Cardinality({k \in 1..Len(served) : served[k].id = i})

LEMMA CountOne ==
  ASSUME peer = "plugin", Len(served) \in Nat, \A k \in 1..Len(served) : served[k].id = k,
         NEW i \in Ids
  PROVE  Count(i) = IF i <= Len(served) THEN 1 ELSE 0
<1> DEFINE S == {k \in 1..Len(served) : served[k].id = i}
<1>1. Count(i) = Cardinality(S)
  BY DEF Count
<1>2. CASE i <= Len(served)
  <2>1. S = {i}
    BY <1>2
  <2> QED
    BY <1>1, <1>2, <2>1, FS_Singleton
<1>3. CASE ~(i <= Len(served))
  <2>1. S = {}
    BY <1>3
  <2> QED
    BY <1>1, <1>3, <2>1, FS_EmptySet
<1> QED
  BY <1>2, <1>3

LEMMA CountOneNext ==
  ASSUME peer' = "plugin", Len(served') \in Nat, \A k \in 1..Len(served') : served'[k].id = k,
         NEW i \in Ids
  PROVE  Count(i)' = IF i <= Len(served') THEN 1 ELSE 0
<1> DEFINE S == {k \in 1..Len(served') : served'[k].id = i}
<1>1. Count(i)' = Cardinality(S)
  BY DEF Count
<1>2. CASE i <= Len(served')
  <2>1. S = {i}
    BY <1>2
  <2> QED
    BY <1>1, <1>2, <2>1, FS_Singleton
<1>3. CASE ~(i <= Len(served'))
  <2>1. S = {}
    BY <1>3
  <2> QED
    BY <1>1, <1>3, <2>1, FS_EmptySet
<1> QED
  BY <1>2, <1>3

\* The steps of RemoteCall, in terms of one request at a time.
LEMMA AsInvoke ==
  ASSUME NEW i \in Ids, Stat(i) = "new", Stat(i)' = "open",
         \A j \in Ids : j # i => Stat(j)' = Stat(j),
         \A j \in Ids : Count(j)' = Count(j)
  PROVE  [Remote!Next]_(Remote!vars)
<1>1. Remote!Invoke(i)
  BY DEF Remote!Invoke, Stat, Count
<1> QED
  BY <1>1 DEF Remote!Next

LEMMA AsRun ==
  ASSUME NEW i \in Ids, Stat(i) \in {"open", "given up"}, Count(i) = 0, Count(i)' = 1,
         \A j \in Ids : j # i => Count(j)' = Count(j),
         \A j \in Ids : Stat(j)' = Stat(j)
  PROVE  [Remote!Next]_(Remote!vars)
<1>1. Remote!Run(i)
  BY DEF Remote!Run, Stat, Count
<1> QED
  BY <1>1 DEF Remote!Next

LEMMA AsAnswer ==
  ASSUME NEW i \in Ids, Stat(i) = "open", Count(i) = 1, Stat(i)' = "answered",
         \A j \in Ids : j # i => Stat(j)' = Stat(j),
         \A j \in Ids : Count(j)' = Count(j)
  PROVE  [Remote!Next]_(Remote!vars)
<1>1. Remote!Answer(i)
  BY DEF Remote!Answer, Stat, Count
<1> QED
  BY <1>1 DEF Remote!Next

LEMMA AsGiveUp ==
  ASSUME NEW S \in SUBSET Ids, S # {}, \A i \in S : Stat(i) = "open",
         \A j \in Ids : Stat(j)' = IF j \in S THEN "given up" ELSE Stat(j),
         \A j \in Ids : Count(j)' = Count(j)
  PROVE  [Remote!Next]_(Remote!vars)
<1>1. Remote!GiveUp(S)
  BY DEF Remote!GiveUp, Stat, Count
<1> QED
  BY <1>1 DEF Remote!Next

LEMMA AsStutter ==
  ASSUME \A j \in Ids : Stat(j)' = Stat(j) /\ Count(j)' = Count(j)
  PROVE  [Remote!Next]_(Remote!vars)
<1>1. UNCHANGED Remote!vars
  BY DEF Remote!vars, Stat, Count
<1> QED
  BY <1>1

LEMMA CallSame ==
  ASSUME UNCHANGED <<peer, served, nextID, pending, heard>>
  PROVE  [Remote!Next]_(Remote!vars)
<1>1. \A j \in Ids : Stat(j)' = Stat(j) /\ Count(j)' = Count(j)
  BY DEF Stat, Count
<1> QED
  BY <1>1, AsStutter

LEMMA CallDispatch == ASSUME OInv, OInv', Dispatch PROVE [Remote!Next]_(Remote!vars)
<1>1. UNCHANGED <<peer, nextID, pending, heard, written>> /\ peer \in {"plugin", "other"}
  BY DEF Dispatch, client, OInv, TInv, RpcTypeOK
<1>2. \A j \in Ids : Stat(j)' = Stat(j)
  BY <1>1 DEF Stat
<1>3. CASE peer = "other"
  <2>1. \A j \in Ids : Count(j)' = Count(j)
    BY <1>1, <1>3 DEF Count
  <2> QED
    BY <1>2, <2>1, AsStutter
<1>4. CASE peer = "plugin"
  <2>1. Len(served') = Len(served) + 1 /\ Len(served) \in Nat
    <3>1. Head(inbox) \in Line
      BY TakeFirst DEF Dispatch, OInv, TInv, RpcTypeOK
    <3> QED
      BY <3>1, AddLast DEF Dispatch, Served, OInv, TInv, RpcTypeOK
  <2>2. /\ Len(served) + 1 <= written /\ written \in 0..MaxLines /\ nextID = written + 1
        /\ Len(served) + 1 \notin heard
    BY <1>1, <1>4, <2>1 DEF OInv, Order, TInv, RpcTypeOK, Sides
  <2>3. PICK n \in Ids : n = Len(served) + 1 /\ ~(n >= nextID) /\ n \notin heard
    BY <2>1, <2>2
  <2>4. \A k \in 1..Len(served) : served[k].id = k
    BY <1>4 DEF OInv, Order
  <2>5. \A k \in 1..Len(served') : served'[k].id = k
    BY <1>1, <1>4 DEF OInv, Order
  <2>6. \A j \in Ids : Count(j) = IF j <= Len(served) THEN 1 ELSE 0
    BY <1>4, <2>1, <2>4, CountOne
  <2>7. \A j \in Ids : Count(j)' = IF j <= n THEN 1 ELSE 0
    BY <1>1, <1>4, <2>1, <2>3, <2>5, CountOneNext
  <2>8. Stat(n) \in {"open", "given up"}
    BY <2>3 DEF Stat
  <2>9. Count(n) = 0 /\ Count(n)' = 1 /\ \A j \in Ids : j # n => Count(j)' = Count(j)
    BY <2>1, <2>3, <2>6, <2>7
  <2> QED
    BY <1>2, <2>3, <2>8, <2>9, AsRun
<1> QED
  BY <1>1, <1>3, <1>4

LEMMA CallAsk ==
  ASSUME OInv, peer = "plugin", NEW c \in Callers, NEW op \in {"status", "mutate"},
         NEW rev \in 0..MaxRevision, Ask(c, op, rev)
  PROVE  [Remote!Next]_(Remote!vars)
<1>1. /\ nextID = written + 1 /\ written < MaxLines /\ written \in Nat
      /\ pending' = pending \cup {nextID} /\ nextID' = nextID + 1
      /\ UNCHANGED <<peer, served, heard>>
  BY Lengths DEF Ask, Write, NewId, OInv, TInv, Sides
<1>2. PICK i \in Ids : i = nextID /\ i \in Nat
  BY <1>1
<1>3. Stat(i) = "new" /\ Stat(i)' = "open"
  BY <1>1, <1>2 DEF Stat
<1>4. \A j \in Ids : j # i => Stat(j)' = Stat(j)
  <2>1. \A j \in Ids : j # i => (j >= nextID' <=> j >= nextID)
    BY <1>1, <1>2
  <2>2. \A j \in Ids : j # i => (j \in pending' <=> j \in pending)
    BY <1>1, <1>2
  <2> QED
    BY <1>1, <2>1, <2>2 DEF Stat
<1>5. \A j \in Ids : Count(j)' = Count(j)
  BY <1>1 DEF Count
<1> QED
  BY <1>2, <1>3, <1>4, <1>5, AsInvoke

LEMMA CallDeliver == ASSUME OInv, Deliver PROVE [Remote!Next]_(Remote!vars)
<1>1. UNCHANGED <<peer, served, nextID>> /\ peer = "plugin"
  BY DEF Deliver
<1>2. CASE Head(outbox).line.id \in pending
  <2>1. PICK i \in Ids : i = Head(outbox).line.id /\ i \in pending
    BY <1>2 DEF OInv, TInv, RpcTypeOK
  <2>2. pending' = pending \ {i} /\ heard' = heard \cup {i}
    BY <1>2, <2>1 DEF Deliver
  <2>3. i <= Len(served)
    BY <1>1, <2>1, TakeFirst, Lengths DEF Deliver, OInv, TInv, RpcTypeOK, Order
  <2>4. i <= written /\ i \notin heard /\ nextID = written + 1
    BY <1>1, <2>1 DEF OInv, TInv, RpcTypeOK, Order, Sides
  <2>5. ~(i >= nextID)
    BY <2>4, Lengths DEF OInv
  <2>6. Stat(i) = "open" /\ Stat(i)' = "answered"
    BY <1>1, <2>1, <2>2, <2>5 DEF Stat
  <2>7. \A j \in Ids : j # i => Stat(j)' = Stat(j)
    BY <1>1, <2>2 DEF Stat
  <2>8. Count(i) = 1
    BY <1>1, <2>3, CountOne, Lengths DEF OInv, Order
  <2>9. \A j \in Ids : Count(j)' = Count(j)
    BY <1>1 DEF Count
  <2> QED
    BY <2>6, <2>7, <2>8, <2>9, AsAnswer
<1>3. CASE Head(outbox).line.id \notin pending
  BY <1>1, <1>3, CallSame DEF Deliver
<1> QED
  BY <1>2, <1>3

LEMMA CallGiveUp ==
  ASSUME OInv, peer = "plugin", NEW S \in SUBSET pending, pending' = pending \ S,
         UNCHANGED <<peer, served, nextID, heard>>
  PROVE  [Remote!Next]_(Remote!vars)
<1>1. CASE S = {}
  BY <1>1, CallSame
<1>2. CASE S # {}
  <2>1. \A i \in S : i \in Ids /\ i \in pending /\ i \notin heard /\ ~(i >= nextID)
    BY Lengths DEF OInv, TInv, RpcTypeOK, Order, Sides
  <2>2. \A i \in S : Stat(i) = "open"
    BY <2>1 DEF Stat
  <2>3. \A j \in Ids : Stat(j)' = IF j \in S THEN "given up" ELSE Stat(j)
    BY <2>1 DEF Stat
  <2>4. \A j \in Ids : Count(j)' = Count(j)
    BY DEF Count
  <2> QED
    BY <1>2, <2>1, <2>2, <2>3, <2>4, AsGiveUp
<1> QED
  BY <1>1, <1>2

LEMMA CallStep == ASSUME OInv, [Next]_vars PROVE [Remote!Next]_(Remote!vars)
<1>1. CASE UNCHANGED vars
  BY <1>1, CallSame DEF vars, authority, client
<1>2. CASE Replay
  BY <1>2, CallSame DEF Replay, client
<1>3. CASE Dispatch
  BY <1>3, NextOrder, CallDispatch
<1>4. CASE Reply
  BY <1>4, CallSame DEF Reply, client
<1>5. CASE Crash
  BY <1>5, CallSame DEF Crash, client
<1>6. CASE OtherCommit
  BY <1>6, CallSame DEF OtherCommit, client
<1>7. CASE Deliver
  BY <1>7, CallDeliver
<1>8. CASE Fail
  <2>1. pending' = pending \ pending /\ peer = "plugin" /\ UNCHANGED <<peer, served, nextID, heard>>
    BY <1>8 DEF Fail, authority
  <2> QED
    BY <2>1, CallGiveUp
<1>9. CASE OtherReads
  BY <1>9, CallSame DEF OtherReads, client
<1>10. ASSUME NEW c \in Callers, AskStatus(c) \/ AskMutation(c) PROVE [Remote!Next]_(Remote!vars)
  <2>1. /\ peer = "plugin"
        /\ \E op \in {"status", "mutate"}, rev \in 0..MaxRevision : Ask(c, op, rev)
    BY <1>10, Asking DEF OInv
  <2> QED
    BY <2>1, CallAsk
<1>11. ASSUME NEW c \in Callers, Timeout(c) PROVE [Remote!Next]_(Remote!vars)
  <2>1. /\ pending' = pending \ {asked[c]} /\ {asked[c]} \in SUBSET pending
        /\ UNCHANGED <<peer, served, nextID, heard>>
    BY <1>11 DEF Timeout, authority
  <2>2. peer = "plugin"
    BY <1>11 DEF Timeout, OInv, TInv, RpcTypeOK, Sides
  <2> QED
    BY <2>1, <2>2, CallGiveUp
<1>12. ASSUME NEW l \in OtherLines, OtherWrites(l) PROVE [Remote!Next]_(Remote!vars)
  BY <1>12, CallSame DEF OtherWrites, client
<1>13. ASSUME NEW c \in Callers, TooLarge(c) PROVE [Remote!Next]_(Remote!vars)
  BY <1>13, CallSame DEF TooLarge, authority, client
<1> QED
  BY <1>1, <1>2, <1>3, <1>4, <1>5, <1>6, <1>7, <1>8, <1>9, <1>10, <1>11, <1>12,
     <1>13 DEF Next, Serve

\* Every request of the plugin is carried out at most once, given up or not,
\* and an answer that reaches a caller is to a request that was carried out.
THEOREM CallsImplemented == Spec => KeepsCall
<1>1. Init => Remote!Init
  <2> SUFFICES ASSUME Init PROVE Remote!Init
    OBVIOUS
  <2>1. \A i \in Ids : Stat(i) = "new"
    BY DEF Init, Stat
  <2>2. \A i \in Ids : Count(i) = 0
    <3>1. {k \in 1..Len(served) : served[k].id = 0} = {} /\ Len(served) = 0
      BY DEF Init
    <3>2. \A i \in Ids : {k \in 1..Len(served) : served[k].id = i} = {}
      BY <3>1
    <3> QED
      BY <3>2, FS_EmptySet DEF Count
  <2> QED
    BY <2>1, <2>2 DEF Remote!Init, Stat, Count
<1> QED
  BY <1>1, InitOrder, NextOrder, CallStep, PTL DEF Spec, KeepsCall, Remote!Spec
-----------------------------------------------------------------------------
(* What a caller waits for.                                                *)

Waiting(c) == stage[c] \in {"status", "mutate"}

\* Every caller that waits has a timer of its own, and every timer belongs to
\* a caller that waits: a promise is neither left without one nor shared.
OneTimerEach ==
  /\ \A c \in Callers : Waiting(c) => asked[c] \in pending
  /\ \A c, d \in Callers : Waiting(c) /\ Waiting(d) /\ asked[c] = asked[d] => c = d
  /\ \A i \in pending : \E c \in Callers : Waiting(c) /\ asked[c] = i

\* A line that is on its way, to the authority or back.
OnItsWay(l) ==
  \/ \E k \in 1..Len(inbox) : inbox[k] = l
  \/ serving # None /\ serving.line = l
  \/ \E k \in 1..Len(outbox) : outbox[k].line = l

\* Whatever is on its way under the id a caller waits for is what that caller
\* asked: a status never settles a mutation, nor a mutation a status.
AnswersFit ==
  \A c \in Callers, l \in Line : Waiting(c) /\ OnItsWay(l) /\ l.id = asked[c] => l.op = stage[c]

PInv == OInv /\ OneTimerEach /\ AnswersFit

LEMMA OtherNeverWaits == ASSUME TInv, peer = "other" PROVE OneTimerEach /\ AnswersFit
  BY DEF TInv, Sides, OneTimerEach, AnswersFit, Waiting

\* Nobody begins to wait, and nothing new is on its way.
LEMMA FitStays ==
  ASSUME PInv,
         \A c \in Callers : Waiting(c)' => Waiting(c) /\ asked'[c] = asked[c] /\ stage'[c] = stage[c],
         \A l \in Line : OnItsWay(l)' => OnItsWay(l)
  PROVE  AnswersFit'
  BY DEF PInv, AnswersFit

LEMMA TimersStay ==
  ASSUME PInv, UNCHANGED <<stage, asked, pending>>
  PROVE  OneTimerEach'
  BY DEF PInv, OneTimerEach, Waiting

\* The caller stops waiting as its timer is cleared.
LEMMA TimerCleared ==
  ASSUME PInv, NEW c \in Callers, Waiting(c), ~Waiting(c)', pending' = pending \ {asked[c]},
         asked' = asked, \A d \in Callers : d # c => stage'[d] = stage[d]
  PROVE  OneTimerEach'
<1>1. \A d \in Callers : Waiting(d)' <=> d # c /\ Waiting(d)
  BY DEF Waiting
<1>2. \A d \in Callers : Waiting(d)' => asked'[d] \in pending'
  BY <1>1 DEF PInv, OneTimerEach
<1>3. \A d, e \in Callers : Waiting(d)' /\ Waiting(e)' /\ asked'[d] = asked'[e] => d = e
  BY <1>1 DEF PInv, OneTimerEach
<1>4. \A i \in pending' : \E d \in Callers : Waiting(d)' /\ asked'[d] = i
  BY <1>1 DEF PInv, OneTimerEach
<1> QED
  BY <1>2, <1>3, <1>4 DEF OneTimerEach, Waiting

LEMMA PairDispatch == ASSUME PInv, Dispatch PROVE OneTimerEach' /\ AnswersFit'
<1>1. UNCHANGED <<outbox, stage, asked, pending>>
  BY DEF Dispatch, client, callers
<1>2. /\ Head(inbox) = inbox[1] /\ 1 \in 1..Len(inbox) /\ inbox' = Tail(inbox)
      /\ \A k \in 1..Len(inbox') : k + 1 \in 1..Len(inbox) /\ inbox'[k] = inbox[k + 1]
  BY TakeFirst DEF Dispatch, PInv, OInv, TInv, RpcTypeOK
<1>3. serving' # None /\ serving'.line = inbox[1]
  <2>1. PICK outcome \in {"ok", "error"} : serving' = [line |-> Head(inbox), outcome |-> outcome]
    BY DEF Dispatch
  <2>2. Head(inbox) \in Line
    BY TakeFirst DEF Dispatch, PInv, OInv, TInv, RpcTypeOK
  <2> QED
    BY <1>2, <2>1, <2>2, NoServiceAssumption DEF Service
<1>4. \A l \in Line : OnItsWay(l)' => OnItsWay(l)
  BY <1>1, <1>2, <1>3 DEF OnItsWay
<1> QED
  BY <1>1, <1>4, FitStays, TimersStay DEF Waiting

LEMMA PairReply == ASSUME PInv, Reply PROVE OneTimerEach' /\ AnswersFit'
<1>1. UNCHANGED <<inbox, stage, asked, pending>> /\ serving # None /\ serving' = None
  BY DEF Reply, client, callers
<1> DEFINE a == Answered
<1>2. a \in Result /\ a.line = serving.line
  BY <1>1, AnsweredTyped DEF Answered, PInv, OInv
<1> HIDE DEF a
<1>3. /\ Len(outbox') = Len(outbox) + 1 /\ Len(outbox) \in Nat
      /\ \A k \in 1..Len(outbox) : outbox'[k] = outbox[k]
      /\ outbox'[Len(outbox) + 1] = a
  BY <1>2, AddLast DEF Reply, PInv, OInv, TInv, RpcTypeOK, a
<1>4. \A k \in 1..Len(outbox') : k \in 1..Len(outbox) \/ k = Len(outbox) + 1
  BY <1>3
<1>5. \A l \in Line : OnItsWay(l)' => OnItsWay(l)
  BY <1>1, <1>2, <1>3, <1>4 DEF OnItsWay
<1> QED
  BY <1>1, <1>5, FitStays, TimersStay DEF Waiting

LEMMA PairAsk ==
  ASSUME PInv, peer = "plugin", NEW c \in Callers, NEW op \in {"status", "mutate"},
         NEW rev \in 0..MaxRevision, Ask(c, op, rev), ~Waiting(c)
  PROVE  OneTimerEach' /\ AnswersFit'
<1> DEFINE l == [id |-> NewId, op |-> op, rev |-> rev]
<1>1. written < MaxLines /\ NewId = written + 1 /\ written \in Nat
  BY Lengths DEF Ask, Write, NewId, PInv, OInv, TInv, Sides
<1>2. l \in Line /\ l.id = written + 1 /\ l.op = op
  BY <1>1 DEF Line
<1> HIDE DEF l
<1>3. inbox' = IF server = "up" THEN Append(inbox, l) ELSE inbox
  BY DEF Ask, Write, l
<1>4. /\ pending' = pending \cup {written + 1}
      /\ asked' = [asked EXCEPT ![c] = written + 1] /\ stage' = [stage EXCEPT ![c] = op]
      /\ UNCHANGED <<serving, outbox>>
  BY <1>1 DEF Ask
<1>5. /\ asked'[c] = written + 1 /\ stage'[c] = op
      /\ \A d \in Callers : d # c => asked'[d] = asked[d] /\ stage'[d] = stage[d]
  BY <1>4 DEF PInv, OInv, TInv, RpcTypeOK
<1>6. \A i \in pending : i # written + 1
  BY <1>1 DEF PInv, OInv, TInv, RpcTypeOK, Order
<1>7. Waiting(c)' /\ \A d \in Callers : d # c => (Waiting(d)' <=> Waiting(d))
  BY <1>5 DEF Waiting
<1>8. \A d \in Callers : d # c /\ Waiting(d) => asked[d] # written + 1
  BY <1>6 DEF PInv, OneTimerEach
<1>9. OneTimerEach'
  <2>1. \A d \in Callers : Waiting(d)' => asked'[d] \in pending'
    BY <1>4, <1>5, <1>7 DEF PInv, OneTimerEach
  <2>2. \A d, e \in Callers : Waiting(d)' /\ Waiting(e)' /\ asked'[d] = asked'[e] => d = e
    BY <1>5, <1>7, <1>8 DEF PInv, OneTimerEach
  <2>3. \A i \in pending' : \E d \in Callers : Waiting(d)' /\ asked'[d] = i
    <3>1. ASSUME NEW i \in pending PROVE \E d \in Callers : Waiting(d)' /\ asked'[d] = i
      <4>1. PICK d \in Callers : Waiting(d) /\ asked[d] = i
        BY <3>1 DEF PInv, OneTimerEach
      <4> QED
        BY <1>5, <1>7, <4>1
    <3> QED
      BY <1>4, <1>5, <1>7, <3>1
  <2> QED
    BY <2>1, <2>2, <2>3 DEF OneTimerEach, Waiting
<1>10. \A m \in Line : OnItsWay(m)' => OnItsWay(m) \/ m = l
  <2>1. CASE server = "up"
    <3>1. /\ Len(inbox') = Len(inbox) + 1 /\ Len(inbox) \in Nat
          /\ \A k \in 1..Len(inbox) : inbox'[k] = inbox[k]
          /\ inbox'[Len(inbox) + 1] = l
      BY <1>2, <1>3, <2>1, AddLast DEF PInv, OInv, TInv, RpcTypeOK
    <3>2. \A k \in 1..Len(inbox') : k \in 1..Len(inbox) \/ k = Len(inbox) + 1
      BY <3>1
    <3> QED
      BY <1>4, <3>1, <3>2 DEF OnItsWay
  <2>2. CASE server # "up"
    BY <1>3, <1>4, <2>2 DEF OnItsWay
  <2> QED
    BY <2>1, <2>2
<1>11. \A m \in Line : OnItsWay(m) => m.id \in Nat /\ m.id <= written
  <2>1. \A m \in Line : m.id \in Nat
    BY DEF Line
  <2>2. /\ Len(served) \in Nat /\ Len(inbox) \in Nat /\ Len(served) <= written
        /\ \A k \in 1..Len(inbox) : inbox[k].id = Len(served) + k
        /\ \A k \in 1..Len(outbox) : outbox[k].line.id <= Len(served)
        /\ serving # None => serving.line.id <= Len(served)
    BY Lengths DEF PInv, OInv, Order
  <2>3. \A k \in 1..Len(inbox) : Len(served) + k <= written
    <3>1. CASE server = "up"
      BY <3>1, <2>2 DEF PInv, OInv, Order
    <3>2. CASE server # "up"
      <4>1. Len(inbox) = 0
        BY <3>2 DEF PInv, OInv, TInv, RpcTypeOK, Sides
      <4> QED
        BY <4>1
    <3> QED
      BY <3>1, <3>2
  <2>4. \A k \in 1..Len(inbox) : inbox[k].id <= written
    BY <2>2, <2>3
  <2>5. \A m \in Line : (m.id <= Len(served)) => m.id <= written
    BY <1>1, <2>1, <2>2
  <2> QED
    BY <2>1, <2>2, <2>4, <2>5 DEF OnItsWay
<1>12. ASSUME NEW d \in Callers, NEW m \in Line, Waiting(d)', OnItsWay(m)', m.id = asked'[d]
       PROVE  m.op = stage'[d]
  <2>1. CASE d = c
    <3>1. m = l
      BY <1>1, <1>5, <1>10, <1>11, <1>12, <2>1
    <3> QED
      BY <1>2, <1>5, <2>1, <3>1
  <2>2. CASE d # c
    <3>1. Waiting(d) /\ asked'[d] = asked[d] /\ stage'[d] = stage[d] /\ m # l
      BY <1>2, <1>5, <1>7, <1>8, <1>12, <2>2
    <3> QED
      BY <1>10, <1>12, <3>1 DEF PInv, AnswersFit
  <2> QED
    BY <2>1, <2>2
<1> QED
  BY <1>9, <1>12 DEF AnswersFit

LEMMA PairDeliver == ASSUME PInv, Deliver PROVE OneTimerEach' /\ AnswersFit'
<1> DEFINE a == Head(outbox)
<1>1. /\ \A k \in 1..Len(outbox') : k + 1 \in 1..Len(outbox) /\ outbox'[k] = outbox[k + 1]
      /\ UNCHANGED <<inbox, serving, asked>>
  BY TakeFirst DEF Deliver, PInv, OInv, TInv, RpcTypeOK
<1>2. \A l \in Line : OnItsWay(l)' => OnItsWay(l)
  BY <1>1 DEF OnItsWay
<1>3. CASE a.line.id \in pending
  <2>1. PICK c \in Callers : asked[c] = a.line.id /\ stage[c] \in {"status", "mutate"} /\ Resolve(c, a)
    BY <1>3 DEF Deliver
  <2>2. pending' = pending \ {asked[c]}
    BY <1>3, <2>1 DEF Deliver
  <2> HIDE DEF a
  <2>3. stage'[c] \in {"bound", "idle"} /\ \A d \in Callers : d # c => stage'[d] = stage[d]
    BY <2>1 DEF Resolve, PInv, OInv, TInv, RpcTypeOK
  <2>4. Waiting(c) /\ ~Waiting(c)'
    BY <2>1, <2>3 DEF Waiting
  <2>5. \A d \in Callers : Waiting(d)' => Waiting(d) /\ stage'[d] = stage[d]
    BY <2>3, <2>4 DEF Waiting
  <2> QED
    BY <1>1, <1>2, <2>2, <2>3, <2>4, <2>5, TimerCleared, FitStays
<1>4. CASE a.line.id \notin pending
  <2>1. UNCHANGED <<pending, stage>>
    BY <1>4 DEF Deliver
  <2> QED
    BY <1>1, <1>2, <2>1, FitStays, TimersStay DEF Waiting
<1> QED
  BY <1>3, <1>4

LEMMA NextPaired == PInv /\ [Next]_vars => PInv'
<1> SUFFICES ASSUME PInv, [Next]_vars PROVE OneTimerEach' /\ AnswersFit'
  BY NextOrder DEF PInv
<1>1. OInv' /\ (peer' = "other" => OneTimerEach' /\ AnswersFit')
  <2>1. OInv'
    BY NextOrder DEF PInv
  <2>2. peer' = "other" => pending' = {} /\ \A c \in Callers : ~Waiting(c)'
    BY <2>1 DEF OInv, TInv, Sides, Waiting
  <2> QED
    BY <2>1, <2>2 DEF OneTimerEach, AnswersFit
<1>2. CASE UNCHANGED vars
  BY <1>2, FitStays, TimersStay DEF vars, authority, client, callers, Waiting, OnItsWay
<1>3. CASE Replay
  BY <1>1, <1>3, NoReplay DEF Replay, PInv
<1>4. CASE Dispatch \/ Reply \/ Deliver
  BY <1>4, PairDispatch, PairReply, PairDeliver
<1>5. CASE Crash
  <2>1. Len(inbox') = 0 /\ serving' = None /\ UNCHANGED <<outbox, stage, asked, pending>>
    BY <1>5, Ended DEF Crash, Ends, client, callers
  <2>2. \A l \in Line : OnItsWay(l)' => OnItsWay(l)
    BY <2>1 DEF OnItsWay
  <2> QED
    BY <2>1, <2>2, FitStays, TimersStay DEF Waiting
<1>6. CASE OtherCommit
  BY <1>6, FitStays, TimersStay DEF OtherCommit, client, callers, Waiting, OnItsWay
<1>7. CASE Fail
  <2>1. pending' = {} /\ asked' = asked /\ \A c \in Callers : ~Waiting(c)'
    BY <1>7 DEF Fail, Waiting
  <2>2. UNCHANGED <<inbox, serving, outbox>>
    BY <1>7 DEF Fail, authority
  <2> QED
    BY <2>1, <2>2, FitStays DEF OneTimerEach, OnItsWay, Waiting
<1>8. CASE OtherReads
  BY <1>1, <1>8 DEF OtherReads
<1>9. ASSUME NEW c \in Callers, AskStatus(c) \/ AskMutation(c) PROVE OneTimerEach' /\ AnswersFit'
  <2>1. /\ peer = "plugin" /\ ~Waiting(c)
        /\ \E op \in {"status", "mutate"}, rev \in 0..MaxRevision : Ask(c, op, rev)
    BY <1>9, Asking DEF PInv, OInv, Waiting, AskStatus, AskMutation
  <2> QED
    BY <2>1, PairAsk
<1>10. ASSUME NEW c \in Callers, Timeout(c) PROVE OneTimerEach' /\ AnswersFit'
  <2>1. /\ Waiting(c) /\ pending' = pending \ {asked[c]} /\ UNCHANGED <<asked, inbox, serving, outbox>>
        /\ stage' = [stage EXCEPT ![c] = "idle"]
    BY <1>10 DEF Timeout, Waiting, authority
  <2>2. stage'[c] = "idle" /\ \A d \in Callers : d # c => stage'[d] = stage[d]
    BY <2>1 DEF PInv, OInv, TInv, RpcTypeOK
  <2>3. ~Waiting(c)' /\ \A d \in Callers : Waiting(d)' => Waiting(d) /\ stage'[d] = stage[d]
    BY <2>2 DEF Waiting
  <2>4. OneTimerEach'
    BY <2>1, <2>2, <2>3, TimerCleared
  <2> QED
    BY <2>1, <2>3, <2>4, FitStays DEF OnItsWay
<1>11. ASSUME NEW l \in OtherLines, OtherWrites(l) PROVE OneTimerEach' /\ AnswersFit'
  BY <1>1, <1>11 DEF OtherWrites
<1>12. ASSUME NEW c \in Callers, TooLarge(c) PROVE OneTimerEach' /\ AnswersFit'
  <2>1. \A d \in Callers : stage'[d] # stage[d] => ~Waiting(d) /\ ~Waiting(d)'
    BY <1>12 DEF TooLarge, Waiting, PInv, OInv, TInv, RpcTypeOK
  <2>2. UNCHANGED <<asked, pending, inbox, serving, outbox>>
    BY <1>12 DEF TooLarge, authority, client
  <2>3. \A d \in Callers : Waiting(d)' <=> Waiting(d)
    BY <2>1 DEF Waiting
  <2>4. OneTimerEach'
    BY <2>2, <2>3 DEF PInv, OneTimerEach
  <2> QED
    BY <2>1, <2>2, <2>3, <2>4, FitStays DEF OnItsWay
<1> QED
  BY <1>2, <1>3, <1>4, <1>5, <1>6, <1>7, <1>8, <1>9, <1>10, <1>11, <1>12 DEF Next, Serve

LEMMA InitPaired == Init => PInv
<1> SUFFICES ASSUME Init PROVE PInv
  OBVIOUS
<1>1. \A c \in Callers : ~Waiting(c)
  BY DEF Init, Waiting
<1> QED
  BY <1>1, InitOrder DEF Init, PInv, OneTimerEach, AnswersFit

\* A promise of the plugin is settled by its own answer, its own timer or the
\* end of the client, and by nothing else: this is what CallsEnd rests on, and
\* why the answer that settles a timer always finds the caller it is for.
THEOREM TimersPaired == Spec => []OneTimerEach
<1>1. PInv => OneTimerEach
  BY DEF PInv
<1> QED
  BY <1>1, InitPaired, NextPaired, PTL DEF Spec

\* What reaches a caller is the answer to the operation it asked, though late,
\* lost and concurrent answers share one pipe.
THEOREM AnswersFitQuestions == Spec => []AnswersFit
<1>1. PInv => AnswersFit
  BY DEF PInv
<1> QED
  BY <1>1, InitPaired, NextPaired, PTL DEF Spec
=============================================================================
