------------------------------ MODULE RemoteCall ------------------------------
(***************************************************************************)
(* What the plugin may expect of a request to the authority: it is carried *)
(* out at most once, perhaps after the plugin has given it up, and an      *)
(* answer says that it was carried out.                                    *)
(***************************************************************************)
EXTENDS Naturals

CONSTANT Ids  \* the requests

VARIABLES
  call,  \* how far a request is for the plugin
  ran    \* how often the authority has carried it out

vars == <<call, ran>>

Init == call = [i \in Ids |-> "new"] /\ ran = [i \in Ids |-> 0]

Invoke(i) ==
  /\ call[i] = "new"
  /\ call' = [call EXCEPT ![i] = "open"]
  /\ UNCHANGED ran

Run(i) ==
  /\ call[i] \in {"open", "given up"} /\ ran[i] = 0
  /\ ran' = [ran EXCEPT ![i] = 1]
  /\ UNCHANGED call

Answer(i) ==
  /\ call[i] = "open" /\ ran[i] = 1
  /\ call' = [call EXCEPT ![i] = "answered"]
  /\ UNCHANGED ran

\* A timeout gives up one request, the end of the authority all that are open.
GiveUp(S) ==
  /\ S # {} /\ \A i \in S : call[i] = "open"
  /\ call' = [i \in Ids |-> IF i \in S THEN "given up" ELSE call[i]]
  /\ UNCHANGED ran

Next == (\E i \in Ids : Invoke(i) \/ Run(i) \/ Answer(i)) \/ (\E S \in SUBSET Ids : GiveUp(S))

Spec == Init /\ [][Next]_vars
=============================================================================
