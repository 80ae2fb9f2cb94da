----------------------------- MODULE GatedPlan -----------------------------
(***************************************************************************)
(* What the planning gate promises, without receipts, nonces, revisions or  *)
(* an event log: a baseline, a specification and a plan are settled one     *)
(* after the other, each on an accepted predecessor whose authority it      *)
(* inherits unchanged; the plan is approved once, and what is activated is  *)
(* the packet of the approved plan, once.                                   *)
(***************************************************************************)
CONSTANTS
  Authorities,  \* what a document may claim: requirements, acceptance, facts
  Packets,      \* development packets
  Nothing       \* no packet

VARIABLES
  chain,     \* the documents settled so far
  accepted,  \* the documents somebody outside accepted
  approved,  \* the plans somebody outside approved
  active     \* the packet in force, Nothing while the Run is planned

gate == <<chain, accepted, approved, active>>

Document ==
  [kind : {"BASELINE", "SPEC"}, authority : Authorities, packet : {Nothing}]
    \cup [kind : {"PLAN"}, authority : Authorities, packet : Packets]

Precedes(a, b) ==
  \/ a.kind = "BASELINE" /\ b.kind = "SPEC"
  \/ a.kind = "SPEC" /\ b.kind = "PLAN"

Init == chain = {} /\ accepted = {} /\ approved = {} /\ active = Nothing

Settle ==
  \E d \in Document :
    /\ \A e \in chain : e.kind # d.kind
    /\ \/ d.kind = "BASELINE"
       \/ \E e \in accepted : Precedes(e, d) /\ e.authority = d.authority
    /\ chain' = chain \cup {d}
    /\ UNCHANGED <<accepted, approved, active>>

Accept ==
  /\ \E d \in chain : d.kind # "PLAN" /\ accepted' = accepted \cup {d}
  /\ UNCHANGED <<chain, approved, active>>

Approve ==
  /\ approved = {}
  /\ \E d \in chain : d.kind = "PLAN" /\ approved' = {d}
  /\ UNCHANGED <<chain, accepted, active>>

Activate ==
  /\ active = Nothing
  /\ \E d \in approved : active' = d.packet
  /\ UNCHANGED <<chain, accepted, approved>>

Next == Settle \/ Accept \/ Approve \/ Activate

Spec == Init /\ [][Next]_gate
=============================================================================
