--------------------------- MODULE SessionService ---------------------------
(***************************************************************************)
(* What the coordinator promises the client of a session, with none of the *)
(* phases, tasks, jobs, events and counters it uses: a session begins when *)
(* a recording may begin, ends once with one outcome, and is captured only *)
(* when its snapshot is in the store.                                      *)
(***************************************************************************)
EXTENDS Naturals, FiniteSets

CONSTANTS Sessions, MaxActive

VARIABLES
    status,   \* of each session: "none", "capturing", or its outcome
    saved     \* the sessions whose snapshot was put into the store

vars == <<status, saved>>

Outcomes == {"captured", "failed", "cancelled"}

Init == status = [s \in Sessions |-> "none"] /\ saved = {}

Begin(s) ==
    /\ status[s] = "none"
    /\ Cardinality({x \in Sessions : status[x] = "capturing"}) < MaxActive
    /\ status' = [status EXCEPT ![s] = "capturing"]
    /\ UNCHANGED saved

\* Also after the client has cancelled.
Save(s) ==
    /\ status[s] # "none"
    /\ saved' = saved \union {s}
    /\ UNCHANGED status

End(s, outcome) ==
    /\ status[s] = "capturing"
    /\ outcome = "captured" => s \in saved
    /\ status' = [status EXCEPT ![s] = outcome]
    /\ UNCHANGED saved

Next == \E s \in Sessions : Begin(s) \/ Save(s) \/ \E o \in Outcomes : End(s, o)

Spec == Init /\ [][Next]_vars
=============================================================================
