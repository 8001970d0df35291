----------------------------- MODULE ThreadIds -----------------------------
(***************************************************************************)
(* ThreadIds of src/src/decode/reconstruct.rs: the names the two           *)
(* reconstructors give to threads.  A task is a pair <<pid, tid>>; the name*)
(* is t_<tid>, or t_<tid>_g<n> for a later generation of the task.         *)
(***************************************************************************)
EXTENDS Naturals

NoIds(Tasks) == [generation |-> [t \in Tasks |-> 0], exited |-> {}]

\* observe: a PERF_RECORD_EXIT of the task.
Observe(ids, t) == [ids EXCEPT !.exited = @ \union {t}]

\* Mutant: the generation is not counted.
MutTakeExited(ids, t) == [ids EXCEPT !.exited = @ \ {t}]

\* take_exited: the ids after the call (it returns t \in ids.exited).
TakeExited(ids, t) ==
    IF t \in ids.exited
    THEN [generation |-> [ids.generation EXCEPT ![t] = @ + 1], exited |-> ids.exited \ {t}]
    ELSE ids

\* id: the pid is not part of the name.
ThreadName(ids, t) == <<t[2], ids.generation[t]>>
=============================================================================
