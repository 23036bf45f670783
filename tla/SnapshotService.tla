--------------------------- MODULE SnapshotService ---------------------------
(***************************************************************************)
(* What Alien.snapshot promises its callers (verification, sealing, the    *)
(* API), without the cache, the checkpoints and the walk that provide it:  *)
(* a call for a block is answered with the state reached by applying       *)
(* exactly the headers that lead to that block, in their order, or refused *)
(* for a reason: a header on that path is not known, or is malformed, the  *)
(* votes do not add up to the tally, or the database cannot be written.  A *)
(* crash ends every call.                                                  *)
(***************************************************************************)
EXTENDS Sequences

CONSTANTS
    Blocks,    \* hashes of headers, of every fork
    Genesis,   \* the hash of block 0
    Parent,    \* ParentHash of every block but Genesis
    History,   \* the headers above Genesis that lead to a block, in order
    Malformed, \* headers that apply refuses, whatever the snapshot
    Callers    \* concurrent callers of snapshot

VARIABLES
    known,    \* the headers in the chain database
    service   \* the call of each caller, or the answer to its last one

vars == <<known, service>>

Idle == [state |-> "idle"]
Waiting(h) == [state |-> "waiting", want |-> h]
Answered(h) == [state |-> "answered", want |-> h, applied |-> History[h]]
Refused(h, why) == [state |-> "refused", want |-> h, why |-> why]

Path(h) == {History[h][i] : i \in DOMAIN History[h]}

Init ==
    /\ known = {Genesis}
    /\ service = [p \in Callers |-> Idle]

(* A header whose parent is known enters the database. *)
Learn(b) ==
    /\ b \notin known
    /\ Parent[b] \in known
    /\ known' = known \cup {b}
    /\ UNCHANGED service

Ask(p, h) ==
    /\ service[p].state # "waiting"
    /\ service' = [service EXCEPT ![p] = Waiting(h)]
    /\ UNCHANGED known

Answer(p) ==
    /\ service[p].state = "waiting"
    /\ Path(service[p].want) \cap Malformed = {}
    /\ service' = [service EXCEPT ![p] = Answered(@.want)]
    /\ UNCHANGED known

(* A refusal, and what it says of the headers that lead to the block. *)
Refuse(p, why) ==
    /\ service[p].state = "waiting"
    /\ why = "missing" => ~(Path(service[p].want) \subseteq known)
    /\ why = "malformed" => Path(service[p].want) \cap Malformed # {}
    /\ why = "count" => service[p].want # Genesis
    /\ service' = [service EXCEPT ![p] = Refused(@.want, why)]
    /\ UNCHANGED known

Reasons == {"missing", "malformed", "count", "disk"}
Return(p) == Answer(p) \/ \E why \in Reasons : Refuse(p, why)

Crash ==
    /\ service' = [p \in Callers |-> Idle]
    /\ UNCHANGED known

Next ==
    \/ \E b \in Blocks \ {Genesis} : Learn(b)
    \/ \E p \in Callers : \/ \E h \in Blocks : Ask(p, h)
                          \/ Return(p)
    \/ Crash

(* Safety: no caller ever sees another state of a block. *)
Safe == Init /\ [][Next]_vars

(* With liveness: every call that no crash ends is answered or refused. *)
Spec == Safe /\ \A p \in Callers : WF_vars(Return(p))
=============================================================================
