----------------------------- MODULE HeaderTime -----------------------------
(***************************************************************************)
(* GetSnapshotByHeaderTime (consensus/alien/api.go): the search for the    *)
(* main chain block in whose period a time falls, by which a side chain    *)
(* learns whose turn it is.  The search reads one header of the canonical  *)
(* chain at a time; meanwhile the chain grows, is replaced by another      *)
(* branch or is rewound.                                                   *)
(***************************************************************************)
EXTENDS Integers

CONSTANTS
    Chains,         \* header times by block number, from the genesis block on
    Targets,        \* times asked for
    Period,         \* seconds between blocks, at least
    TrantorBlock,   \* the search is for blocks from here on
    MaxChanges      \* bound: changes of the chain

(* Block times are a period apart as Finalize sets them (alien.go:693);    *)
(* verifyCascadingFields (alien.go:327) would accept closer ones.          *)
ASSUME HeaderTimeAssumption ==
    /\ Period \in Nat \ {0} /\ TrantorBlock \in Nat
    /\ Targets \subseteq Nat /\ MaxChanges \in Nat
    /\ \A c \in Chains :
          /\ \E last \in DOMAIN c : last \in Nat /\ DOMAIN c = 0..last
          /\ \A n \in DOMAIN c : c[n] \in Nat /\ (n > 0 => c[n] >= c[n - 1] + Period)

VARIABLES
    chain,      \* the canonical chain
    pc,         \* "idle", "search", "found" or "unknown" (errUnknownBlock)
    target,     \* the time asked for
    header,     \* number and time of the header in hand
    minN, maxN, \* the numbers between which the search goes on
    changes,    \* changes of the chain so far
    top,        \* the head when the search began
    stable      \* no block up to top was replaced since

searchVars == <<chain, pc, target, header, minN, maxN, changes, top, stable>>

HeadOf(c) == CHOOSE n \in DOMAIN c : n + 1 \notin DOMAIN c
At(c, n) == [number |-> n, time |-> c[n]]

\* header.time <= target < header.time + period
Within(h, t) == h.time <= t /\ t < h.time + Period

SearchInit ==
    /\ chain \in Chains
    /\ pc = "idle"
    /\ target = 0
    /\ header = At(chain, 0)
    /\ minN = 0 /\ maxN = 0
    /\ changes = 0 /\ top = 0 /\ stable = TRUE

Refuses(h, t) == h.number < TrantorBlock \/ t > h.time + Period

\* The call: the head must have reached TrantorBlock and the time asked for.
Ask ==
    /\ pc = "idle"
    /\ target' \in Targets
    /\ header' = At(chain, HeadOf(chain))
    /\ pc' = IF Refuses(header', target') THEN "unknown" ELSE "search"
    /\ minN' = TrantorBlock /\ maxN' = header'.number
    /\ top' = header'.number /\ stable' = TRUE
    /\ UNCHANGED <<chain, changes>>

\* Mutant: the search also goes on with the ends of the range.
NextNClosed ==
    LET guess == ((target - header.time) \div Period) + header.number IN
    IF guess > maxN \/ guess < minN THEN (maxN + minN) \div 2 ELSE guess

\* Where to look next: by the distance in periods, else in the middle.
NextN ==
    LET guess == ((target - header.time) \div Period) + header.number IN
    IF guess >= maxN \/ guess <= minN THEN (maxN + minN) \div 2 ELSE guess

Found ==
    /\ pc = "search" /\ Within(header, target)
    /\ pc' = "found"
    /\ UNCHANGED <<chain, target, header, minN, maxN, changes, top, stable>>

\* Mutant: the search gives up one number too early.
ExhaustedEarly == maxN <= minN + 2

Exhausted == maxN = minN \/ maxN = minN + 1

\* The range is used up, or the header is not there any more.
GiveUp ==
    /\ pc = "search" /\ ~Within(header, target)
    /\ Exhausted \/ NextN \notin DOMAIN chain
    /\ pc' = "unknown"
    /\ UNCHANGED <<chain, target, header, minN, maxN, changes, top, stable>>

\* One more header is read, and the range is cut there.
Probe ==
    /\ pc = "search" /\ ~Within(header, target) /\ ~Exhausted
    /\ NextN \in DOMAIN chain
    /\ header' = At(chain, NextN)
    /\ IF header'.time >= target
       THEN /\ maxN' = IF NextN < maxN THEN NextN ELSE maxN
            /\ minN' = minN
       ELSE /\ minN' = IF NextN > minN THEN NextN ELSE minN
            /\ maxN' = maxN
    /\ UNCHANGED <<chain, pc, target, changes, top, stable>>

\* A new block, a reorganisation or a rewind.
ChangeChain ==
    /\ changes < MaxChanges
    /\ \E c \in Chains \ {chain} :
          /\ chain' = c
          /\ stable' = (stable /\ \A n \in 0..top :
                          n \in DOMAIN c \cap DOMAIN chain /\ c[n] = chain[n])
    /\ changes' = changes + 1
    /\ UNCHANGED <<pc, target, header, minN, maxN, top>>

\* The caller takes the answer; it may ask again.
Return ==
    /\ pc \in {"found", "unknown"}
    /\ pc' = "idle"
    /\ UNCHANGED <<chain, target, header, minN, maxN, changes, top, stable>>

Search == Found \/ GiveUp \/ Probe

SearchNext == Ask \/ Search \/ ChangeChain \/ Return

\* The goroutine of a call goes on as long as it can.
SearchSpec == SearchInit /\ [][SearchNext]_searchVars /\ WF_searchVars(Search)

-----------------------------------------------------------------------------
(* Properties. *)

\* Every variable has its type, and the range of a search stays one (minN,
\* maxN).
SearchTypeOK ==
    /\ chain \in Chains /\ target \in Targets \cup {0}
    /\ pc \in {"idle", "search", "found", "unknown"}
    /\ header.number \in Nat /\ header.time \in Nat
    /\ pc = "search" => TrantorBlock <= minN /\ minN <= maxN
    /\ changes \in 0..MaxChanges /\ stable \in BOOLEAN

\* Unless a block is replaced under it, a search finds the block in whose period
\* the time falls, if the chain had one when the search began, and nothing
\* else; TrantorBlock itself is found only as the head, since the search never
\* reads the lower end of its range (GetSnapshotByHeaderTime,
\* "snapshot.header.time <= targetTime < snapshot.header.time + period").
SearchExact ==
    LET hits == {n \in TrantorBlock..top : n \in DOMAIN chain /\ Within(At(chain, n), target)}
    IN  /\ SearchTypeOK
        /\ stable =>
              /\ pc = "found" => hits = {header.number}
              /\ pc = "unknown" => hits \subseteq {TrantorBlock} /\ top \notin hits

\* Every call returns, whatever happens to the chain meanwhile
\* (GetSnapshotByHeaderTime's loop).
CallReturns == (pc = "search") ~> (pc \in {"found", "unknown"})

=============================================================================
