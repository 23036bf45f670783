-------------------------- MODULE SnapshotCacheProofs --------------------------
(***************************************************************************)
(* Proofs about SnapshotCache, for every tree of blocks, any number of     *)
(* callers, every size of the memory and every checkpoint interval: the    *)
(* snapshots are faithful, the genesis votes are kept, and Alien.snapshot  *)
(* answers and refuses as SnapshotService says.                            *)
(***************************************************************************)
EXTENDS SnapshotCache, SequenceTheorems, FiniteSetTheorems, TLAPS

-----------------------------------------------------------------------------
(* The walk, seen from the tree of blocks. *)

\* The headers hs lead from a block to another one, parent by parent.
Linked(hs, from, to) ==
    /\ hs = <<>> => from = to
    /\ hs # <<>> => Parent[hs[1]] = from /\ hs[Len(hs)] = to
    /\ \A i \in 1..Len(hs) : hs[i] # Genesis
    /\ \A i \in 1..(Len(hs) - 1) : Parent[hs[i + 1]] = hs[i]

\* The explicit parents are the last headers of the path to h.
Explicit(ps, h) ==
    /\ Len(ps) <= Number(h)
    /\ \A k \in 1..Len(ps) : ps[k] = History[h][Number(h) - Len(ps) + k]

LEMMA Tree ==
    /\ Genesis \in Blocks /\ History[Genesis] = <<>> /\ Number(Genesis) = 0
    /\ \A b \in Blocks : History[b] \in Seq(Blocks) /\ Number(b) \in Nat
    /\ \A b \in Blocks \ {Genesis} :
          /\ Parent[b] \in Blocks
          /\ History[b] = Append(History[Parent[b]], b)
          /\ Number(b) = Number(Parent[b]) + 1
          /\ History[b][Number(b)] = b
<1>1. Genesis \in Blocks /\ History[Genesis] = <<>> /\ Number(Genesis) = 0
    BY CacheAssumption DEF Number
<1>2. \A b \in Blocks : History[b] \in Seq(Blocks) /\ Number(b) \in Nat
    BY CacheAssumption DEF Number
<1>3. ASSUME NEW b \in Blocks \ {Genesis}
      PROVE  /\ Parent[b] \in Blocks
             /\ History[b] = Append(History[Parent[b]], b)
             /\ Number(b) = Number(Parent[b]) + 1
             /\ History[b][Number(b)] = b
    <2>1. Parent[b] \in Blocks /\ History[b] = Append(History[Parent[b]], b)
        BY CacheAssumption
    <2> QED BY <1>2, <2>1, AppendProperties DEF Number
<1> QED BY <1>1, <1>2, <1>3

\* The genesis block is a checkpoint.
LEMMA GenesisCheckpoint == IsCheckpoint(Genesis)
<1>1. \A n \in Nat \ {0} : 0 % n = 0
    OBVIOUS
<1> QED BY <1>1, Tree, CacheAssumption DEF IsCheckpoint

LEMMA LinkedPush ==
    ASSUME NEW hs \in Seq(Blocks), NEW from \in Blocks \ {Genesis}, NEW to \in Blocks,
           Linked(hs, from, to)
    PROVE  <<from>> \o hs \in Seq(Blocks) /\ Linked(<<from>> \o hs, Parent[from], to)
<1> DEFINE gs == <<from>> \o hs
<1>1. /\ gs \in Seq(Blocks) /\ Len(gs) = Len(hs) + 1 /\ gs[1] = from /\ Len(hs) \in Nat
      /\ \A i \in 1..Len(hs) : gs[i + 1] = hs[i]
    OBVIOUS
<1> HIDE DEF gs
<1>2. gs[Len(gs)] = to
    BY <1>1 DEF Linked
<1>3. \A i \in 1..Len(gs) : gs[i] # Genesis
    <2> TAKE i \in 1..Len(gs)
    <2>1. CASE i = 1
        BY <1>1, <2>1
    <2>2. CASE i # 1
        <3>1. i - 1 \in 1..Len(hs) /\ (i - 1) + 1 = i
            BY <1>1, <2>2
        <3>2. gs[(i - 1) + 1] = hs[i - 1]
            BY <1>1, <3>1
        <3>3. hs[i - 1] # Genesis
            BY <3>1 DEF Linked
        <3> QED BY <3>1, <3>2, <3>3
    <2> QED BY <2>1, <2>2
<1>4. \A i \in 1..(Len(gs) - 1) : Parent[gs[i + 1]] = gs[i]
    <2> TAKE i \in 1..(Len(gs) - 1)
    <2>1. gs[i + 1] = hs[i] /\ i \in 1..Len(hs)
        BY <1>1
    <2>2. CASE i = 1
        BY <1>1, <2>1, <2>2 DEF Linked
    <2>3. CASE i # 1
        <3>1. i - 1 \in 1..(Len(hs) - 1) /\ (i - 1) + 1 = i /\ i - 1 \in 1..Len(hs)
            BY <1>1, <2>1, <2>3
        <3>2. gs[i] = hs[i - 1] /\ Parent[hs[i]] = hs[i - 1]
            BY <1>1, <3>1 DEF Linked
        <3> QED BY <2>1, <3>2
    <2> QED BY <2>2, <2>3
<1> QED BY <1>1, <1>2, <1>3, <1>4 DEF Linked, gs

LEMMA LinkedPop ==
    ASSUME NEW hs \in Seq(Blocks), hs # <<>>, NEW from \in Blocks, NEW to \in Blocks,
           Linked(hs, from, to)
    PROVE  /\ Head(hs) \in Blocks \ {Genesis} /\ Parent[Head(hs)] = from
           /\ Tail(hs) \in Seq(Blocks) /\ Linked(Tail(hs), Head(hs), to)
<1> DEFINE ts == Tail(hs)
<1>1. /\ ts \in Seq(Blocks) /\ Len(ts) = Len(hs) - 1 /\ Len(hs) \in Nat \ {0}
      /\ Head(hs) = hs[1] /\ hs[1] \in Blocks
      /\ \A i \in 1..Len(ts) : ts[i] = hs[i + 1]
    OBVIOUS
<1> HIDE DEF ts
<1>2. hs[1] # Genesis /\ Parent[hs[1]] = from
    BY <1>1 DEF Linked
<1>3. ts = <<>> => hs[1] = to
    <2> HAVE ts = <<>>
    <2>1. Len(hs) = 1
        BY <1>1
    <2> QED BY <2>1 DEF Linked
<1>4. ts # <<>> => Parent[ts[1]] = hs[1] /\ ts[Len(ts)] = to
    BY <1>1 DEF Linked
<1>5. \A i \in 1..Len(ts) : ts[i] # Genesis
    BY <1>1 DEF Linked
<1>6. \A i \in 1..(Len(ts) - 1) : Parent[ts[i + 1]] = ts[i]
    <2> TAKE i \in 1..(Len(ts) - 1)
    <2>1. i \in 1..Len(ts) /\ i + 1 \in 1..Len(ts) /\ i + 1 \in 1..(Len(hs) - 1)
        BY <1>1
    <2>2. ts[i + 1] = hs[(i + 1) + 1] /\ ts[i] = hs[i + 1]
        BY <1>1, <2>1
    <2> QED BY <2>1, <2>2 DEF Linked
<1> QED BY <1>1, <1>2, <1>3, <1>4, <1>5, <1>6 DEF Linked, ts

LEMMA ExplicitNone ==
    ASSUME NEW h \in Blocks
    PROVE  Explicit(<<>>, h)
BY Tree DEF Explicit

LEMMA ExplicitAsk ==
    ASSUME NEW h \in Blocks, NEW i \in 1..(Number(h) + 1)
    PROVE  /\ SubSeq(History[h], i, Number(h)) \in Seq(Blocks)
           /\ Explicit(SubSeq(History[h], i, Number(h)), h)
<1> DEFINE n == Number(h)
           ps == SubSeq(History[h], i, n)
<1>1. n \in Nat /\ History[h] \in Seq(Blocks) /\ n = Len(History[h])
    BY Tree DEF Number
<1>2. \A j \in i..n : History[h][j] \in Blocks
    BY <1>1
<1> HIDE DEF n
<1>3. /\ ps \in Seq(Blocks)
      /\ Len(ps) = IF i <= n THEN n - i + 1 ELSE 0
      /\ \A k \in 1..(n - i + 1) : ps[k] = History[h][i + k - 1]
    BY <1>1, <1>2, SubSeqProperties
<1> HIDE DEF ps
<1>4. i \in 1..(n + 1)
    BY DEF n
<1>5. Len(ps) = n - i + 1 /\ Len(ps) <= n
    BY <1>1, <1>3, <1>4
<1>6. ASSUME NEW k \in 1..Len(ps)
      PROVE  ps[k] = History[h][n - Len(ps) + k]
    <2>1. k \in 1..(n - i + 1) /\ i + k - 1 = n - Len(ps) + k
        BY <1>1, <1>4, <1>5
    <2> QED BY <1>3, <2>1
<1> QED BY <1>3, <1>5, <1>6 DEF Explicit, n, ps

LEMMA ExplicitPop ==
    ASSUME NEW h \in Blocks, NEW ps \in Seq(Blocks), ps # <<>>, Explicit(ps, h)
    PROVE  /\ h # Genesis
           /\ ps[Len(ps)] = h
           /\ SubSeq(ps, 1, Len(ps) - 1) \in Seq(Blocks)
           /\ Explicit(SubSeq(ps, 1, Len(ps) - 1), Parent[h])
<1> DEFINE n == Number(h)
           m == Len(ps)
           qs == SubSeq(ps, 1, m - 1)
<1>1. m \in Nat \ {0} /\ n \in Nat /\ m <= n /\ m \in 1..m
    BY Tree DEF Explicit
<1>2. h # Genesis
    BY <1>1, Tree
<1>3. ps[m] = History[h][n - m + m]
    BY <1>1 DEF Explicit
<1>4. n - m + m = n /\ ps[m] = h
    <2>1. History[h][n] = h
        BY <1>2, Tree
    <2> HIDE DEF n, m
    <2>2. n - m + m = n
        BY <1>1
    <2> QED BY <1>3, <2>1, <2>2
<1>5. \A j \in 1..(m - 1) : ps[j] \in Blocks
    BY <1>1
<1>6. qs \in Seq(Blocks) /\ Len(qs) = m - 1 /\ \A k \in 1..(m - 1) : qs[k] = ps[k]
    <2>1. /\ qs \in Seq(Blocks)
          /\ Len(qs) = IF 1 <= m - 1 THEN (m - 1) - 1 + 1 ELSE 0
          /\ \A k \in 1..((m - 1) - 1 + 1) : qs[k] = ps[1 + k - 1]
        <3> HIDE DEF m
        <3> QED BY <1>1, <1>5, SubSeqProperties
    <2> HIDE DEF m, qs
    <2> QED BY <1>1, <2>1
<1>7. /\ n = Number(Parent[h]) + 1 /\ Number(Parent[h]) \in Nat
      /\ History[Parent[h]] \in Seq(Blocks) /\ Number(Parent[h]) = Len(History[Parent[h]])
      /\ History[h] = Append(History[Parent[h]], h)
    BY <1>2, Tree DEF Number
<1> HIDE DEF n, m, qs
<1>8. ASSUME NEW k \in 1..(m - 1)
      PROVE  qs[k] = History[Parent[h]][Number(Parent[h]) - (m - 1) + k]
    <2> DEFINE j == Number(Parent[h]) - (m - 1) + k
    <2>1. j = n - m + k /\ j \in 1..Number(Parent[h]) /\ k \in 1..m
        <3>1. n = Number(Parent[h]) + 1 /\ Number(Parent[h]) \in Nat
            BY <1>7
        <3>2. m \in Nat /\ m <= n /\ k \in Nat /\ 1 <= k /\ k <= m - 1
            BY <1>1
        <3> QED BY <3>1, <3>2
    <2>2. ps[k] = History[h][n - m + k]
        BY <2>1 DEF Explicit, n, m
    <2>3. History[h][j] = History[Parent[h]][j]
        BY <1>7, <2>1, AppendProperties
    <2> QED BY <1>6, <2>1, <2>2, <2>3
<1>9. Explicit(qs, Parent[h])
    BY <1>1, <1>6, <1>7, <1>8 DEF Explicit
<1> QED BY <1>2, <1>4, <1>6, <1>9 DEF m, qs

\* What is above a block on a path is above its parent, with it.
LEMMA PathPush ==
    ASSUME NEW h \in Blocks \ {Genesis}, NEW hs \in Seq(Blocks)
    PROVE  History[h] \o hs = History[Parent[h]] \o (<<h>> \o hs)
<1> DEFINE below == History[Parent[h]]
<1>1. below \in Seq(Blocks) /\ History[h] = Append(below, h)
    BY Tree
<1>2. <<h>> \in Seq(Blocks)
    OBVIOUS
<1> HIDE DEF below
<1>3. Append(below, h) = below \o <<h>>
    BY <1>1, AppendIsConcat
<1>4. (below \o <<h>>) \o hs = below \o (<<h>> \o hs)
    BY <1>1, <1>2, ConcatAssociative
<1> QED BY <1>1, <1>3, <1>4 DEF below

\* A block is on every path that goes through it.
LEMMA OnPath ==
    ASSUME NEW h \in Blocks \ {Genesis}, NEW hs \in Seq(Blocks), NEW w \in Blocks,
           History[w] = History[h] \o hs
    PROVE  \E i \in DOMAIN History[w] : History[w][i] = h
<1>1. /\ History[h] \in Seq(Blocks) /\ History[w] \in Seq(Blocks)
      /\ Number(h) = Len(History[h]) /\ Number(h) \in Nat \ {0} /\ History[h][Number(h)] = h
    BY Tree DEF Number
<1>2. /\ Len(History[w]) = Number(h) + Len(hs) /\ Len(hs) \in Nat
      /\ \A i \in 1..(Number(h) + Len(hs)) :
            History[w][i] = IF i <= Number(h) THEN History[h][i] ELSE hs[i - Number(h)]
    BY <1>1, ConcatProperties
<1>3. Number(h) \in 1..(Number(h) + Len(hs)) /\ DOMAIN History[w] = 1..(Number(h) + Len(hs))
    BY <1>1, <1>2
<1> QED BY <1>1, <1>2, <1>3

\* A block is sound if its parent is and it is not malformed itself.
LEMMA SoundStep ==
    /\ Sound(Genesis)
    /\ \A h \in Blocks \ {Genesis} : Sound(Parent[h]) /\ h \notin Malformed => Sound(h)
<1>1. Sound(Genesis)
    BY Tree DEF Sound
<1>2. ASSUME NEW h \in Blocks \ {Genesis}, Sound(Parent[h]), h \notin Malformed
      PROVE  Sound(h)
    <2> DEFINE below == History[Parent[h]]
    <2>1. below \in Seq(Blocks) /\ History[h] = Append(below, h)
        BY Tree
    <2>2. \A i \in 1..Len(below) : below[i] \notin Malformed
        BY <1>2, <2>1 DEF Sound
    <2> HIDE DEF below
    <2>3. /\ DOMAIN History[h] = 1..(Len(below) + 1) /\ Len(below) \in Nat
          /\ \A i \in 1..Len(below) : History[h][i] = below[i]
          /\ History[h][Len(below) + 1] = h
        BY <2>1
    <2>4. ASSUME NEW i \in DOMAIN History[h] PROVE History[h][i] \notin Malformed
        <3>1. i \in 1..Len(below) \/ i = Len(below) + 1
            BY <2>3
        <3> QED BY <1>2, <2>2, <2>3, <3>1
    <2> QED BY <2>4 DEF Sound
<1> QED BY <1>1, <1>2

-----------------------------------------------------------------------------
(* The inductive invariant. *)

\* A snapshot that is the state of the block it names.
Good(s) == s \in Snapshot /\ Faithful(s, s.hash)

\* The memory or the disk: good snapshots, each at the hash of its block.
Archive(f) ==
    /\ DOMAIN f \subseteq Blocks
    /\ f \in [DOMAIN f -> Snapshot]
    /\ \A h \in DOMAIN f : Faithful(f[h], h)

Memory ==
    /\ Archive(recents) /\ Archive(disk)
    /\ IsFiniteSet(DOMAIN recents) /\ Cardinality(DOMAIN recents) <= CacheSize
    /\ \A h \in DOMAIN disk : IsCheckpoint(h)

\* A walk back has gathered the headers from where it is to the block it is
\* for; a walk forward has a good snapshot, and the headers from there on.
CallInv(c) ==
    /\ c.pc \in {"look", "create"} =>
          /\ Linked(c.headers, c.hash, c.want)
          /\ History[c.want] = History[c.hash] \o c.headers
          /\ Explicit(c.parents, c.hash)
    /\ c.pc = "create" => c.hash = Genesis
    /\ c.pc \in {"look", "create", "apply", "store"} /\ c.want = Genesis => c.hash = Genesis
    /\ c.pc = "apply" => History[c.want] = History[c.snap.hash] \o c.headers
    /\ c.pc \in {"apply", "store"} =>
          Good(c.snap) /\ Linked(c.headers, c.snap.hash, c.want)
    /\ c.pc = "store" => c.headers = <<>> /\ IsCheckpoint(c.snap.hash)
    /\ c.pc = "done" => Good(c.snap) /\ c.snap.hash = c.want

CallsInv == call \in [Callers -> Calls] /\ \A p \in Callers : CallInv(call[p])

World ==
    /\ mode \in {"down", "boot", "node", "import"}
    /\ known \subseteq Blocks /\ Genesis \in known
    /\ tainted \in BOOLEAN
    /\ crashes \in 0..MaxCrashes

IInv == World /\ Memory /\ CallsInv

LEMMA InitIInv == Init => IInv
<1> SUFFICES ASSUME Init PROVE IInv
    OBVIOUS
<1>1. World
    <2>1. /\ mode \in {"down", "boot", "node", "import"}
          /\ known \subseteq Blocks /\ Genesis \in known /\ crashes \in 0..MaxCrashes
        BY CacheAssumption DEF Init
    <2>2. tainted \in BOOLEAN
        BY Zenon DEF Init
    <2> QED BY <2>1, <2>2, Zenon DEF World
<1>2. Memory
    <2>1. DOMAIN recents = {} /\ DOMAIN disk = {}
          /\ recents \in [{} -> Snapshot] /\ disk \in [{} -> Snapshot]
        BY DEF Init, Empty
    <2>2. IsFiniteSet({}) /\ Cardinality({}) = 0
        BY FS_EmptySet
    <2> QED BY <2>1, <2>2, CacheAssumption DEF Memory, Archive
<1>3. CallsInv
    BY DEF Init, CallsInv, Calls, NoCall, CallInv
<1> QED BY <1>1, <1>2, <1>3 DEF IInv

\* A goroutine inside snapshot has all the variables of the function.
LEMMA InWalk ==
    ASSUME NEW c \in Calls, c.pc \in {"look", "create", "apply", "store"}
    PROVE  c \in Walk
BY DEF Calls, NoCall

LEMMA WalkRecord ==
    ASSUME NEW at \in {"look", "create", "apply", "store"}, NEW want \in Blocks,
           NEW hash \in Blocks, NEW parents \in Seq(Blocks), NEW headers \in Seq(Blocks),
           NEW snap \in Snapshot, NEW votes \in BOOLEAN
    PROVE  [pc |-> at, want |-> want, hash |-> hash, parents |-> parents, headers |-> headers,
            snap |-> snap, votes |-> votes] \in Walk
BY Zenon DEF Walk

WalkOf(Votes) ==
    [pc : {"look", "create", "apply", "store"}, want : Blocks, hash : Blocks,
     parents : Seq(Blocks), headers : Seq(Blocks), snap : Snapshot, votes : Votes]

LEMMA WalkFound ==
    ASSUME NEW Votes, NEW c \in WalkOf(Votes), NEW s \in Snapshot, NEW v \in Votes
    PROVE  [c EXCEPT !.pc = "apply", !.snap = s, !.parents = <<>>, !.votes = v] \in WalkOf(Votes)
<1>1. \A w \in WalkOf(Votes) : [w EXCEPT !.pc = "apply"] \in WalkOf(Votes)
    BY DEF WalkOf
<1>2. \A w \in WalkOf(Votes) : [w EXCEPT !.snap = s] \in WalkOf(Votes)
    BY DEF WalkOf
<1>3. \A w \in WalkOf(Votes) : [w EXCEPT !.parents = <<>>] \in WalkOf(Votes)
    <2>1. \A w \in WalkOf(Votes) : \A ps \in Seq(Blocks) : [w EXCEPT !.parents = ps] \in WalkOf(Votes)
        BY DEF WalkOf
    <2>2. <<>> \in Seq(Blocks)
        OBVIOUS
    <2> QED BY <2>1, <2>2, Zenon
<1>4. \A w \in WalkOf(Votes) : [w EXCEPT !.votes = v] \in WalkOf(Votes)
    BY DEF WalkOf
<1> QED BY <1>1, <1>2, <1>3, <1>4, Zenon

\* A step that replaces the call of p by another one.
LEMMA CallReplaced ==
    ASSUME CallsInv, NEW p \in Callers, NEW d \in Calls, CallInv(d),
           call' = [call EXCEPT ![p] = d]
    PROVE  CallsInv'
<1>1. call' \in [Callers -> Calls] /\ \A q \in Callers : call'[q] = IF q = p THEN d ELSE call[q]
    BY DEF CallsInv
<1> QED BY <1>1 DEF CallsInv

-----------------------------------------------------------------------------
(* The callers. *)

LEMMA AskIInv ==
    ASSUME IInv, NEW p \in Callers, NEW h \in Blocks, NEW parents \in Seq(Blocks),
           Explicit(parents, h), NEW withVotes \in BOOLEAN, Ask(p, h, parents, withVotes)
    PROVE  IInv'
<1> DEFINE d == Asking(h, parents, withVotes)
<1>1. NewSnapshot(FALSE) \in Snapshot
    BY Tree DEF NewSnapshot, Snapshot
<1>2. d \in Walk
    <2>1. "look" \in {"look", "create", "apply", "store"} /\ <<>> \in Seq(Blocks)
        OBVIOUS
    <2> QED BY <1>1, <2>1, WalkRecord DEF Asking
<1>3. Linked(<<>>, h, h)
    BY DEF Linked
<1>4. History[h] = History[h] \o <<>>
    BY Tree, ConcatEmptySeq
<1>5. CallInv(d)
    BY <1>3, <1>4 DEF CallInv, Asking
<1>6. call' = [call EXCEPT ![p] = d]
    BY DEF Ask
<1>7. CallsInv'
    <2>1. d \in Calls
        BY <1>2 DEF Calls
    <2> HIDE DEF d
    <2> QED BY <1>5, <1>6, <2>1, CallReplaced DEF IInv
<1> QED BY <1>7 DEF Ask, IInv, World, Memory

LEMMA RequestIInv == ASSUME IInv, NEW p \in Callers, Request(p) PROVE IInv'
<1>1. PICK h \in Blocks : \/ AskFinalize(p, h)
                          \/ \E i \in 1..(Number(h) + 1) : AskVerify(p, h, i)
                          \/ AskKnown(p, h)
    BY CacheAssumption DEF Request
<1>2. <<>> \in Seq(Blocks) /\ Explicit(<<>>, h) /\ (h = Genesis) \in BOOLEAN /\ FALSE \in BOOLEAN
    BY ExplicitNone
<1>3. CASE AskFinalize(p, h)
    <2>1. Ask(p, h, <<>>, h = Genesis)
        BY <1>3 DEF AskFinalize
    <2> QED BY <1>2, <2>1, AskIInv
<1>4. CASE AskKnown(p, h)
    <2>1. Ask(p, h, <<>>, FALSE)
        BY <1>4 DEF AskKnown
    <2> QED BY <1>2, <2>1, AskIInv
<1>5. CASE \E i \in 1..(Number(h) + 1) : AskVerify(p, h, i)
    <2>1. PICK i \in 1..(Number(h) + 1) : AskVerify(p, h, i)
        BY <1>5
    <2>2. Ask(p, h, SubSeq(History[h], i, Number(h)), FALSE)
        BY <2>1 DEF AskVerify
    <2> QED BY <1>2, <2>2, ExplicitAsk, AskIInv
<1> QED BY <1>1, <1>3, <1>4, <1>5

-----------------------------------------------------------------------------
(* The body of Alien.snapshot. *)

\* The walk is over, with a good snapshot of the block it is at.
LEMMA FoundCalls ==
    ASSUME CallsInv, NEW p \in Callers, call[p].pc \in {"look", "create"},
           NEW s \in Snapshot, Faithful(s, call[p].hash), Found(p, s)
    PROVE  CallsInv'
<1>1. call[p] \in Walk /\ CallInv(call[p])
    BY InWalk DEF CallsInv
<1> DEFINE d == [call[p] EXCEPT !.pc = "apply", !.snap = s, !.parents = <<>>, !.votes = FALSE]
<1>2. call' = [call EXCEPT ![p] = d]
    BY <1>1 DEF Found, CallsInv
<1>3. d \in Walk
    <2>1. call[p] \in WalkOf(BOOLEAN)
        BY <1>1, Zenon DEF Walk, WalkOf
    <2>2. FALSE \in BOOLEAN
        BY Zenon
    <2>3. d \in WalkOf(BOOLEAN)
        BY <2>1, <2>2, WalkFound
    <2> QED BY <2>3, Zenon DEF Walk, WalkOf
<1>4. /\ d.pc = "apply" /\ d.snap = s /\ d.headers = call[p].headers /\ d.want = call[p].want
      /\ d.hash = call[p].hash
    BY <1>1 DEF Walk
<1>5. d \in Calls
    BY <1>3 DEF Calls
<1> HIDE DEF d
<1>6. CallInv(d)
    BY <1>1, <1>4 DEF CallInv, Good, Faithful
<1> QED BY <1>2, <1>5, <1>6, CallReplaced

LEMMA FailCalls ==
    ASSUME CallsInv, NEW p \in Callers, call[p] \in Walk, NEW why \in Errors, Fail(p, why)
    PROVE  CallsInv'
<1> DEFINE d == [pc |-> "failed", want |-> call[p].want, why |-> why]
<1>1. d \in Calls /\ CallInv(d)
    BY DEF Calls, Walk, CallInv
<1>2. call' = [call EXCEPT ![p] = d]
    BY DEF Fail
<1> HIDE DEF d
<1> QED BY <1>1, <1>2, CallReplaced

\* The header taken is that of the block the walk is at.
LEMMA GatherStep ==
    ASSUME CallsInv, NEW p \in Callers, call[p].pc = "look", call[p].hash # Genesis, Gather(p)
    PROVE  \/ Fail(p, "missing") /\ call[p].hash \notin known
           \/ call' = [call EXCEPT ![p] =
                [call[p] EXCEPT
                   !.hash = Parent[call[p].hash],
                   !.parents = IF call[p].parents # <<>>
                               THEN SubSeq(call[p].parents, 1, Len(call[p].parents) - 1)
                               ELSE call[p].parents,
                   !.headers = <<call[p].hash>> \o call[p].headers]]
<1>1. call[p] \in Walk /\ CallInv(call[p])
    BY InWalk DEF CallsInv
<1>2. call[p].hash \in Blocks /\ call[p].parents \in Seq(Blocks)
      /\ Explicit(call[p].parents, call[p].hash)
    BY <1>1 DEF Walk, CallInv
<1>3. call[p].parents # <<>> => call[p].parents[Len(call[p].parents)] = call[p].hash
    BY <1>2, ExplicitPop
<1> QED BY <1>1, <1>3 DEF Gather, CallsInv

LEMMA GatherCalls ==
    ASSUME CallsInv, NEW p \in Callers, call[p].pc = "look", call[p].hash # Genesis, Gather(p)
    PROVE  CallsInv'
<1> DEFINE c == call[p]
           left == IF c.parents # <<>> THEN SubSeq(c.parents, 1, Len(c.parents) - 1) ELSE c.parents
           d == [c EXCEPT !.hash = Parent[c.hash], !.parents = left,
                          !.headers = <<c.hash>> \o c.headers]
<1>1. c \in Walk /\ CallInv(c)
    BY InWalk DEF CallsInv
<1>2. CASE Fail(p, "missing")
    BY <1>1, <1>2, FailCalls DEF Errors
<1>3. CASE call' = [call EXCEPT ![p] = d]
    <2>1. /\ c.hash \in Blocks \ {Genesis} /\ c.want \in Blocks
          /\ c.headers \in Seq(Blocks) /\ c.parents \in Seq(Blocks)
        BY <1>1 DEF Walk
    <2>2. /\ Linked(c.headers, c.hash, c.want) /\ Explicit(c.parents, c.hash)
          /\ History[c.want] = History[c.hash] \o c.headers
        BY <1>1 DEF CallInv
    <2>3. Parent[c.hash] \in Blocks
        BY <2>1, Tree
    <2>4. <<c.hash>> \o c.headers \in Seq(Blocks)
          /\ Linked(<<c.hash>> \o c.headers, Parent[c.hash], c.want)
        BY <2>1, <2>2, LinkedPush
    <2>5. History[c.want] = History[Parent[c.hash]] \o (<<c.hash>> \o c.headers)
        BY <2>1, <2>2, PathPush
    <2>6. left \in Seq(Blocks) /\ Explicit(left, Parent[c.hash])
        BY <2>1, <2>2, <2>3, ExplicitPop, ExplicitNone, SMTT(30)
    <2> HIDE DEF left
    <2>7. d \in Walk
        BY <1>1, <2>3, <2>4, <2>6 DEF Walk
    <2>8. /\ d.pc = "look" /\ d.hash = Parent[c.hash] /\ d.want = c.want
          /\ d.headers = <<c.hash>> \o c.headers /\ d.parents = left
        BY <1>1 DEF Walk
    <2> HIDE DEF d
    <2>9. d \in Calls /\ CallInv(d)
        BY <1>1, <2>1, <2>4, <2>5, <2>6, <2>7, <2>8 DEF Calls, CallInv
    <2> QED BY <1>3, <2>9, CallReplaced
<1> QED BY <1>2, <1>3, GatherStep

LEMMA LookIInv == ASSUME IInv, NEW p \in Callers, Look(p) PROVE IInv'
<1>1. call[p].pc = "look" /\ UNCHANGED <<mode, known, recents, disk, tainted, crashes>>
    BY DEF Look
<1>2. World' /\ Memory'
    BY <1>1 DEF IInv, World, Memory
<1>3. call[p] \in Walk /\ CallInv(call[p]) /\ CallsInv
    BY <1>1, InWalk DEF IInv, CallsInv
<1> DEFINE h == call[p].hash
<1>4. CASE h \in DOMAIN recents
    <2>1. Found(p, recents[h])
        BY <1>4 DEF Look
    <2>2. recents[h] \in Snapshot /\ Faithful(recents[h], h)
        BY <1>4 DEF IInv, Memory, Archive
    <2> QED BY <1>1, <1>2, <1>3, <2>1, <2>2, FoundCalls DEF IInv
<1>5. CASE h \notin DOMAIN recents /\ OnDisk(h)
    <2>1. Found(p, disk[h])
        BY <1>5 DEF Look
    <2>2. disk[h] \in Snapshot /\ Faithful(disk[h], h)
        BY <1>5 DEF IInv, Memory, Archive, OnDisk
    <2> QED BY <1>1, <1>2, <1>3, <2>1, <2>2, FoundCalls DEF IInv
<1>6. CASE h \notin DOMAIN recents /\ ~OnDisk(h) /\ h = Genesis
    <2> DEFINE d == [call[p] EXCEPT !.pc = "create"]
    <2>1. call' = [call EXCEPT ![p] = d]
        BY <1>6 DEF Look
    <2>2. /\ d \in Walk /\ d.pc = "create" /\ d.hash = Genesis /\ d.want = call[p].want
          /\ d.headers = call[p].headers /\ d.parents = call[p].parents
        BY <1>3, <1>6 DEF Walk
    <2> HIDE DEF d
    <2>3. d \in Calls /\ CallInv(d)
        BY <1>1, <1>3, <1>6, <2>2 DEF Calls, CallInv
    <2> QED BY <1>2, <1>3, <2>1, <2>3, CallReplaced DEF IInv
<1>7. CASE h \notin DOMAIN recents /\ ~OnDisk(h) /\ h # Genesis
    <2>1. Gather(p)
        BY <1>7 DEF Look
    <2> QED BY <1>1, <1>2, <1>3, <1>7, <2>1, GatherCalls DEF IInv
<1> QED BY <1>4, <1>5, <1>6, <1>7

\* A good snapshot is put into the memory or onto the disk.
LEMMA PutStore ==
    ASSUME NEW f, Archive(f), NEW s, Good(s), NEW D \in SUBSET DOMAIN f,
           NEW g, g = [h \in D \cup {s.hash} |-> IF h = s.hash THEN s ELSE f[h]]
    PROVE  Archive(g) /\ DOMAIN g = D \cup {s.hash}
<1>1. s \in Snapshot /\ s.hash \in Blocks /\ Faithful(s, s.hash)
    BY DEF Good, Snapshot
<1>2. DOMAIN g = D \cup {s.hash} /\ DOMAIN g \subseteq Blocks
    BY <1>1 DEF Archive
<1>3. \A h \in DOMAIN g : g[h] \in Snapshot /\ Faithful(g[h], h)
    BY <1>1, <1>2 DEF Archive
<1>4. g \in [DOMAIN g -> Snapshot]
    BY <1>2, <1>3
<1> QED BY <1>2, <1>3, <1>4 DEF Archive

LEMMA StoredMemory ==
    ASSUME Memory, NEW s, Good(s), IsCheckpoint(s.hash), disk' = Stored(s), UNCHANGED recents
    PROVE  Memory'
<1>1. Archive(disk') /\ DOMAIN disk' = DOMAIN disk \cup {s.hash}
    <2>1. disk' = [h \in DOMAIN disk \cup {s.hash} |-> IF h = s.hash THEN s ELSE disk[h]]
        BY DEF Stored
    <2>2. Archive(disk)
        BY DEF Memory
    <2> QED BY <2>1, <2>2, PutStore
<1> QED BY <1>1 DEF Memory, Archive

\* One entry at most makes room.
LEMMA AddedAs ==
    ASSUME NEW f, NEW s, NEW g \in Added(f, s)
    PROVE  \E E \in SUBSET DOMAIN f :
              /\ g = [h \in E \cup {s.hash} |-> IF h = s.hash THEN s ELSE f[h]]
              /\ \/ E = DOMAIN f /\ (s.hash \in DOMAIN f \/ Cardinality(DOMAIN f) < CacheSize)
                 \/ \E v \in DOMAIN f : E = DOMAIN f \ {v}
BY DEF Added

LEMMA AddedMemory ==
    ASSUME Memory, NEW s, Good(s), recents' \in Added(recents, s), UNCHANGED disk
    PROVE  Memory'
<1> DEFINE D == DOMAIN recents
<1>1. Archive(recents) /\ IsFiniteSet(D) /\ Cardinality(D) \in Nat /\ Cardinality(D) <= CacheSize
    BY FS_CardinalityType DEF Memory
<1>2. PICK E \in SUBSET D :
          /\ recents' = [h \in E \cup {s.hash} |-> IF h = s.hash THEN s ELSE recents[h]]
          /\ \/ E = D /\ (s.hash \in D \/ Cardinality(D) < CacheSize)
             \/ \E v \in D : E = D \ {v}
    BY DEF Added
<1>3. Archive(recents') /\ DOMAIN recents' = E \cup {s.hash}
    BY <1>1, <1>2, PutStore
<1>4. IsFiniteSet(E \cup {s.hash}) /\ Cardinality(E \cup {s.hash}) <= CacheSize
    <2>1. CASE E = D /\ s.hash \in D
        <3>1. E \cup {s.hash} = D
            BY <2>1
        <3> QED BY <1>1, <3>1
    <2>2. CASE E = D /\ Cardinality(D) < CacheSize
        <3>1. IsFiniteSet(D \cup {s.hash})
              /\ (Cardinality(D \cup {s.hash}) = Cardinality(D)
                  \/ Cardinality(D \cup {s.hash}) = Cardinality(D) + 1)
            BY <1>1, FS_AddElement
        <3> QED BY <1>1, <2>2, <3>1, CacheAssumption
    <2>3. CASE \E v \in D : E = D \ {v}
        <3>1. PICK v \in D : E = D \ {v}
            BY <2>3
        <3>2. IsFiniteSet(E) /\ Cardinality(E) = Cardinality(D) - 1
            BY <1>1, <3>1, FS_RemoveElement
        <3>3. IsFiniteSet(E \cup {s.hash})
              /\ (Cardinality(E \cup {s.hash}) = Cardinality(E)
                  \/ Cardinality(E \cup {s.hash}) = Cardinality(E) + 1)
            BY <3>2, FS_AddElement
        <3> QED BY <1>1, <3>2, <3>3, CacheAssumption
    <2> QED BY <1>2, <2>1, <2>2, <2>3
<1> QED BY <1>3, <1>4 DEF Memory, Archive

LEMMA CreateIInv == ASSUME IInv, NEW p \in Callers, Create(p) PROVE IInv'
<1> DEFINE s == NewSnapshot(call[p].votes)
<1>1. /\ call[p].pc = "create" /\ disk' = Stored(s) /\ Found(p, s)
      /\ UNCHANGED <<mode, known, recents, tainted, crashes>>
    BY DEF Create
<1>2. call[p] \in Walk /\ CallInv(call[p]) /\ CallsInv
    BY <1>1, InWalk DEF IInv, CallsInv
<1>3. call[p].votes \in BOOLEAN
    BY <1>2, Zenon DEF Walk
<1>4. s \in Snapshot
    <2>1. Genesis \in Blocks /\ <<>> \in Seq(Blocks)
        BY Tree
    <2> QED BY <1>3, <2>1, Zenon DEF NewSnapshot, Snapshot
<1>5. s.hash = Genesis /\ s.applied = <<>>
    BY DEF NewSnapshot
<1> HIDE DEF s
<1>6. Good(s) /\ Faithful(s, call[p].hash) /\ IsCheckpoint(s.hash)
    BY <1>1, <1>2, <1>4, <1>5, Tree, GenesisCheckpoint, SoundStep DEF Good, Faithful, CallInv
<1>7. CallsInv'
    BY <1>1, <1>2, <1>4, <1>6, FoundCalls
<1>8. Memory'
    BY <1>1, <1>6, StoredMemory DEF IInv
<1> QED BY <1>1, <1>7, <1>8 DEF IInv, World

SnapshotOf(Votes) == [hash : Blocks, applied : Seq(Blocks), votes : Votes]

\* The next header follows the snapshot: apply never fails for its number,
\* and unless the header is malformed, the snapshot it makes is good.
LEMMA ApplyGood ==
    ASSUME NEW c \in Walk, CallInv(c), c.pc = "apply", c.headers # <<>>
    PROVE  /\ Applicable(c.snap, Head(c.headers))
           /\ Head(c.headers) \in Blocks \ {Genesis}
           /\ History[c.want] = History[Head(c.headers)] \o Tail(c.headers)
           /\ Head(c.headers) \notin Malformed => Good(ApplyHeader(c.snap, Head(c.headers)))
           /\ ApplyHeader(c.snap, Head(c.headers)).hash = Head(c.headers)
           /\ ApplyHeader(c.snap, Head(c.headers)).votes = c.snap.votes
           /\ Tail(c.headers) \in Seq(Blocks)
           /\ Linked(Tail(c.headers), Head(c.headers), c.want)
<1> DEFINE h == Head(c.headers)
           s == ApplyHeader(c.snap, h)
<1>1. /\ c.snap \in Snapshot /\ c.headers \in Seq(Blocks) /\ c.want \in Blocks
      /\ c.snap.hash \in Blocks /\ c.snap.applied = History[c.snap.hash]
      /\ Linked(c.headers, c.snap.hash, c.want) /\ Sound(c.snap.hash)
      /\ History[c.want] = History[c.snap.hash] \o c.headers
    BY DEF CallInv, Walk, Good, Faithful, Snapshot
<1>2. /\ h \in Blocks \ {Genesis} /\ Parent[h] = c.snap.hash
      /\ Tail(c.headers) \in Seq(Blocks) /\ Linked(Tail(c.headers), h, c.want)
    BY <1>1, LinkedPop
<1>6. c.headers = <<h>> \o Tail(c.headers)
    BY <1>1
<1> HIDE DEF h
<1>7. History[c.want] = History[h] \o Tail(c.headers)
    BY <1>1, <1>2, <1>6, PathPush
<1>8. h \notin Malformed => Sound(h)
    BY <1>1, <1>2, SoundStep
<1>3. History[h] = Append(c.snap.applied, h) /\ Number(h) = Number(c.snap.hash) + 1
    BY <1>1, <1>2, Tree
<1>4. s.hash = h /\ s.applied = Append(c.snap.applied, h) /\ s.votes = c.snap.votes
    BY <1>1 DEF ApplyHeader, Snapshot
<1>5. s \in Snapshot
    <2>1. Append(c.snap.applied, h) \in Seq(Blocks)
        BY <1>2, <1>3, Tree
    <2>3. c.snap \in SnapshotOf(BOOLEAN)
        BY <1>1, Zenon DEF Snapshot, SnapshotOf
    <2>2. \A V : \A t \in SnapshotOf(V), hd \in Blocks, a \in Seq(Blocks) :
             [t EXCEPT !.hash = hd, !.applied = a] \in SnapshotOf(V)
        BY DEF SnapshotOf
    <2> QED BY <1>2, <2>1, <2>2, <2>3 DEF ApplyHeader, Snapshot, SnapshotOf
<1> QED BY <1>2, <1>3, <1>4, <1>5, <1>7, <1>8 DEF Applicable, Good, Faithful, h

\* What Apply does with the call.
LEMMA ApplyStep ==
    ASSUME CallsInv, NEW p \in Callers, Apply(p)
    PROVE  LET c == call[p]
               d == [c EXCEPT !.snap = ApplyHeader(c.snap, Head(c.headers)), !.headers = Tail(c.headers)]
           IN  \/ Head(c.headers) \in Malformed /\ Fail(p, "malformed")
               \/ Head(c.headers) \notin Malformed /\ call' = [call EXCEPT ![p] = d]
<1>1. call[p].pc = "apply" /\ call[p].headers # <<>>
    BY DEF Apply
<1>2. call[p] \in Walk /\ CallInv(call[p])
    BY <1>1, InWalk DEF CallsInv
<1>3. Applicable(call[p].snap, Head(call[p].headers))
    BY <1>1, <1>2, ApplyGood
<1> QED BY <1>1, <1>2, <1>3 DEF Apply, CallsInv

LEMMA ApplyIInv == ASSUME IInv, NEW p \in Callers, Apply(p) PROVE IInv'
<1> DEFINE c == call[p]
           s == ApplyHeader(c.snap, Head(c.headers))
           d == [c EXCEPT !.snap = s, !.headers = Tail(c.headers)]
<1>1. /\ c.pc = "apply" /\ c.headers # <<>>
      /\ UNCHANGED <<mode, known, recents, disk, tainted, crashes>>
    BY DEF Apply
<1>2. c \in Walk /\ CallInv(c) /\ CallsInv
    BY <1>1, InWalk DEF IInv, CallsInv
<1>3. CASE Fail(p, "malformed")
    <2>1. CallsInv'
        BY <1>2, <1>3, FailCalls DEF Errors
    <2> QED BY <1>1, <2>1 DEF IInv, World, Memory
<1>4. CASE Head(c.headers) \notin Malformed /\ call' = [call EXCEPT ![p] = d]
    <2>1. /\ Good(s) /\ s.hash = Head(c.headers)
          /\ Tail(c.headers) \in Seq(Blocks) /\ Linked(Tail(c.headers), Head(c.headers), c.want)
          /\ History[c.want] = History[Head(c.headers)] \o Tail(c.headers)
        BY <1>1, <1>2, <1>4, ApplyGood
    <2> HIDE DEF s
    <2>2. /\ d.pc = "apply" /\ d.snap = s /\ d.headers = Tail(c.headers) /\ d.want = c.want
          /\ d.hash = c.hash
        BY <1>1, <1>2 DEF Walk
    <2>3. d \in Walk
        BY <1>2, <2>1 DEF Walk, Good
    <2> HIDE DEF d
    <2>4. d \in Calls /\ CallInv(d)
        BY <1>1, <1>2, <2>1, <2>2, <2>3 DEF Calls, CallInv
    <2>5. CallsInv'
        BY <1>2, <1>4, <2>4, CallReplaced
    <2> QED BY <1>1, <2>5 DEF IInv, World, Memory
<1> QED BY <1>2, <1>3, <1>4, ApplyStep

\* The errors that may come at any time.
LEMMA ErrorIInv == ASSUME IInv, NEW p \in Callers, StoreFails(p) \/ Miscount(p) PROVE IInv'
<1>1. PICK why \in Errors : Fail(p, why)
    BY DEF StoreFails, Miscount, Errors
<1>2. /\ call[p].pc \in {"create", "apply", "store"}
      /\ UNCHANGED <<mode, known, recents, disk, tainted, crashes>>
    BY DEF StoreFails, Miscount
<1>3. call[p] \in Walk /\ CallsInv
    BY <1>2, InWalk DEF IInv, CallsInv
<1>4. CallsInv'
    BY <1>1, <1>3, FailCalls
<1> QED BY <1>2, <1>4 DEF IInv, World, Memory

\* The answer: the snapshot of the block asked for.
LEMMA ReturnCalls ==
    ASSUME CallsInv, NEW p \in Callers, call[p].pc \in {"apply", "store"},
           call[p].headers = <<>>, Return(p)
    PROVE  CallsInv'
<1> DEFINE d == [pc |-> "done", want |-> call[p].want, snap |-> call[p].snap]
<1>1. call[p] \in Walk /\ CallInv(call[p])
    BY InWalk DEF CallsInv
<1>2. Good(call[p].snap) /\ call[p].snap.hash = call[p].want
    BY <1>1 DEF CallInv, Linked
<1>3. d \in Calls /\ CallInv(d)
    BY <1>1, <1>2 DEF Calls, Walk, CallInv
<1>4. call' = [call EXCEPT ![p] = d]
    BY DEF Return
<1> HIDE DEF d
<1> QED BY <1>3, <1>4, CallReplaced

LEMMA RememberIInv == ASSUME IInv, NEW p \in Callers, Remember(p) PROVE IInv'
<1> DEFINE c == call[p]
           d == [c EXCEPT !.pc = "store"]
<1>1. /\ c.pc = "apply" /\ c.headers = <<>> /\ recents' \in Added(recents, c.snap)
      /\ UNCHANGED <<mode, known, disk, tainted, crashes>>
    BY DEF Remember
<1>2. c \in Walk /\ CallInv(c) /\ CallsInv
    BY <1>1, InWalk DEF IInv, CallsInv
<1>3. Good(c.snap)
    BY <1>1, <1>2 DEF CallInv
<1>4. Memory'
    BY <1>1, <1>3, AddedMemory DEF IInv
<1>5. CASE Return(p)
    <2>1. CallsInv'
        BY <1>1, <1>2, <1>5, ReturnCalls
    <2> QED BY <1>1, <1>4, <2>1 DEF IInv, World
<1>6. CASE IsCheckpoint(c.snap.hash) /\ call' = [call EXCEPT ![p] = d]
    <2>1. /\ d \in Walk /\ d.pc = "store" /\ d.snap = c.snap /\ d.headers = c.headers
          /\ d.want = c.want /\ d.hash = c.hash
        BY <1>2 DEF Walk
    <2> HIDE DEF d
    <2>2. d \in Calls /\ CallInv(d)
        BY <1>1, <1>2, <1>6, <2>1 DEF Calls, CallInv
    <2>3. CallsInv'
        BY <1>2, <1>6, <2>2, CallReplaced
    <2> QED BY <1>1, <1>4, <2>3 DEF IInv, World
<1> QED BY <1>5, <1>6 DEF Remember

LEMMA StoreIInv == ASSUME IInv, NEW p \in Callers, Store(p) PROVE IInv'
<1>1. /\ call[p].pc = "store" /\ disk' = Stored(call[p].snap) /\ Return(p)
      /\ UNCHANGED <<mode, known, recents, tainted, crashes>>
    BY DEF Store
<1>2. CallInv(call[p]) /\ CallsInv
    BY DEF IInv, CallsInv
<1>3. Good(call[p].snap) /\ IsCheckpoint(call[p].snap.hash) /\ call[p].headers = <<>>
    BY <1>1, <1>2 DEF CallInv
<1>4. Memory'
    BY <1>1, <1>3, StoredMemory DEF IInv
<1>5. CallsInv'
    BY <1>1, <1>2, <1>3, ReturnCalls
<1> QED BY <1>1, <1>4, <1>5 DEF IInv, World

-----------------------------------------------------------------------------
(* The process and the chain database. *)

LEMMA CrashIInv == ASSUME IInv, Crash PROVE IInv'
<1>1. World'
    BY CacheAssumption DEF IInv, World, Crash
<1>2. Memory'
    <2>1. DOMAIN recents' = {} /\ recents' \in [{} -> Snapshot] /\ UNCHANGED disk
        BY DEF Crash, Empty
    <2>2. IsFiniteSet({}) /\ Cardinality({}) = 0
        BY FS_EmptySet
    <2> QED BY <2>1, <2>2, CacheAssumption DEF IInv, Memory, Archive
<1>3. CallsInv'
    BY DEF Crash, CallsInv, Calls, NoCall, CallInv
<1> QED BY <1>1, <1>2, <1>3 DEF IInv

LEMMA NextIInv == IInv /\ [Next]_vars => IInv'
<1> SUFFICES ASSUME IInv, [Next]_vars PROVE IInv'
    OBVIOUS
<1>1. CASE \E m \in {"boot", "import"} : Boot(m)
    <2>1. PICK m \in {"boot", "import"} : Boot(m)
        BY <1>1
    <2>2. tainted' \in BOOLEAN
        BY <2>1, Zenon DEF Boot
    <2>3. mode' \in {"down", "boot", "node", "import"} /\ UNCHANGED <<known, recents, disk, call, crashes>>
        BY <2>1 DEF Boot
    <2> QED BY <2>2, <2>3 DEF IInv, World, Memory, CallsInv
<1>2. CASE Serve
    <2>1. tainted' \in BOOLEAN
        BY <1>2, Zenon DEF Serve
    <2>2. mode' = "node" /\ UNCHANGED <<known, recents, disk, call, crashes>>
        BY <1>2 DEF Serve
    <2> QED BY <2>1, <2>2 DEF IInv, World, Memory, CallsInv
<1>3. CASE \E b \in Blocks \ {Genesis} : Learn(b)
    BY <1>3 DEF Learn, IInv, World, Memory, CallsInv
<1>4. CASE Crash
    BY <1>4, CrashIInv
<1>5. CASE \E p \in Callers : Request(p) \/ Step(p) \/ StoreFails(p) \/ Miscount(p)
    BY <1>5, RequestIInv, LookIInv, CreateIInv, ApplyIInv, RememberIInv, StoreIInv, ErrorIInv DEF Step
<1>6. CASE UNCHANGED vars
    BY <1>6 DEF vars, IInv, World, Memory, CallsInv
<1> QED BY <1>1, <1>2, <1>3, <1>4, <1>5, <1>6 DEF Next

LEMMA InductiveInvariant == Safe => []IInv
<1> QED BY InitIInv, NextIInv, PTL DEF Safe

-----------------------------------------------------------------------------
(* Faithfulness. *)

\* Whatever Alien.snapshot remembers in recents, stores on disk or returns for
\* a block went through the headers of that block and of no other, and recents
\* holds no more than inMemorySnapshots entries: for every tree of forks, any
\* number of concurrent callers and crashes at every step.
THEOREM FaithfulSnapshots == Spec => []SnapshotsFaithful
<1>1. IInv => SnapshotsFaithful
    <2> SUFFICES ASSUME IInv PROVE SnapshotsFaithful
        OBVIOUS
    <2>1. TypeOK
        BY DEF IInv, World, Memory, Archive, CallsInv, TypeOK
    <2>2. \A p \in Callers : call[p].pc = "done" => Faithful(call[p].snap, call[p].want)
        BY DEF IInv, CallsInv, CallInv, Good
    <2> QED BY <2>1, <2>2 DEF IInv, Memory, Archive, SnapshotsFaithful
<1> QED BY <1>1, InductiveInvariant, PTL DEF Spec

-----------------------------------------------------------------------------
(* The votes of the genesis signers. *)

\* A call has them, once it has a snapshot or is about to make one.
HasVotes(c) ==
    /\ c.pc = "create" => c.votes = TRUE
    /\ c.pc \in {"apply", "store", "done"} => c.snap.votes = TRUE

\* Until the genesis snapshot is stored, nothing but the first Finalize runs.
FirstWork(c) ==
    \/ c.pc \in {"idle", "failed"}
    \/ c.pc \in {"look", "create"} /\ c.hash = Genesis /\ c.votes = TRUE

Untouched ==
    /\ mode \in {"down", "boot"} /\ known = {Genesis} /\ DOMAIN recents = {}
    /\ \A p \in Callers : FirstWork(call[p])

VotesInv ==
    /\ \A h \in DOMAIN recents : recents[h].votes = TRUE
    /\ \A h \in DOMAIN disk : disk[h].votes = TRUE
    /\ \A p \in Callers : HasVotes(call[p])
    /\ Genesis \notin DOMAIN disk => Untouched

\* A step of p that neither stores a snapshot nor adds one to the memory.
LEMMA CallVotes ==
    ASSUME IInv, VotesInv, NEW p \in Callers, NEW d, call' = [call EXCEPT ![p] = d],
           UNCHANGED <<mode, known, recents, disk>>,
           HasVotes(d), Genesis \notin DOMAIN disk => FirstWork(d)
    PROVE  VotesInv'
<1>1. \A q \in Callers : call'[q] = IF q = p THEN d ELSE call[q]
    BY DEF IInv, CallsInv
<1> QED BY <1>1 DEF VotesInv, Untouched

\* A step of p that stores or adds a snapshot with the votes.
LEMMA SavedVotes ==
    ASSUME IInv, VotesInv, NEW p \in Callers, NEW d, call' = [call EXCEPT ![p] = d], HasVotes(d),
           UNCHANGED <<mode, known>>, Genesis \in DOMAIN disk',
           \A h \in DOMAIN recents' : recents'[h].votes = TRUE,
           \A h \in DOMAIN disk' : disk'[h].votes = TRUE
    PROVE  VotesInv'
<1>1. \A q \in Callers : call'[q] = IF q = p THEN d ELSE call[q]
    BY DEF IInv, CallsInv
<1> QED BY <1>1 DEF VotesInv

LEMMA RequestVotes ==
    ASSUME IInv, VotesInv, NEW p \in Callers, Request(p)
    PROVE  VotesInv'
<1>1. ASSUME NEW h \in Blocks, NEW parents, NEW withVotes, Ask(p, h, parents, withVotes),
             \/ mode = "boot" /\ h \in known /\ withVotes = (h = Genesis)
             \/ mode \in {"node", "import"}
      PROVE  VotesInv'
    <2> DEFINE d == Asking(h, parents, withVotes)
    <2>2. d.pc = "look" /\ d.hash = h /\ d.votes = withVotes
        BY DEF Asking
    <2>3. call' = [call EXCEPT ![p] = d] /\ UNCHANGED <<mode, known, recents, disk>>
        BY <1>1 DEF Ask
    <2> HIDE DEF d
    <2>4. HasVotes(d)
        BY <2>2 DEF HasVotes
    <2>5. Genesis \notin DOMAIN disk => FirstWork(d)
        <3> SUFFICES ASSUME Genesis \notin DOMAIN disk PROVE FirstWork(d)
            OBVIOUS
        <3>1. mode \in {"down", "boot"} /\ known = {Genesis}
            BY DEF VotesInv, Untouched
        <3>2. h = Genesis /\ withVotes = (h = Genesis)
            BY <1>1, <3>1
        <3>3. withVotes = TRUE
            BY <3>2, Zenon
        <3> QED BY <2>2, <3>2, <3>3 DEF FirstWork
    <2> QED BY <2>3, <2>4, <2>5, CallVotes
<1>2. PICK h \in Blocks : \/ AskFinalize(p, h)
                          \/ \E i \in 1..(Number(h) + 1) : AskVerify(p, h, i)
                          \/ AskKnown(p, h)
    BY CacheAssumption DEF Request
<1>3. CASE AskFinalize(p, h)
    BY <1>1, <1>3 DEF AskFinalize
<1>4. CASE \E i \in 1..(Number(h) + 1) : AskVerify(p, h, i)
    BY <1>1, <1>4 DEF AskVerify
<1>5. CASE AskKnown(p, h)
    BY <1>1, <1>5 DEF AskKnown
<1> QED BY <1>2, <1>3, <1>4, <1>5

LEMMA LookVotes ==
    ASSUME IInv, VotesInv, NEW p \in Callers, Look(p)
    PROVE  VotesInv'
<1>1. call[p].pc = "look" /\ UNCHANGED <<mode, known, recents, disk>>
    BY DEF Look
<1>2. call[p] \in Walk /\ CallsInv
    BY <1>1, InWalk DEF IInv, CallsInv
<1> DEFINE h == call[p].hash
<1>3. Genesis \notin DOMAIN disk => /\ h = Genesis /\ call[p].votes = TRUE
                                    /\ DOMAIN recents = {} /\ h \notin DOMAIN disk
    BY <1>1 DEF VotesInv, Untouched, FirstWork
<1>4. ASSUME NEW s, s.votes = TRUE, Found(p, s), Genesis \in DOMAIN disk
      PROVE  VotesInv'
    <2> DEFINE d == [call[p] EXCEPT !.pc = "apply", !.snap = s, !.parents = <<>>, !.votes = FALSE]
    <2>1. call' = [call EXCEPT ![p] = d]
        BY <1>2, <1>4 DEF Found, CallsInv
    <2>2. d.pc = "apply" /\ d.snap = s
        BY <1>2 DEF Walk
    <2> HIDE DEF d
    <2>3. HasVotes(d)
        BY <1>4, <2>2 DEF HasVotes
    <2> QED BY <1>1, <1>4, <2>1, <2>3, CallVotes
<1>5. CASE h \in DOMAIN recents
    <2>1. Found(p, recents[h]) /\ Genesis \in DOMAIN disk
        BY <1>3, <1>5 DEF Look
    <2>2. recents[h].votes = TRUE
        BY <1>5 DEF VotesInv
    <2> QED BY <1>4, <2>1, <2>2
<1>6. CASE h \notin DOMAIN recents /\ OnDisk(h)
    <2>1. Found(p, disk[h]) /\ Genesis \in DOMAIN disk /\ h \in DOMAIN disk
        BY <1>3, <1>6 DEF Look, OnDisk
    <2>2. disk[h].votes = TRUE
        BY <2>1 DEF VotesInv
    <2> QED BY <1>4, <2>1, <2>2
<1>7. CASE h \notin DOMAIN recents /\ ~OnDisk(h) /\ h = Genesis
    <2> DEFINE d == [call[p] EXCEPT !.pc = "create"]
    <2>1. call' = [call EXCEPT ![p] = d]
        BY <1>7 DEF Look
    <2>2. d.pc = "create" /\ d.hash = Genesis /\ d.votes = call[p].votes
        BY <1>2, <1>7 DEF Walk
    <2>3. Genesis \notin DOMAIN disk
        BY <1>7, GenesisCheckpoint DEF OnDisk
    <2> HIDE DEF d
    <2>4. HasVotes(d) /\ FirstWork(d)
        BY <1>3, <2>2, <2>3 DEF HasVotes, FirstWork
    <2> QED BY <1>1, <2>1, <2>4, CallVotes
<1>8. CASE h \notin DOMAIN recents /\ ~OnDisk(h) /\ h # Genesis
    <2>1. Gather(p) /\ Genesis \in DOMAIN disk
        BY <1>3, <1>8 DEF Look
    <2>2. ASSUME NEW d, call' = [call EXCEPT ![p] = d], d.pc \in {"look", "failed"}
          PROVE  VotesInv'
        <3>1. HasVotes(d)
            BY <2>2 DEF HasVotes
        <3> QED BY <1>1, <2>1, <2>2, <3>1, CallVotes
    <2>3. CASE Fail(p, "missing")
        <3> DEFINE d == [pc |-> "failed", want |-> call[p].want, why |-> "missing"]
        <3>1. call' = [call EXCEPT ![p] = d] /\ d.pc = "failed"
            BY <2>3 DEF Fail
        <3> HIDE DEF d
        <3> QED BY <2>2, <3>1
    <2>4. CASE ~Fail(p, "missing")
        <3> DEFINE d == [call[p] EXCEPT
                           !.hash = Parent[call[p].hash],
                           !.parents = IF call[p].parents # <<>>
                                       THEN SubSeq(call[p].parents, 1, Len(call[p].parents) - 1)
                                       ELSE call[p].parents,
                           !.headers = <<call[p].hash>> \o call[p].headers]
        <3>1. call' = [call EXCEPT ![p] = d]
            BY <1>1, <1>2, <1>8, <2>1, <2>4, GatherStep
        <3>2. d.pc = "look"
            BY <1>1, <1>2 DEF Walk
        <3> HIDE DEF d
        <3> QED BY <2>2, <3>1, <3>2
    <2> QED BY <2>3, <2>4
<1> QED BY <1>5, <1>6, <1>7, <1>8

LEMMA CreateVotes ==
    ASSUME IInv, VotesInv, NEW p \in Callers, Create(p)
    PROVE  VotesInv'
<1> DEFINE s == NewSnapshot(call[p].votes)
           d == [call[p] EXCEPT !.pc = "apply", !.snap = s, !.parents = <<>>, !.votes = FALSE]
<1>1. /\ call[p].pc = "create" /\ disk' = Stored(s) /\ Found(p, s)
      /\ UNCHANGED <<mode, known, recents>>
    BY DEF Create
<1>2. call[p] \in Walk /\ CallsInv
    BY <1>1, InWalk DEF IInv, CallsInv
<1>3. s.hash = Genesis /\ s.votes = call[p].votes
    BY DEF NewSnapshot
<1>4. call[p].votes = TRUE
    BY <1>1 DEF VotesInv, HasVotes
<1> HIDE DEF s
<1>5. call' = [call EXCEPT ![p] = d] /\ d.pc = "apply" /\ d.snap = s
    BY <1>1, <1>2 DEF Found, CallsInv, Walk
<1> HIDE DEF d
<1>6. HasVotes(d)
    BY <1>3, <1>4, <1>5 DEF HasVotes
<1>7. Genesis \in DOMAIN disk' /\ \A h \in DOMAIN disk' : disk'[h].votes = TRUE
    BY <1>1, <1>3, <1>4 DEF Stored, VotesInv
<1>8. \A h \in DOMAIN recents' : recents'[h].votes = TRUE
    BY <1>1 DEF VotesInv
<1> QED BY <1>1, <1>5, <1>6, <1>7, <1>8, SavedVotes

\* A walk forward is under way only after the genesis snapshot was stored.
LEMMA WalkStored ==
    ASSUME VotesInv, NEW p \in Callers, call[p].pc \in {"apply", "store"}
    PROVE  Genesis \in DOMAIN disk /\ call[p].snap.votes = TRUE
BY DEF VotesInv, Untouched, FirstWork, HasVotes

LEMMA FailVotes ==
    ASSUME IInv, VotesInv, NEW p \in Callers, NEW why, Fail(p, why),
           UNCHANGED <<mode, known, recents, disk>>
    PROVE  VotesInv'
<1> DEFINE d == [pc |-> "failed", want |-> call[p].want, why |-> why]
<1>1. call' = [call EXCEPT ![p] = d] /\ d.pc = "failed"
    BY DEF Fail
<1> HIDE DEF d
<1>2. HasVotes(d) /\ FirstWork(d)
    BY <1>1 DEF HasVotes, FirstWork
<1> QED BY <1>1, <1>2, CallVotes

LEMMA ApplyVotes ==
    ASSUME IInv, VotesInv, NEW p \in Callers, Apply(p)
    PROVE  VotesInv'
<1> DEFINE c == call[p]
           s == ApplyHeader(c.snap, Head(c.headers))
           d == [c EXCEPT !.snap = s, !.headers = Tail(c.headers)]
<1>1. c.pc = "apply" /\ c.headers # <<>> /\ UNCHANGED <<mode, known, recents, disk>>
    BY DEF Apply
<1>2. c \in Walk /\ CallInv(c) /\ CallsInv
    BY <1>1, InWalk DEF IInv, CallsInv
<1>3. CASE Fail(p, "malformed")
    BY <1>1, <1>3, FailVotes
<1>4. CASE call' = [call EXCEPT ![p] = d]
    <2>1. s.votes = c.snap.votes
        BY <1>1, <1>2, ApplyGood
    <2> HIDE DEF s
    <2>2. d.pc = "apply" /\ d.snap = s
        BY <1>1, <1>2 DEF Walk
    <2>3. Genesis \in DOMAIN disk /\ c.snap.votes = TRUE
        BY <1>1, WalkStored
    <2> HIDE DEF d
    <2>4. HasVotes(d)
        BY <2>1, <2>2, <2>3 DEF HasVotes
    <2> QED BY <1>1, <1>4, <2>3, <2>4, CallVotes
<1> QED BY <1>2, <1>3, <1>4, ApplyStep

\* What Remember and Store do with the call.
LEMMA AnswerVotes ==
    ASSUME IInv, VotesInv, NEW p \in Callers, call[p].pc \in {"apply", "store"},
           Return(p) \/ call' = [call EXCEPT ![p].pc = "store"]
    PROVE  \E d : call' = [call EXCEPT ![p] = d] /\ HasVotes(d)
<1>1. call[p] \in Walk /\ CallsInv /\ call[p].snap.votes = TRUE
    BY InWalk, WalkStored DEF IInv, CallsInv
<1>2. CASE Return(p)
    <2> DEFINE d == [pc |-> "done", want |-> call[p].want, snap |-> call[p].snap]
    <2>1. HasVotes(d)
        BY <1>1 DEF HasVotes
    <2> QED BY <1>2, <2>1 DEF Return
<1>3. CASE call' = [call EXCEPT ![p].pc = "store"]
    <2> DEFINE d == [call[p] EXCEPT !.pc = "store"]
    <2>1. d.pc = "store" /\ d.snap = call[p].snap
        BY <1>1 DEF Walk
    <2>2. call' = [call EXCEPT ![p] = d]
        BY <1>3
    <2> HIDE DEF d
    <2>3. HasVotes(d)
        BY <1>1, <2>1 DEF HasVotes
    <2> QED BY <2>2, <2>3
<1> QED BY <1>2, <1>3

LEMMA RememberVotes ==
    ASSUME IInv, VotesInv, NEW p \in Callers, Remember(p)
    PROVE  VotesInv'
<1>1. /\ call[p].pc = "apply" /\ recents' \in Added(recents, call[p].snap)
      /\ Return(p) \/ call' = [call EXCEPT ![p].pc = "store"]
      /\ UNCHANGED <<mode, known, disk>>
    BY DEF Remember
<1>2. PICK d : call' = [call EXCEPT ![p] = d] /\ HasVotes(d)
    BY <1>1, AnswerVotes
<1>3. Genesis \in DOMAIN disk /\ call[p].snap.votes = TRUE
    BY <1>1, WalkStored
<1>4. \A h \in DOMAIN recents' : recents'[h].votes = TRUE
    <2>1. PICK E \in SUBSET DOMAIN recents :
              recents' = [h \in E \cup {call[p].snap.hash} |->
                            IF h = call[p].snap.hash THEN call[p].snap ELSE recents[h]]
        BY <1>1, AddedAs, SMTT(30)
    <2> QED BY <1>3, <2>1 DEF VotesInv
<1>5. Genesis \in DOMAIN disk' /\ \A h \in DOMAIN disk' : disk'[h].votes = TRUE
    BY <1>1, <1>3 DEF VotesInv
<1> QED BY <1>1, <1>2, <1>4, <1>5, SavedVotes

LEMMA StoreVotes ==
    ASSUME IInv, VotesInv, NEW p \in Callers, Store(p)
    PROVE  VotesInv'
<1>1. /\ call[p].pc = "store" /\ disk' = Stored(call[p].snap) /\ Return(p)
      /\ UNCHANGED <<mode, known, recents>>
    BY DEF Store
<1>2. PICK d : call' = [call EXCEPT ![p] = d] /\ HasVotes(d)
    BY <1>1, AnswerVotes
<1>3. Genesis \in DOMAIN disk /\ call[p].snap.votes = TRUE
    BY <1>1, WalkStored
<1>4. Genesis \in DOMAIN disk' /\ \A h \in DOMAIN disk' : disk'[h].votes = TRUE
    BY <1>1, <1>3 DEF Stored, VotesInv
<1>5. \A h \in DOMAIN recents' : recents'[h].votes = TRUE
    BY <1>1 DEF VotesInv
<1> QED BY <1>1, <1>2, <1>4, <1>5, SavedVotes

LEMMA NextVotes ==
    ASSUME IInv, [Next]_vars, ~tainted => VotesInv
    PROVE  ~tainted' => VotesInv'
<1> SUFFICES ASSUME ~tainted' PROVE VotesInv'
    OBVIOUS
<1>1. CASE \E m \in {"boot", "import"} : Boot(m)
    <2>1. PICK m \in {"boot", "import"} : Boot(m)
        BY <1>1
    <2>2. ~tainted /\ (m = "import" => Genesis \in DOMAIN disk)
        BY <2>1 DEF Boot
    <2>3. VotesInv
        BY <2>2
    <2>4. mode' = m /\ UNCHANGED <<known, recents, disk, call>>
        BY <2>1 DEF Boot
    <2>5. Genesis \notin DOMAIN disk' => Untouched'
        BY <2>2, <2>3, <2>4 DEF VotesInv, Untouched
    <2> QED BY <2>3, <2>4, <2>5 DEF VotesInv
<1>2. CASE Serve
    <2>1. /\ mode = "boot" /\ (\E p \in Callers : call[p].pc \in {"done", "failed"})
          /\ UNCHANGED <<known, recents, disk, call>>
          /\ ~tainted
          /\ Genesis \notin DOMAIN disk => \A p \in Callers : call[p].pc # "failed"
        BY <1>2 DEF Serve
    <2>2. VotesInv
        BY <2>1
    <2>3. Genesis \in DOMAIN disk
        BY <2>1, <2>2 DEF VotesInv, Untouched, FirstWork
    <2> QED BY <2>1, <2>2, <2>3 DEF VotesInv
<1>3. CASE ~Serve /\ ~(\E m \in {"boot", "import"} : Boot(m))
    <2>1. UNCHANGED tainted
        BY <1>3 DEF Next, vars, Learn, Crash, Request, AskFinalize, AskVerify, AskKnown, Ask,
                    Step, Look, Create, Apply, Remember, Store, StoreFails, Miscount
    <2>2. VotesInv
        BY <2>1
    <2>3. CASE \E b \in Blocks \ {Genesis} : Learn(b)
        BY <2>2, <2>3 DEF Learn, VotesInv
    <2>4. CASE Crash
        <3>1. /\ mode' = "down" /\ DOMAIN recents' = {} /\ UNCHANGED <<known, disk>>
              /\ \A p \in Callers : call'[p].pc = "idle"
            BY <2>4 DEF Crash, Empty, NoCall
        <3> QED BY <2>2, <3>1 DEF VotesInv, Untouched, HasVotes, FirstWork
    <2>5. CASE \E p \in Callers : Request(p) \/ Step(p)
        BY <2>2, <2>5, RequestVotes, LookVotes, CreateVotes, ApplyVotes, RememberVotes, StoreVotes
           DEF Step
    <2>6. CASE \E p \in Callers : StoreFails(p) \/ Miscount(p)
        BY <2>2, <2>6, FailVotes DEF StoreFails, Miscount
    <2>7. CASE UNCHANGED vars
        BY <2>2, <2>7 DEF vars, VotesInv, Untouched
    <2> QED BY <1>3, <2>3, <2>4, <2>5, <2>6, <2>7 DEF Next
<1> QED BY <1>1, <1>2, <1>3

\* Unless blocks were imported into a database without a genesis snapshot, or
\* the first work of a node failed to store it, every snapshot that is
\* remembered, stored or returned descends from one made with the votes of the
\* genesis signers: whichever of the callers of Alien.snapshot comes first and
\* wherever the process crashes.
THEOREM VotesOfGenesisKept == Spec => []GenesisVotesKept
<1>1. Init => (~tainted => VotesInv)
    <2> SUFFICES ASSUME Init PROVE VotesInv
        OBVIOUS
    <2>1. /\ mode = "down" /\ known = {Genesis} /\ DOMAIN recents = {} /\ DOMAIN disk = {}
          /\ \A p \in Callers : call[p].pc = "idle"
        BY DEF Init, Empty, NoCall
    <2> QED BY <2>1 DEF VotesInv, Untouched, HasVotes, FirstWork
<1>2. IInv /\ (~tainted => VotesInv) /\ [Next]_vars => (~tainted => VotesInv)'
    BY NextVotes
<1>3. (~tainted => VotesInv) => GenesisVotesKept
    BY DEF VotesInv, HasVotes, GenesisVotesKept
<1> QED BY <1>1, <1>2, <1>3, InductiveInvariant, PTL DEF Spec, Safe

-----------------------------------------------------------------------------
(* The refinement.  The state of a call as SnapshotService has it: *)

View(c) ==
    CASE c.pc = "idle" -> [state |-> "idle"]
      [] c.pc = "failed" -> [state |-> "refused", want |-> c.want, why |-> c.why]
      [] c.pc = "done" -> [state |-> "answered", want |-> c.want, applied |-> c.snap.applied]
      [] OTHER -> [state |-> "waiting", want |-> c.want]

Views == [p \in Callers |-> ServiceView(p)]

LEMMA ViewOfWalk ==
    ASSUME NEW c, c.pc \in {"look", "create", "apply", "store"}
    PROVE  View(c) = [state |-> "waiting", want |-> c.want]
BY DEF View

LEMMA ViewOfService == \A p \in Callers : Views[p] = View(call[p])
BY DEF Views, ServiceView, View

\* A step that replaces the call of p replaces its view.
LEMMA ViewReplaced ==
    ASSUME CallsInv, NEW p \in Callers, NEW d, call' = [call EXCEPT ![p] = d]
    PROVE  Views' = [Views EXCEPT ![p] = View(d)]
<1>1. \A q \in Callers : call'[q] = IF q = p THEN d ELSE call[q]
    BY DEF CallsInv
<1>3. Views = [q \in Callers |-> View(call[q])]
    BY DEF Views, ServiceView, View
<1>4. Views' = [q \in Callers |-> View(call'[q])]
    BY DEF Views, ServiceView, View
<1> QED BY <1>1, <1>3, <1>4

\* A step inside the function is not seen.
LEMMA ViewKept ==
    ASSUME CallsInv, NEW p \in Callers, NEW d, call' = [call EXCEPT ![p] = d],
           call[p].pc \in {"look", "create", "apply", "store"},
           d.pc \in {"look", "create", "apply", "store"}, d.want = call[p].want
    PROVE  Views' = Views
<1>1. View(d) = View(call[p])
    BY ViewOfWalk
<1>2. Views' = [Views EXCEPT ![p] = View(call[p])]
    BY <1>1, ViewReplaced
<1> QED BY <1>2, ViewOfService DEF Views

\* A return with the snapshot is an answer with the history of the block.
LEMMA ReturnAnswers ==
    ASSUME CallsInv, NEW p \in Callers, call[p].pc \in {"apply", "store"},
           call[p].headers = <<>>, Return(p), UNCHANGED known
    PROVE  Service!Answer(p)
<1> DEFINE c == call[p]
           d == [pc |-> "done", want |-> c.want, snap |-> c.snap]
<1>1. c \in Walk /\ CallInv(c)
    BY InWalk DEF CallsInv
<1>2. /\ c.snap.hash = c.want /\ c.snap.applied = History[c.want]
      /\ Service!Path(c.want) \cap Malformed = {}
    BY <1>1 DEF CallInv, Linked, Good, Faithful, Sound, Service!Path
<1>3. View(d) = [state |-> "answered", want |-> c.want, applied |-> History[c.want]]
    BY <1>2 DEF View
<1>4. Views' = [Views EXCEPT ![p] = View(d)]
    BY ViewReplaced DEF Return
<1>5. Views[p] = [state |-> "waiting", want |-> c.want]
    BY ViewOfWalk, ViewOfService
<1>6. Views[p].state = "waiting" /\ Views[p].want = c.want
    BY <1>5
<1> QED BY <1>2, <1>3, <1>4, <1>6 DEF Service!Answer, Service!Answered, Views

\* A failure with a reason that holds of the path is a refusal.
LEMMA FailRefuses ==
    ASSUME CallsInv, NEW p \in Callers, call[p] \in Walk, NEW why \in Service!Reasons,
           why = "missing" => ~(Service!Path(call[p].want) \subseteq known),
           why = "malformed" => Service!Path(call[p].want) \cap Malformed # {},
           why = "count" => call[p].want # Genesis,
           Fail(p, why), UNCHANGED known
    PROVE  \E y \in Service!Reasons : Service!Refuse(p, y)
<1> DEFINE c == call[p]
           d == [pc |-> "failed", want |-> c.want, why |-> why]
<1>1. View(d) = [state |-> "refused", want |-> c.want, why |-> why]
    BY DEF View
<1>2. Views' = [Views EXCEPT ![p] = View(d)]
    BY ViewReplaced DEF Fail
<1>3. Views[p] = [state |-> "waiting", want |-> c.want]
    BY ViewOfWalk, ViewOfService DEF Walk
<1>4. Views[p].state = "waiting" /\ Views[p].want = c.want
    BY <1>3
<1>5. Service!Refuse(p, why)
    BY <1>1, <1>2, <1>4 DEF Service!Refuse, Service!Refused, Views
<1> QED BY <1>5

\* A block above Genesis that the path goes through is one of its headers.
LEMMA InPath ==
    ASSUME NEW h \in Blocks \ {Genesis}, NEW hs \in Seq(Blocks), NEW w \in Blocks,
           History[w] = History[h] \o hs
    PROVE  h \in Service!Path(w)
BY OnPath DEF Service!Path

LEMMA RequestRefines ==
    ASSUME IInv, NEW p \in Callers, Request(p)
    PROVE  \E h \in Blocks : Service!Ask(p, h)
<1>1. ASSUME NEW h \in Blocks, NEW parents, NEW withVotes, Ask(p, h, parents, withVotes)
      PROVE  Service!Ask(p, h)
    <2> DEFINE d == Asking(h, parents, withVotes)
    <2>2. View(d) = [state |-> "waiting", want |-> h]
        BY DEF Asking, View
    <2>3. Views' = [Views EXCEPT ![p] = View(d)]
        BY <1>1, ViewReplaced DEF Ask, IInv
    <2>4. Views[p].state # "waiting"
        <3>1. call[p].pc \in {"idle", "done", "failed"}
            BY <1>1 DEF Ask, Free
        <3>2. View(call[p]).state # "waiting"
            <4>1. CASE call[p].pc = "idle" BY <4>1 DEF View
            <4>2. CASE call[p].pc = "done" BY <4>2 DEF View
            <4>3. CASE call[p].pc = "failed" BY <4>3 DEF View
            <4> QED BY <3>1, <4>1, <4>2, <4>3
        <3> QED BY <3>2, ViewOfService
    <2>5. UNCHANGED known
        BY <1>1 DEF Ask
    <2> QED BY <2>2, <2>3, <2>4, <2>5 DEF Service!Ask, Service!Waiting, Views
<1>2. PICK h \in Blocks : \/ AskFinalize(p, h)
                          \/ \E i \in 1..(Number(h) + 1) : AskVerify(p, h, i)
                          \/ AskKnown(p, h)
    BY CacheAssumption DEF Request
<1>3. CASE AskFinalize(p, h)
    BY <1>1, <1>3 DEF AskFinalize
<1>4. CASE \E i \in 1..(Number(h) + 1) : AskVerify(p, h, i)
    BY <1>1, <1>4 DEF AskVerify
<1>5. CASE AskKnown(p, h)
    BY <1>1, <1>5 DEF AskKnown
<1> QED BY <1>2, <1>3, <1>4, <1>5

LEMMA LookRefines ==
    ASSUME IInv, NEW p \in Callers, Look(p)
    PROVE  (\E why \in Service!Reasons : Service!Refuse(p, why)) \/ UNCHANGED <<known, Views>>
<1>1. call[p].pc = "look" /\ UNCHANGED known
    BY DEF Look
<1>2. call[p] \in Walk /\ CallsInv
    BY <1>1, InWalk DEF IInv, CallsInv
<1> DEFINE h == call[p].hash
<1>3. ASSUME NEW s, Found(p, s) PROVE Views' = Views
    <2> DEFINE d == [call[p] EXCEPT !.pc = "apply", !.snap = s, !.parents = <<>>, !.votes = FALSE]
    <2>1. call' = [call EXCEPT ![p] = d]
        BY <1>2, <1>3 DEF Found, CallsInv
    <2>2. d.pc = "apply" /\ d.want = call[p].want
        BY <1>2 DEF Walk
    <2> HIDE DEF d
    <2> QED BY <1>1, <1>2, <2>1, <2>2, ViewKept
<1>4. CASE h \in DOMAIN recents
    BY <1>1, <1>3, <1>4 DEF Look
<1>5. CASE h \notin DOMAIN recents /\ OnDisk(h)
    BY <1>1, <1>3, <1>5 DEF Look
<1>6. CASE h \notin DOMAIN recents /\ ~OnDisk(h) /\ h = Genesis
    <2> DEFINE d == [call[p] EXCEPT !.pc = "create"]
    <2>1. call' = [call EXCEPT ![p] = d]
        BY <1>6 DEF Look
    <2>2. d.pc = "create" /\ d.want = call[p].want
        BY <1>2 DEF Walk
    <2> HIDE DEF d
    <2> QED BY <1>1, <1>2, <2>1, <2>2, ViewKept
<1>7. CASE h \notin DOMAIN recents /\ ~OnDisk(h) /\ h # Genesis
    <2>1. Gather(p)
        BY <1>7 DEF Look
    <2> DEFINE d == [call[p] EXCEPT
                       !.hash = Parent[call[p].hash],
                       !.parents = IF call[p].parents # <<>>
                                   THEN SubSeq(call[p].parents, 1, Len(call[p].parents) - 1)
                                   ELSE call[p].parents,
                       !.headers = <<call[p].hash>> \o call[p].headers]
    <2>2. (Fail(p, "missing") /\ h \notin known) \/ call' = [call EXCEPT ![p] = d]
        BY <1>1, <1>2, <1>7, <2>1, GatherStep
    <2>3. d.pc = "look" /\ d.want = call[p].want
        BY <1>1, <1>2 DEF Walk
    <2> HIDE DEF d
    <2>4. CASE call' = [call EXCEPT ![p] = d]
        BY <1>1, <1>2, <2>3, <2>4, ViewKept
    <2>5. CASE Fail(p, "missing") /\ h \notin known
        <3>1. /\ h \in Blocks \ {Genesis} /\ call[p].headers \in Seq(Blocks) /\ call[p].want \in Blocks
              /\ History[call[p].want] = History[h] \o call[p].headers
            BY <1>1, <1>2, <1>7 DEF Walk, CallsInv, CallInv
        <3>2. h \in Service!Path(call[p].want)
            BY <3>1, InPath
        <3>3. "missing" \in Service!Reasons
            BY DEF Service!Reasons
        <3> QED BY <1>1, <1>2, <2>5, <3>2, <3>3, FailRefuses
    <2> QED BY <2>2, <2>4, <2>5
<1> QED BY <1>4, <1>5, <1>6, <1>7

LEMMA CreateRefines ==
    ASSUME IInv, NEW p \in Callers, Create(p)
    PROVE  UNCHANGED <<known, Views>>
<1> DEFINE s == NewSnapshot(call[p].votes)
           d == [call[p] EXCEPT !.pc = "apply", !.snap = s, !.parents = <<>>, !.votes = FALSE]
<1>1. call[p].pc = "create" /\ Found(p, s) /\ UNCHANGED known
    BY DEF Create
<1>2. call[p] \in Walk /\ CallsInv
    BY <1>1, InWalk DEF IInv, CallsInv
<1> HIDE DEF s
<1>3. call' = [call EXCEPT ![p] = d] /\ d.pc = "apply" /\ d.want = call[p].want
    BY <1>1, <1>2 DEF Found, CallsInv, Walk
<1> HIDE DEF d
<1> QED BY <1>1, <1>2, <1>3, ViewKept

LEMMA ApplyRefines ==
    ASSUME IInv, NEW p \in Callers, Apply(p)
    PROVE  (\E why \in Service!Reasons : Service!Refuse(p, why)) \/ UNCHANGED <<known, Views>>
<1> DEFINE c == call[p]
           s == ApplyHeader(c.snap, Head(c.headers))
           d == [c EXCEPT !.snap = s, !.headers = Tail(c.headers)]
<1>1. c.pc = "apply" /\ c.headers # <<>> /\ UNCHANGED known
    BY DEF Apply
<1>2. c \in Walk /\ CallInv(c) /\ CallsInv
    BY <1>1, InWalk DEF IInv, CallsInv
<1>3. CASE Head(c.headers) \in Malformed /\ Fail(p, "malformed")
    <2>1. /\ Head(c.headers) \in Blocks \ {Genesis} /\ Tail(c.headers) \in Seq(Blocks)
          /\ c.want \in Blocks /\ History[c.want] = History[Head(c.headers)] \o Tail(c.headers)
        BY <1>1, <1>2, ApplyGood DEF Walk
    <2>2. Head(c.headers) \in Service!Path(c.want)
        BY <2>1, InPath
    <2>3. "malformed" \in Service!Reasons
        BY DEF Service!Reasons
    <2> QED BY <1>1, <1>2, <1>3, <2>2, <2>3, FailRefuses
<1>4. CASE call' = [call EXCEPT ![p] = d]
    <2> HIDE DEF s
    <2>1. d.pc = "apply" /\ d.want = c.want
        BY <1>1, <1>2 DEF Walk
    <2> HIDE DEF d
    <2> QED BY <1>1, <1>2, <1>4, <2>1, ViewKept
<1> QED BY <1>2, <1>3, <1>4, ApplyStep

LEMMA ErrorRefines ==
    ASSUME IInv, NEW p \in Callers, StoreFails(p) \/ Miscount(p)
    PROVE  \E why \in Service!Reasons : Service!Refuse(p, why)
<1>1. call[p].pc \in {"create", "apply", "store"} /\ UNCHANGED known
    BY DEF StoreFails, Miscount
<1>2. call[p] \in Walk /\ CallInv(call[p]) /\ CallsInv
    BY <1>1, InWalk DEF IInv, CallsInv
<1>3. "disk" \in Service!Reasons /\ "count" \in Service!Reasons
    BY DEF Service!Reasons
<1>4. CASE StoreFails(p)
    BY <1>1, <1>2, <1>3, <1>4, FailRefuses DEF StoreFails
<1>5. CASE Miscount(p)
    <2>1. call[p].want # Genesis
        BY <1>1, <1>2, <1>5 DEF Miscount, CallInv
    <2> QED BY <1>1, <1>2, <1>3, <1>5, <2>1, FailRefuses DEF Miscount
<1> QED BY <1>4, <1>5

LEMMA RememberRefines ==
    ASSUME IInv, NEW p \in Callers, Remember(p)
    PROVE  Service!Answer(p) \/ UNCHANGED <<known, Views>>
<1> DEFINE d == [call[p] EXCEPT !.pc = "store"]
<1>1. /\ call[p].pc = "apply" /\ call[p].headers = <<>> /\ UNCHANGED known
      /\ Return(p) \/ call' = [call EXCEPT ![p] = d]
    BY DEF Remember
<1>2. call[p] \in Walk /\ CallsInv
    BY <1>1, InWalk DEF IInv, CallsInv
<1>3. d.pc = "store" /\ d.want = call[p].want
    BY <1>2 DEF Walk
<1> HIDE DEF d
<1> QED BY <1>1, <1>2, <1>3, ViewKept, ReturnAnswers

LEMMA StoreRefines == ASSUME IInv, NEW p \in Callers, Store(p) PROVE Service!Answer(p)
<1>1. call[p].pc = "store" /\ Return(p) /\ UNCHANGED known
    BY DEF Store
<1>2. call[p].headers = <<>> /\ CallsInv
    BY <1>1 DEF IInv, CallsInv, CallInv
<1> QED BY <1>1, <1>2, ReturnAnswers

LEMMA NextRefines ==
    ASSUME IInv, [Next]_vars
    PROVE  [Service!Next]_(Service!vars)
<1>1. UNCHANGED <<known, Views>> => UNCHANGED Service!vars
    BY DEF Service!vars, Views
<1>2. CASE (\E m \in {"boot", "import"} : Boot(m)) \/ Serve \/ UNCHANGED vars
    <2>1. UNCHANGED <<known, call>>
        BY <1>2 DEF Boot, Serve, vars
    <2>2. Views' = Views
        BY <2>1 DEF Views, ServiceView
    <2> QED BY <1>1, <2>1, <2>2
<1>3. CASE \E b \in Blocks \ {Genesis} : Learn(b)
    <2>1. PICK b \in Blocks \ {Genesis} : Learn(b)
        BY <1>3
    <2>2. UNCHANGED call /\ b \notin known /\ Parent[b] \in known /\ known' = known \cup {b}
        BY <2>1 DEF Learn
    <2>3. Views' = Views
        BY <2>2 DEF Views, ServiceView
    <2>4. Service!Learn(b)
        BY <2>2, <2>3 DEF Service!Learn, Views
    <2> QED BY <2>4 DEF Service!Next
<1>4. CASE Crash
    <2>1. \A p \in Callers : call'[p].pc = "idle"
        BY <1>4 DEF Crash, NoCall
    <2>2. Views' = [p \in Callers |-> [state |-> "idle"]]
        BY <2>1 DEF Views, ServiceView
    <2>3. Service!Crash
        BY <1>4, <2>2 DEF Crash, Service!Crash, Service!Idle, Views
    <2> QED BY <2>3 DEF Service!Next
<1>5. CASE \E p \in Callers : Request(p) \/ Step(p) \/ StoreFails(p) \/ Miscount(p)
    <2>1. PICK p \in Callers : Request(p) \/ Step(p) \/ StoreFails(p) \/ Miscount(p)
        BY <1>5
    <2>2. (\E h \in Blocks : Service!Ask(p, h)) \/ Service!Return(p) \/ UNCHANGED <<known, Views>>
        BY <2>1, RequestRefines, LookRefines, CreateRefines, ApplyRefines, RememberRefines,
           StoreRefines, ErrorRefines DEF Step, Service!Return
    <2> QED BY <1>1, <2>2 DEF Service!Next
<1> QED BY <1>2, <1>3, <1>4, <1>5 DEF Next

\* Alien.snapshot implements the safety part of SnapshotService: every call is
\* answered with the history of its block, without a malformed header, or
\* refused for one of four reasons, each with what it says of the path: a
\* header on the way is neither in the database nor given, one is malformed,
\* the votes do not add up after some header was applied, or a snapshot could
\* not be stored; whatever other callers, evictions, checkpoints, failed
\* stores and crashes do.  apply is never given headers out of sequence.
THEOREM CacheImplementsService == Safe => Service!Safe
<1>1. Init => Service!Init
    <2> SUFFICES ASSUME Init PROVE Service!Init
        OBVIOUS
    <2>1. \A p \in Callers : call[p].pc = "idle"
        BY DEF Init, NoCall
    <2>2. Views = [p \in Callers |-> [state |-> "idle"]]
        BY <2>1 DEF Views, ServiceView
    <2> QED BY <2>2 DEF Init, Service!Init, Service!Idle, Views
<1>2. IInv /\ [Next]_vars => [Service!Next]_(Service!vars)
    BY NextRefines
<1> QED BY <1>1, <1>2, InductiveInvariant, PTL DEF Safe, Service!Safe

=============================================================================
