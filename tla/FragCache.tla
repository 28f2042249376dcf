----------------------------- MODULE FragCache ------------------------------
(***************************************************************************)
(* UnassociatedFragCache of performance/src/frag_cache.rs: a hash table of *)
(* packets, two places for each, over a ring buffer of their fragments.    *)
(* Fragments come straight from the network, before any authentication:    *)
(* in any order, again and again, and lying about how many there are.  The *)
(* cache is behind a mutex, so that calls of it are atomic; a fragment is  *)
(* received at the time read while it is held.                             *)
(*                                                                         *)
(* The memory of the ring is MaybeUninit: frags[i] is Nothing if it holds  *)
(* nothing, whatever bits were left behind by a move or a drop.            *)
(***************************************************************************)
EXTENDS Naturals, Sequences, FiniteSetsExt

CONSTANTS
    Packets,           \* hashes of a remote address and a nonce; 0 is never one
    Nothing,
    MapSize,           \* MAX_UNASSOCIATED_PACKETS
    RingSize,          \* MAX_UNASSOCIATED_FRAGMENTS
    MaxFragments,      \* MAX_FRAGMENTS
    MaxPacketSize,     \* MAX_UNASSOCIATED_PACKET_SIZE
    MaxSize,           \* bound: the size of a fragment
    ResendTime, AssemblyTimeout,
    MaxTime            \* bound: the clock

ASSUME FragCacheAssumption ==
    /\ {MapSize, RingSize, MaxFragments, MaxPacketSize, MaxSize, ResendTime, AssemblyTimeout, MaxTime} \subseteq Nat
    /\ MapSize >= 2
    /\ MaxFragments < RingSize                     \* the debug_assert of assemble
    /\ Nothing \notin Packets /\ Nothing \notin Nat /\ Nothing \notin [key : Packets, no : Nat, count : Nat]

VARIABLES clock,
          places,      \* places[p]: the indices idx0 and idx1 that dos_salt gives to packet p
          cache,
          assembled    \* ret_assembled of the last call

fragCacheVars == <<clock, places, cache, assembled>>

Slots == 0 .. RingSize - 1
Entries == 0 .. MapSize - 1

Vacant == [key |-> Nothing, frags_idx |-> 0, fragment_have |-> {}, fragment_count |-> 0, packet_size |-> 0,
           creation_time |-> 0]

New == [first_unused |-> 0, unused_size |-> RingSize, map |-> [i \in Entries |-> Vacant],
        frags |-> [s \in Slots |-> Nothing], map_idx |-> [s \in Slots |-> Nothing]]

\* The slot of the ring n places after slot s.
After(s, n) == (s + n) % RingSize

FirstUsed(c) == After(c.first_unused, c.unused_size)

\* The slots of an entry, in the order of its fragments.
SlotsOf(e) == {After(e.frags_idx, n) : n \in 0 .. e.fragment_count - 1}

-----------------------------------------------------------------------------

\* Mutant: only the slots of the entry are given back, not the holes behind them.
Reclaimed_Own(c, e) ==
    IF FirstUsed(c) = e.frags_idx THEN c.unused_size + e.fragment_count ELSE c.unused_size

\* The end of invalidate: if e was the first entry of the ring, the unused part grows up to
\* the next slot that is in use.
Reclaimed(c, e) ==
    LET used == RingSize - c.unused_size
        skip == Min({n \in 0 .. used : n = used \/ c.map_idx[After(FirstUsed(c), n)] # Nothing})
    IN IF FirstUsed(c) = e.frags_idx THEN c.unused_size + skip ELSE c.unused_size

\* invalidate: the fragments e has are dropped, or were moved out, either way they are gone.
Invalidate(c, i) ==
    LET e     == c.map[i]
        freed == [c EXCEPT !.map_idx = [s \in Slots |-> IF s \in SlotsOf(e) THEN Nothing ELSE @[s]],
                           !.frags = [s \in Slots |->
                               IF \E n \in e.fragment_have : s = After(e.frags_idx, n) THEN Nothing ELSE @[s]],
                           !.map[i] = Vacant]
    IN [freed EXCEPT !.unused_size = Reclaimed(freed, e)]

\* Mutant: the oldest entry makes room whatever its age.
IsExpired_Always(e, timeout, now) == TRUE

IsExpired(e, timeout, now) == e.creation_time + timeout <= now

\* An iteration of check_for_expiry_inner: the first entry of the ring goes if it is expired.
DropFirst(c, timeout, now) ==
    LET first == c.map_idx[FirstUsed(c)]
    IN IF c.unused_size < RingSize /\ IsExpired(c.map[first], timeout, now) THEN Invalidate(c, first) ELSE c

\* check_for_expiry_inner: one entry after the other goes, until one is not expired; there are
\* at most MapSize of them.
CheckForExpiry(cache0, timeout, now) ==
    LET after[n \in 0 .. MapSize] == IF n = 0 THEN cache0 ELSE DropFirst(after[n - 1], timeout, now)
    IN after[MapSize]

-----------------------------------------------------------------------------
(* assemble *)

\* Which of its two places have the packet, and which of them are free.
Own(c, p)  == {n \in 1 .. 2 : c.map[places[p][n]].key = p}
Free(c, p) == {n \in 1 .. 2 : c.map[places[p][n]].key = Nothing}

\* The first of some of the places of a packet is preferred.
Preferred(p, ns) == places[p][Min(ns)]

\* Make room for a new entry by dropping what is older than a resend.
MakeRoom(p, count) ==
    IF Own(cache, p) = {} /\ (Free(cache, p) = {} \/ count > cache.unused_size)
    THEN CheckForExpiry(cache, ResendTime, clock) ELSE cache

\* Mutant: the ring is not asked whether it has room.
HasRoom_Always(c, count) == TRUE

HasRoom(c, count) == count <= c.unused_size

NewEntry(c, p, i, count) ==
    LET e == [key |-> p, frags_idx |-> c.first_unused, fragment_have |-> {}, fragment_count |-> count,
              packet_size |-> 0, creation_time |-> clock]
    IN [c EXCEPT !.map[i] = e,
                 !.map_idx = [s \in Slots |-> IF s \in SlotsOf(e) THEN i ELSE @[s]],
                 !.first_unused = After(@, count),
                 !.unused_size = @ - count]

\* Mutant: the number of fragments is not compared with that of the first one.
AcceptsFragment_AnyCount(e, no, count, size) ==
    no \notin e.fragment_have /\ e.packet_size + size <= MaxPacketSize

AcceptsFragment(e, no, count, size) ==
    no \notin e.fragment_have /\ count = e.fragment_count /\ e.packet_size + size <= MaxPacketSize

\* Mutant: a packet is as old as its latest fragment.
Received_Refreshes(e, no, size) ==
    [e EXCEPT !.packet_size = @ + size, !.fragment_have = @ \cup {no}, !.creation_time = clock]

Received(e, no, size) == [e EXCEPT !.packet_size = @ + size, !.fragment_have = @ \cup {no}]

\* The cache after the fragment was put into entry i, and the packet if it was the last one.
Store(c, i, fragment, size) ==
    LET e      == c.map[i]
        stored == [c EXCEPT !.map[i] = Received(e, fragment.no, size),
                            !.frags[After(e.frags_idx, fragment.no)] = fragment]
    IN IF ~AcceptsFragment(e, fragment.no, fragment.count, size)
       THEN cache' = c /\ assembled' = <<>>
       ELSE IF stored.map[i].fragment_have = 0 .. fragment.count - 1
       THEN /\ assembled' = [n \in 1 .. fragment.count |-> stored.frags[After(e.frags_idx, n - 1)]]
            /\ cache' = Invalidate(stored, i)
       ELSE cache' = stored /\ assembled' = <<>>

\* Packets of one fragment never get here.
Assemble(p, no, count, size) ==
    LET c    == MakeRoom(p, count)
        own  == Own(c, p)
        free == Free(c, p)
        fragment == [key |-> p, no |-> no, count |-> count]
    IN /\ no < count /\ count <= MaxFragments /\ size <= MaxPacketSize
       /\ IF own # {} THEN Store(c, Preferred(p, own), fragment, size)
          ELSE IF free # {} /\ HasRoom(c, count)
          THEN Store(NewEntry(c, p, Preferred(p, free), count), Preferred(p, free), fragment, size)
          ELSE cache' = c /\ assembled' = <<>>
       /\ UNCHANGED <<clock, places>>

\* check_for_expiry, called by service_inner with the time at which the service began: fragments
\* that came in since then are younger than that.
Service ==
    /\ \E now \in 0 .. clock : cache' = CheckForExpiry(cache, AssemblyTimeout, now)
    /\ assembled' = <<>>
    /\ UNCHANGED <<clock, places>>

Tick ==
    /\ clock < MaxTime
    /\ clock' = clock + 1
    /\ UNCHANGED <<places, cache, assembled>>

FragCacheInit ==
    /\ clock = 0
    /\ places \in [Packets -> {<<i, j>> : i \in Entries, j \in Entries}]
    /\ \A p \in Packets : places[p][1] # places[p][2]
    /\ cache = New
    /\ assembled = <<>>

FragCacheNext ==
    \/ Tick \/ Service
    \/ \E p \in Packets, no \in 0 .. MaxFragments, count \in 2 .. MaxFragments + 1, size \in 1 .. MaxSize :
           Assemble(p, no, count, size)

FragCacheSpec == FragCacheInit /\ [][FragCacheNext]_fragCacheVars

-----------------------------------------------------------------------------

Live == {i \in Entries : cache.map[i].key # Nothing}

\* The ring is what its two counters say: nothing is in the unused part, every slot of the
\* rest that is taken belongs to the live entry it names, no two of which overlap, and the
\* first of them is taken - what the debug_assert of check_for_expiry_inner relies on.
RingConsistent ==
    LET used == {After(FirstUsed(cache), n) : n \in 0 .. RingSize - cache.unused_size - 1}
    IN /\ \A s \in Slots : cache.map_idx[s] # Nothing => s \in used
       /\ \A i \in Entries, s \in Slots :
              cache.map_idx[s] = i <=> i \in Live /\ s \in SlotsOf(cache.map[i])
       /\ used # {} => cache.map_idx[FirstUsed(cache)] # Nothing

\* A slot is initialised if and only if a live entry has the fragment it holds: no fragment is
\* read or dropped that was never written, none is dropped twice, none is overwritten or leaked.
FragmentsOwned ==
    \A s \in Slots :
        LET owners == {i \in Live : \E n \in cache.map[i].fragment_have :
                                        s = After(cache.map[i].frags_idx, n)}
        IN /\ (cache.frags[s] # Nothing) = (owners # {})
           /\ Cardinality(owners) <= 1

\* What assemble returns is one packet, all of it and in order.
AssembledWhole ==
    assembled # <<>> =>
        LET first == Head(assembled)
        IN /\ Len(assembled) = first.count
           /\ \A n \in 1 .. Len(assembled) : assembled[n] = [first EXCEPT !.no = n - 1]

\* The ring is in the order of age, so that the time at which check_for_expiry stops is the
\* time at which the next packet expires, and no packet stays behind a younger one.
OldestFirst ==
    \A i \in Live : cache.map[cache.map_idx[FirstUsed(cache)]].creation_time <= cache.map[i].creation_time

\* However full the cache is, a packet has the time of a resend to be completed.
NotEvictedEarly ==
    [][\A i \in Live :
        \/ cache'.map[i].key = cache.map[i].key
        \/ assembled' # <<>> /\ Head(assembled').key = cache.map[i].key
        \/ cache.map[i].creation_time + ResendTime <= clock]_fragCacheVars

=============================================================================
