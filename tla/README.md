# ZSSP in TLA+

TLA+ models of the two implementations of the Zerotier Secure Session Protocol: the multi-threaded
one in `performance/src/` and the reference one in `reference/src/` (paths below are relative to
`performance/src/` unless they begin with `reference/`), TLC configurations that check them on small instances, and TLAPS proofs of the invariants that matter
most. The whitepaper is `whitepaper/zssp.tex`.

## 1. Inventory

| Component | State | Operations | What makes it correct |
|---|---|---|---|
| **Zeta automaton**, `zeta.rs` | per session: `beta` (Null, A1, A3, S1, S2, R1, R2), two `DuplexKey`s and `key_index`, two ratchet states, timers, `was_bob` | `trans_to_a1`, `received_{x1,x2,x3,c1,c2,d,k1,k2}_trans`, `timeout_trans`, `process_timers`, `expire` | the two sides never lose a common key; handlers find the keys they unwrap; one side answers a rekey; old packets undo nothing |
| **Context**, `zssp.rs` | `session_map` (key id to session), `session_queue`, `next_service_time`, buffers | `open`, `receive`, `send`, `service` | every key id a session listens on is routed, no other; no deadlock; every deadline is served |
| **Handshake cache**, `handshake_cache.rs` | a fixed number of `StateB2` with expiry times | `insert`, `remove`, `service` | a handshake is used at most once |
| **Ratchet states**, `ratchet_state.rs` and the application's storage | one or two ratchet states per peer, persistent | `save_ratchet_state` (compare and swap), `restore_by_fingerprint`, `restore_by_identity` | storage does not go back; a peer keeps a ratchet state that the other has had, across failures |
| **Counter window**, `antireplay.rs` | `L` atomic words | `check`, `update` | a counter is accepted once; packets that are not late are accepted |
| **Challenge**, `challenge.rs` | counter, salt, counter window | `process_hello`, `respond_to_challenge` | an accepted Hello comes from an address that received a challenge; a response counts once |
| **Sending**, `zeta.rs` (`send_payload`, `send_control`, `get_counter`) | `send_counter`, `key_creation_counter`, `timeout_timer` | send, early rekey, expiry | no nonce is used twice with a key; a key's use is bounded |
| **Locks**, `zssp.rs`, `zeta.rs` | `session_queue`, `state_machine_lock`, `state`, `session_map` | all of the API | no deadlock, every call returns |
| **Service queue**, `indexed_heap.rs`, `zssp.rs` | heap of deadlines | `service_inner`, `change_priority`, `reduce_next_service_time` | the earliest deadline is at the head; the application is told of every deadline in time |
| **Defragmentation**, `fragged.rs`, `frag_cache.rs` | per session: slots with bitmaps; before there is one: a hash table over a ring of fragments | `send_with_fragmentation`, `assemble`, `check_for_expiry` | a packet is assembled from its own fragments, all of them; every buffer is owned once |
| **Cryptography**, `symmetric_state.rs`, `crypto*/` | – | – | not modelled |
| **Reference sessions**, `reference/src/zeta.rs`, `context.rs` | the same automaton, single-threaded, in `RefCell`s: `session_map`, `sessions`, `b2_map` | the same handlers, `service`, `Drop` | handlers find the keys they unwrap; `sessions` has the live sessions; the packet a session waits for finds it |
| **Reference fragmentation**, `reference/src/fragmentation.rs` | one `Buffer` per nonce | `send_with_fragmentation`, `received_fragment`, `service` | a packet comes out whole, also when it is resent over another MTU |

How they interact. `Context::receive` finds the session of a key id in `session_map`, defragments,
checks the counter window of the session, and calls the handler of the packet's type; a Hello passes
the challenge first, an X3 takes its `StateB2` from the handshake cache. Handlers take the session's
`state_machine_lock`, look at `state` under a read lock, call the application to save ratchet states,
and enter the next state under the write lock; they then change the session's priority in
`session_queue` and send their answer. `service` takes sessions from the queue and runs
`process_timers`. Any number of threads of the application may call any of this at once.

What is hard: the interleaving of two state machines over a network that loses, repeats, delays and
reorders; restarts that keep only storage; storage that refuses or fails half-way through a handler;
counters at the end of their range under concurrent use; locks released between a decision and its
effect; a lock order that only comments state. `PROJECT.json` lists these hazards line by line.

## 2. Modules

| Module | Models | Checked by | Proved in |
|---|---|---|---|
| `Zeta` | the automaton of both peers, `session_map`, handshake cache, storage, network | `ZetaHandshake`, `ZetaRekey`, `ZetaRatchet`, `ZetaSecondFingerprint` | `Zeta_proofs` |
| `ZetaStorage` | `Zeta` with the history of what each peer has saved | `ZetaHandshake` | `Zeta_proofs` |
| `Word`, `Window` | machine words that wrap; `antireplay.rs` as operators on them | through their users | `Window_proofs` (lemmas) |
| `Process` | the threads of a process | through its users | – |
| `KeyAgreement` | abstract: how the two ends of a session change keys | through `ZetaAgreement` | implemented by `Zeta`: `Zeta_proofs` |
| `ZetaAgreement` | `Zeta` implements `KeyAgreement`; fairness of the timeouts | `ZetaRekey`, `ZetaRatchet` | `Zeta_proofs` |
| `AntiReplay` | a session's window under concurrent receivers | `Threads` | `Receive_proofs` |
| `Challenge` | both sides of the challenge, on `Window` | `Receive`, `ChallengeTwice` | `Challenge_proofs` |
| `Transport` | send counter, key lifetime, timeout timer, several threads | `Threads`, `TransportEarlyTimeout` | `Transport_proofs` |
| `Locks` | lock instructions of every operation | `Threads`, `LocksUnordered` | `Locks_proofs` |
| `IndexedHeap` | `indexed_heap.rs` as operators on a heap | through `ServiceQueue`; on its own: `HeapOrder` | `ServiceQueue_proofs` (lemmas) |
| `ServiceQueue` | timers, `session_queue`, `next_service_time`, `service_inner`, slots of the handshake cache, several threads | `ServiceQueue` | `ServiceQueue_proofs` |
| `Fragged` | both senders' fragmentation and the session's `Fragged` buffers | `Receive` | `Receive_proofs` |
| `FragCache` | `frag_cache.rs`, the fragments that have no session yet | `Receive` | `Receive_proofs` |
| `Reference` | sessions and maps of the reference implementation | `Reference` | `Reference_proofs` |
| `DefragBuffer` | its fragmentation | `Reference` | `Reference_proofs` |

`MC*` modules extend these with the symmetry sets and, for `Zeta`, an initial state after one
completed handshake. `MCReceive` has what a fragment passes in `Context::receive` before a handler sees
its packet: the defragmenter of its session or the one for fragments without a session, by its key id,
and for a Hello the challenge. The three share no state, so that a behaviour of all is one of each,
interleaved, and its behaviours use one of them (`stage`). `MCThreads` does the same for what the
threads of a process share: the locks, the send side of a session and its receive window (`part`), and
`MCReference` for `Reference` and `DefragBuffer` (`layer`). `MCIndexedHeap` runs the heap alone, with
more entries than `ServiceQueue` can be checked with.

### Zeta

One action is one handler run to its end; `state_machine_lock` serialises the handlers of a session,
and `Transport` and `Locks` look at what happens inside and between the lock sections. `zeta[p][s]`
is the session in slot `s` of peer `p`; `cur` and `nxt` are `key_ref(false)` and `key_ref(true)`, so
that `key_index ^= true` is `Flip`. The network is a set of packets from which anything may be
received at any time and any number of times, except that control packets of a session (C1, C2, D,
K1, K2) are consumed, which is what the counter window does (`AntiReplay`); a resend puts them back.
Loss is a packet that is never received.

Cryptography is perfect. Whoever completes a handshake draws a number, which stands for the ratchet
state, the key-exchange key and the transport key derived from it; a packet opens iff the numbers
agree. Numbers are drawn in increasing order, which is what "older" means in `KeysAgreed` and
`StoreAdvances`. `origin` is a history field that pairs the two ends of a session.

Timers are abstract: a timeout or resend may fire at any moment. With `Punctual`, two orders that the
settings fix are kept: the initiator gives up A3 after `initial_offer_timeout` (10 s,
`application.rs:17`, set at `zeta.rs:747` when X2 arrives), by when the responder has dropped the
handshake, kept for `fragment_assembly_timeout` (5 s, `handshake_cache.rs:60`) from before X2 was
sent; and R2 lasts `rekey_timeout` from a moment after the R1 it answers began its own
(`zeta.rs:1253`, `1468`). Only `ZetaRatchet` needs it. It assumes that the application serves its
sessions in time, and that no sender writes an early timeout into R2 (`TransportEarlyTimeout`).
`ZetaHandshake` and `ZetaRekey` do without.

The application's decisions are inputs: it may accept, reject or silently reject an X3, and the three
downgrade policies are constants. `check_accept_session` expires the other sessions with the peer
first, as its documentation requires (`application.rs:232`). The X2 handler's debug-assertion path,
which restarts the handshake, is under `DebugAssertions`; storage errors are under `StorageErrors`.

Where one action stands for more than one lock section of the code:

- An X3 finds its handshake under the cache's read lock (`zssp.rs:477`) and takes it out later
  (`zssp.rs:521`). Two threads may get it; `remove`, under the write lock, returns true to one of them,
  and the other returns without having changed anything. The step is the winner's, at its `remove`.
- `save_ratchet_state` and the insertion of the new session (`zeta.rs:892`, `902`) are one step. If
  another thread is given the same key id in between, one chance in 2^32, the code returns with
  the state saved and no session (`zeta.rs:907`), as if the session had been lost at once. A race between
  `restore_by_identity` and the save makes the save return false, which `RefusedX3` has under `StorageErrors`.
- A failed X2 in a debug build drops `state_machine_lock` before it locks again for `timeout_trans`
  (`zeta.rs:766`); a valid X2 that another thread handles in between would make the restart one of A3,
  which `TimeoutHandshake` has at any moment.
- Handlers that are refused a save, and D, drop `state_machine_lock` before `session.expire()`
  (`zeta.rs:1029`, `1153`, `1486`). What another thread does in between is undone by the
  expiration, or is a packet that could have arrived before.

### ZetaStorage

`saved[p]` is every ratchet state that was ever in the storage of `p`. `KeepsPeersRatchet` compares the
storage of one peer now with what the other has ever had, because the two do not have a ratchet state in
common at every moment: a restart between two saves is enough (section 5).

### KeyAgreement, ZetaAgreement

`KeyAgreement` is what the automaton is for, without its states, packets and timers. Each end of a
session has a key it sends with and at most one pending key it also opens packets with. An end may
hold a new pending key (`Offer`) only while the ends agree; the other end switches to it (`Adopt`);
then the first may (`Follow`). An end may `Leave` at any time; the one that is left is on its own, as
it has not been told. The refinement mapping names a session by its `origin`: `key` is `cur.kex` of
the session with that origin, `pending` is `nxt.kex` in A3 and R2, where the other end may already
use it. X2 and K1 are offers, X3 and K2 are adoptions, C1 is the following; a timeout, a failure or
a restart is leaving. One step may leave several sessions: a restart, and X3, which expires the
peer's other sessions.

`ZetaAgreement` also has the fairness of the timeouts and the liveness property `HalfOpenEnds`.

### Window, AntiReplay, Challenge

`Window` keeps the word size as `Modulus`: a slot stores `counter + 1` modulo the word and compares
the wrapped difference with `MAX`, as the code does. `AntiReplay` splits the receive path where the
code does: `check` before the packet is authenticated, `update` after it, other threads in between.
`Challenge` has the responder's check and record as two steps (`VerifyHello`, `AcceptHello`), clients
that move to another address, a responder that restarts with a new salt, and clients that draw a new
Hello while old challenges are under way.

### Transport

One session, its peer as the environment. Each thread is at `Idle` or at a place where the code has
let go of the state lock: about to write the timer (`Rekey`), to send a control packet (`Control`),
or to expire the session (`Expire`). `get_counter` increments before it looks at its limits; the
counter is a word of `Modulus` values, and the sums with `key_creation_counter` wrap as in a release
build.

### Locks

An operation is the sequence of lock and unlock instructions it runs through; its branches are
different sequences. The locks are parking_lot's: a writer that waits for readers keeps new readers
out, which makes a second read lock by one thread a hazard too. Three operations leave the documented
order: X3, the answer to a challenge, and a drop of the last `Arc` inside `service`. All of them run in
`Threads`; a thread that is in one is `disorderly`. `Unordered` names those that run, so that a
counterexample can be had of each.

### IndexedHeap, ServiceQueue

`IndexedHeap` is the heap with its table of generation-checked indices, operation by operation. A
bubbling loop is a recursive function of the number of rounds, of which there are as many as entries:
more than an entry can move, and a round after the loop's end changes nothing. In `ServiceQueue` a
handler writes a session's timers under its locks, then the priority under the lock of the queue, then
`next_service_time`, each a step of its own with other threads in between; `service_inner` keeps the
queue locked over its loop and then visits the fragments and the handshake cache, whose `has_pending`
it swaps before it takes the cache's lock. Of the automaton only what the timers depend on is left:
states that resend (`Waiting`) and S2. `i64::MIN` and `MAX` are values below and above all times.
`insert` of the handshake cache is one step: it holds the cache's write lock throughout, and the swap of
`has_pending` in `service` comes before or after its store whatever it has written before
(`handshake_cache.rs:50`-`64`). When the `Arc` upgraded by `service_inner` is the last, its drop inside
the loop deadlocks (`zssp.rs:753`, section 5); that is in `Locks` and not here.

### Fragged, FragCache

A byte of `Fragged` is a record of its packet, its position there and whether the header cipher has
been applied to it, so that a cut in the wrong place, a header written over payload or a buffer of
another packet shows. In `FragCache` a packet is its hash; the two places the hash gives it are chosen
in `Init` (`dos_salt`), fragments of any number, count and size come in any order, and `frags[i]` is
`Nothing` where the code's `MaybeUninit` holds nothing. `Service` uses the time at which the call of
`service` began, which may be any earlier one. A packet is told from others by its hash: an X1 and the
same X1 with the answer to a challenge have one, as they have one nonce, and the cache may join
fragments of both; the answer is then not the right one and the Hello is challenged again.
In `Fragged` every packet has its own counter. X2 takes a counter of 24 bits from its tag
(`zeta.rs:540`), and `assemble` compares counters only (`fragged.rs:34`): fragments of an X2 left behind may
join those of a data packet with that counter, which then does not authenticate and is lost.

### Reference, DefragBuffer

The reference implementation has no threads; what is hard is a long sequence of legal calls. One
context is modelled, with a peer that may do anything: a packet is its type and key id, and whether
it opens and what storage and the application answer is left open wherever the handler asks. Its
maps are kept differently from `performance/`: `expire` leaves the keys in the session and takes it
out of `sessions` by what its key ids are routed to. Panics are states: a missing key that is
unwrapped (`Unwrap`) and a `RefCell` borrowed twice (`ExpireInService`) end the behaviour.
`Session::expire` needs `&mut` access, which an `Arc` gives only after the session has expired and
both maps have let go of it; it then does what `Drop` does. `Distinct` leaves out that a random key
id of 32 bits meets one that an expired session still remembers.

In `DefragBuffer` a fragment holds a range of the bytes of its packet. X1 and X3 are resent under
their nonce, over a path whose MTU may have changed, so that fragments of different cuts meet in one
buffer; buffers are dropped at any time. What the bytes are plays no part: a fragment is its place.
`respond_to_challenge` writes over the end of X1 under the same nonce (`reference/src/zeta.rs:342`), so that
fragments of one place may differ; section 5 has what follows. A fragment that `vrfy` refuses
(`reference/src/fragmentation.rs:116`) changes nothing and counts as lost; none of an honest sender
is shorter than `MIN_PACKET_SIZE`.

## 3. Runs

| Run | Instance | Shows |
|---|---|---|
| `ZetaHandshake` | one opener, one slot each, three key ids, cache of 2, five secrets, one restart or expiration, early timeouts, no downgrades | `TypeOK`, `SessionShape`, `KidsRouted`, `NoLeakedKids`, `HandshakeConsumed`, `StoreAdvances`, `KeepsPeersRatchet` (622 thousand states) |
| `ZetaRekey` | starts after one handshake; two slots, four more secrets, one restart or expiration, early timeouts | `SendKeyKnown`, `RekeyRoles`, `KeysAgreed` (610 thousand) |
| `ZetaRatchet` | punctual timers, no restarts, storage errors, debug assertions, downgrades allowed, six secrets, two key ids, fair timeouts | `CommonRatchet`, `HalfOpenEnds` (896 thousand) |
| `Threads` | two threads; two sessions and all operations; three keys, a word of 10 values; a window of 3 | `OrderPreventsDeadlock`, `OperationsReturn`; `TypeOK`, `NonceUnique`; `NoReplay`, `RefusedOnlyIfLate` (468 thousand) |
| `ServiceQueue` | two threads, two sessions, a cache of 1, three moments | `QueueIndexed`, `DeadlinesKept`, `HandshakesPending` (4.5 million) |
| `Receive` | three unassociated packets, a table of 2, a ring of 5; a session's three packets, two buffers, up to three fragments; two clients, two addresses, a responder with two threads, three challenges | `RingConsistent`, `FragmentsOwned`, `AssembledWhole`, `OldestFirst`, `NotEvictedEarly`; `DeliveredAsSent`, `FragmentsFit`, `BuffersOwned`; `AddressProven`, `AnswersAdvance`, `AnswerVerifies` (1.5 million) |
| `Reference` | two sessions, five key ids; one nonce, packets of up to nine bytes, MTUs from 2 to 5, three ticks | `HandlersFindKeys`, `LiveSessionsServed`, `AwaitedPacketRouted`; `ReassembledWhole`, `RefusedOnlyAsCopy` (106 thousand) |
| `ZetaSecondFingerprint` | one opener | finds that the second fingerprint of a Hello is not looked up |
| `TransportEarlyTimeout` | two threads | finds an early timeout written outside S2 |
| `LocksUnordered` | two threads, one session, X3 | finds a deadlock through the lock order of X3 |
| `ChallengeTwice` | one client, two threads | finds a challenge response accepted twice |
| `HeapOrder` | six entries, two priorities | finds a queue whose head is not the most urgent entry |

Bounds. Five secrets are enough for a handshake (an ephemeral key and a completion) that is restarted
and completed twice, or for a handshake and a rekey; `ZetaRekey` starts after the first handshake so
that two rekeys, or a rekey that competes with a second session, fit. In the runs one peer opens
sessions; the theorems have both, and so has `ZetaRekey` without the restart when `Openers` is
changed. Three key ids are the two a
session listens on and one more, which is the least with which `remap` can choose wrongly; a key id
forgotten too early is reused at once. `ZetaRatchet` has two key ids and no symmetry, because of its
liveness property; six secrets are a handshake, a rekey and another of either. A cache of 2 has several pending handshakes and evictions.
`NoLeakedKids` is stated for one slot: with two it does not hold (section 5). `StoreAdvances` is about
the oldest ratchet state in storage, as the newest may be replaced by an older one: the order in
which secrets are drawn is not the order in which pending handshakes complete. The window of 3 with `MAX` 5 and 10 counters reaches
every slot twice, the skip limit and the wrap-around. `Modulus` 10 with a hard expiry of 6 leaves
just the room the two threads need. Three challenges on a window of 2 have one pass another out of it. Two sessions that may be dropped and opened again reuse each
other's queue slots, and a clock of three moments has a resend, a timeout and a rekey fall due in turn
or together. A table of 2 makes any two packets compete for places and a ring of 5 wraps, is filled by
a packet of three fragments and one of two, and is freed from its middle; the size limit of 2 lets packets of two
fragments complete and refuses the third fragment of longer ones. Three counters on two buffers have
two packets share one; lengths up to 10 over an MTU of 4 or 5 give one to three fragments, equal and
unequal, with the tag alone or with payload in the last. In `Reference` five key ids are two for each
of two sessions and one for a pending handshake or for what a failed save leaves behind; nine bytes
over MTUs of 3, 4 and 5 are cut into three, three and two fragments of equal and unequal lengths. Two threads and two sessions have every cycle of two
threads, between sessions too; three threads on one session hold as well when `Threads` is changed.

`CHECK_DEADLOCK FALSE` is set where the system may stop: bounds on secrets, counters and faults run
out, and an expired session has nothing left to do. In `Threads` the properties themselves are about
waiting.

Fairness. `OperationsReturn` assumes strong fairness of each thread's lock steps, since
parking_lot's mutexes and read-write locks are eventually fair (a waiter is handed the lock at
intervals); it excuses a thread only when one of the three disorderly operations has become part of a
deadlock. The application may stop calling, so `Call` has no fairness. `HalfOpenEnds` assumes weak
fairness of each session's timeout: the application calls `service` in the intervals it is told
(`zssp.rs:686`), and in every state of a live session the timeout timer runs.
Nothing is assumed of the network: no packet need ever arrive. A timeout that needs a secret or a key
id beyond the bounds of the instance cannot happen there, which `AtBound` excuses; S1, R1 and R2,
whose timeouts need neither, are never excused.

Symmetry. Key ids, slots, threads, clients and addresses are interchangeable; the peers are not
(`Alice` opens). No symmetry is used with the liveness property.

## 4. Proofs

All theorems hold for every value of the constants that satisfies the named assumptions.

- `Zeta_proofs`. `TypeCorrect`: `Spec => []TypeOK`. `ShapeCorrect`: `Spec => []SessionShape`; the
  inductive invariant is `IInv == TypeOK /\ SessionShape`: the shape of one state is what the handler
  of the next relies on, so `SessionShape` is inductive once packets are typed. `RoutingCorrect`: if
  storage returns no errors, `Spec => []KidsRouted`; the strengthening is `KidsDistinct`, that no two
  sessions of a peer and no two keys of a session listen on one key id, without which the
  removal of a session's key ids could take another's route away. The hypothesis is necessary
  (section 5).
  Its second part is about the two ends of a session, for any number of sessions, key ids, cached
  handshakes, secrets, restarts and faults. `KeysAgreedHold`: `Spec => KeysAgreed`, that is, `Zeta`
  implements `KeyAgreement`. `SendKeyKnownHolds`, `RekeyRolesHold`, `HandshakeConsumedHolds` and
  `StoreAdvancesHolds`. The invariant `Inv` has, besides the joint states of the two ends (`EndsAgree`),
  what makes a packet that is still under way harmless: a secret answers one ephemeral key and has one
  responder (`AnswersUnique`); while a session waits for an answer, the key it will get is in no
  other session and nothing was sent under it (`AnswersFresh`); a peer sends nothing under a key it
  has pending (`PendingUnused`); a session makes one offer and gives one answer under a key
  (`OffersCurrent`, `AnswersCurrent`); a cached handshake has come no further than A3 at the other
  peer (`CacheUnused`). All of it is stated for any sessions, packets and caches, so that a handler's
  step is taken apart into losing packets (`Lose`), ending sessions (`End`), one session's change (a
  lemma for each handler) and sending the reply (`Send`). The refinement goes action by action; a step
  that maps to `Leave` may end any number of sessions. `StoreAdvances` adds `RatchetsOrdered`: of
  two ratchet states in storage the second is the older one, and an X2 is keyed with a ratchet state
  older than the one it leads to.
  Its third part is about a peer that has one session at a time (`OneSession`), because only then do
  memory and storage move together: `InMemory`, that an established session has the ratchet states
  that are in storage and one in A3 the first of them, so that its compare-and-swap cannot be
  refused. From it `NoLeakedKidsHolds`: if storage returns no errors, no key id is left in
  `session_map`.
  Its fourth part is `KeepsPeersRatchetHolds`: `StorageSpec => []KeepsPeersRatchet`, for any number of
  sessions, openers, secrets, cached handshakes, restarts, early timeouts and storage errors. The only
  hypothesis is in the property: that the initiator does not allow a downgrade, without which X2 may be
  keyed with the empty ratchet state and storage be replaced by what only one side has. The inductive invariant `SavedInv` says that
  whoever shows a ratchet state has saved it: those in a session's memory (`MemorySaved`), in storage
  (`StoreSaved`) and behind a packet that only its owner can have made (`NetSaved`). A save then leaves
  in storage a state that the packet which caused it shows the other peer to have (`SavesShared`): X2
  is keyed with a state Bob had, X3 and C1 are sent after the new one was saved.
- `Receive_proofs`. On the lemmas of `Window_proofs`, `ReplaysRefused` (`NoReplay`) and
  `InWindowAccepted` (`RefusedOnlyIfLate`), for
  any window length, skip limit, word size and number of threads. `NoReplay` is not inductive: what
  excludes a replay is `SlotsRecord`, that a slot holds the successor of the largest counter accepted
  in its residue class, and `InRange`, that counters below the hard expiry never reach the value
  whose successor wraps.
  `DeliveredAsSentHolds`, `FragmentsFitHolds` and `BuffersOwnedHolds` are about `Fragged`, for any lengths,
  MTUs and number of buffers. A packet is cut evenly, so that fragment `no` begins at `Offset`, in closed
  form; none is longer than the MTU, and none shorter than a tag, because an MTU has room for two
  (`FragmentLens`). The header written before a fragment in `send_with_fragmentation` reaches back over
  bytes that were sent and never forward (`ControlCuts`); `send_payload` puts the tag at the end
  of the last fragment (`DataCuts`); the header cipher applied twice is the identity
  (`Unmasked`). The inductive invariant `FraggedInv` says of a fragment on its way which part
  of which packet it is, and of a buffer that it has collected fragments of one packet, each in its
  place (`Collected`). That the concatenation of all parts is the packet (`Joined`) is
  shown by taking the least number of parts for which it would not be. Assumed:
  `AUTH_SIZE <= TAG_SIZE` and `2 * TAG_SIZE <= MIN_MTU` (128 bytes, `proto.rs:10`).
  `RingConsistentHolds`, `FragmentsOwnedHolds`, `AssembledWholeHolds`, `OldestFirstHolds` and
  `NotEvictedEarlyHolds` are about `FragCache`, for any sizes of table and ring, any number of packets
  and any fragments. Slots are measured by their distance from `frags_first_unused` (`Distance`), which
  turns the remainders into linear arithmetic: a live entry is an interval of distances within the
  used part (`InUse`), a slot names the entry it is in (`Indexed`), the first used slot is taken
  (`FirstTaken`), an entry holds the fragments it has (`Holding`) and nothing else is held
  (`HeldOnly`), and entries further on are no older (`Aged`). This (`Sound`) is a predicate of any cache,
  shown for `invalidate`, for an iteration of the expiry, for a new entry and for a stored fragment
  separately; `assemble` and `check_for_expiry` are made of these. `NotEvictedEarlyHolds` assumes
  `ResendTime <= AssemblyTimeout`, which the defaults of 1 and 5 seconds satisfy
  (`application.rs:59`) but nothing enforces. All five assume `MAX_FRAGMENTS < MAX_UNASSOCIATED_FRAGMENTS`,
  the `debug_assert` at `frag_cache.rs:62`.
- `Transport_proofs`. `TypeCorrect` and `NoncesUnique`. A nonce is fresh because all used ones are
  below `send_counter` (`UsedBelow`), which needs the counter not to wrap. It does not because every
  increment past the hard expiry leaves a thread that is about to expire the session (`Room`, by the
  cardinality of the failing threads), and `ThreadsAssumption` says that there are fewer threads than
  values left: `HardExpire + |Threads| + 1 < Modulus`, which `u64::MAX - (1 << 16)` (`proto.rs:98`)
  satisfies for anything below 65 thousand threads.
  `KeyUsesBounded` (`KeyUseBound`: at most twice `EXPIRE_AFTER_USES + 1` packets) adds `KeyUses`, how often the current key was used since
  `key_creation_counter` was set, and that R2 has set it once more.
- `Challenge_proofs`, for any clients, addresses, threads, window and number of restarts.
  `AddressProvenHolds`, `NotVerifiedAgainHolds`, `AnswersAdvanceHolds` and `AnswerVerifiesHolds` follow from
  `IInv` (`Invariance`): the present context has issued one challenge for each counter below its
  own (`Issuance`); a MAC in a packet or with a client was issued for the counter it is with
  (`MacsIssued`); a client draws a proof of work none has used (`PowsDrawn`), so that a challenge
  it would still answer is newer than the one it answered last (`ChallengesNewer`); a thread between check and record holds a
  response to a challenge of the present context (`ThreadsVerified`), and a slot of the window has the
  largest counter accepted in its residue class (`Records`). `NotVerifiedAgain` is the part of
  `AcceptedOnce` that the code keeps. Assumed, beside the window's assumption: `MAX` is
  `Modulus - 1`, as `u64::MAX` is (`challenge.rs:12`), and the clients are finitely many.
- `Locks_proofs`. `OrderPreventsDeadlockHolds`: `LocksSpec => []OrderPreventsDeadlock` for any
  number of threads and sessions, with all operations. The documented order gives each lock a rank.
  `Nested`, that a program takes locks in that order and releases each, is shown of every operation
  but three along its syntax, and of those three that they release what they take (`Balanced`); at run
  time a thread has the unlock of each lock it holds ahead, and one that is not disorderly takes only
  larger ones until there (`Ordered`, `Releases`); a writer is announced only where it waits
  (`PendingWrites`). Of a set of threads that wait for each other and none of which is disorderly,
  one that wants a lock of largest rank would be kept by none of the others (`NoCycle`).
- `ServiceQueue_proofs`. `QueueIndexedHolds` and `HandshakesPendingHolds`, for any number of sessions and
  threads, any cache size and any timer settings. Of a heap, `HeapOK` says that an entry's slot leads back to its
  position (`Linked`), that a slot is free or leads to an entry that knows it (`Taken`), and that free
  slots and `free_list_head` point to different free slots (`FreeList`), so that a slot is never given out
  twice. Its content is the set of items with the indices that lead to them (`Handles`): a swap
  keeps that set, hence both bubbling loops do, by an induction over the rounds that takes the first
  round where it would fail (`LoopRuns`, `LoopStays`); a push adds one member with a generation never
  used before; a removal takes one away. The order of the heap plays no part, which matters because it
  can be lost (section 5). The inductive invariant `QueueInv` (`QueueInvariant`) adds that opened sessions have
  indices of their own (`OwnIndices`), that the queue holds sessions under their own index and every
  session that is to be served (`Queued`), and that a thread on its way to the queue has a session that was
  opened (`Working`). `QueueIndexed` needs the generations: a late `update_priority` or `remove`, after
  the slot was reused, finds another one and does nothing.
  `OnlyRemoveIdxDisordersHolds`: whatever the threads do, an ordered queue is disordered by one kind of
  step only, a removal that puts a last entry more urgent than the parent of the gap into the gap
  (`Disorders`). The
  order is a property of the priorities by position (`Sorted`); a round of `bubble_down`
  leaves one entry that may be less urgent than those below it (`Sinking`), a round of
  `bubble_up` one that may be more urgent than its parent (`Rising`), and the loops end where
  nothing is left to exchange (`BubbleDownSorts`, `BubbleUpSorts`). In `remove_idx` bubbling down is
  enough if the last entry fits below the parent of the gap (`LastFits`, `RemoveIdxOK`).
  `DeadlinesKeptHolds`: `Spec /\ []QueueOrdered => []DeadlinesKept`; the hypothesis is needed, as
  `HeapOrder` shows that the order can be lost. The inductive invariant `AllTold` says who
  may still be about to tell of a deadline: of a session only a thread about to call
  `reduce_next_service_time` (`Brings`), as `service_inner` has left the queue when it stores the
  time; of a fragment also a thread that has yet to look at the fragments or has the time of the
  earliest with it (`SeesFragments`); of a handshake likewise (`SeesHandshakes`), where a thread that
  skips the cache because `has_pending` is down relies on `HandshakesPending`. The order of the heap
  is used in one step only, where `next_service_time` is raised to the priority at the head
  (`HeadFirst`).
- `Reference_proofs`. `TypeCorrect`. `KeysFound` (`HandlersFindKeys`): the inductive invariant is
  `KeysThere`, that the current key is there in S1, S2, R1 and R2 and the pending one in A3 and R2,
  which are the states whose handlers unwrap it; nothing is assumed. `SessionsServed`
  (`LiveSessionsServed`) and `PacketsRouted` (`AwaitedPacketRouted`), where no session gets a key id
  that another still remembers (`Distinct`; `gen_kid` ensures it but for one chance in 2^32). Neither is inductive:
  `expire` takes a session out of `ctx.sessions` through the routes of its key ids, so a live session
  must have a route that leads to it (`LiveRouted`, state by state) and none that leads to
  another (`RoutesOwn`), and that survives `remap` and `expire` of another session only when no two
  sessions have a key id in common (`KidsExclusive`).
  `ReassembledWholeHolds` and `RefusedOnlyAsCopyHolds` are about `DefragBuffer`, for any lengths, MTUs,
  nonces and fragment counts: every fragment on the wire is one of a cut, whose offsets have a
  closed form (`Offset`), a buffer holds fragments of one cut, each in its place, and none of that cut
  exceeds the buffer's limit, whichever came first. The sender's running index is a recursive function;
  that it computes `Offset` is shown by taking the least index where it would not
  (`LeastNatural`), which the first-order theorems of the library give.

Only model-checked:

- `OperationsReturn` and `HalfOpenEnds`: liveness under fairness is out of the proof system's reach.

`CommonRatchet` is checked and not proved: it needs punctual timers, one opener, one session and no
restart, none of which the code enforces. `KeepsPeersRatchet` is what holds without them.

Every other invariant and action property of a passing run is stated by a theorem, some under the
hypotheses named above. Of these the following are known to be necessary, as TLC finds the property
violated without them (section 5): no storage errors for `KidsRouted` and `NoLeakedKids`, one slot for
`NoLeakedKids`, `Distinct` for `LiveSessionsServed`, an ordered queue for `DeadlinesKept`.

## 5. Disagreements between the code and what it says

Runs that end in a violation (`PROJECT.json`, `findings`): the second fingerprint of a Hello
(`zeta.rs:485`), the early timeout
written outside S2 (`zeta.rs:1720`), the lock order of X3 (`zeta.rs:910`), a challenge response that
threads which verify copies of it at the same moment all accept (`challenge.rs:66`), and a heap whose
head is not the greatest entry (`indexed_heap.rs:124`). Of the last: `remove_idx` moves the last element
into the hole and only bubbles it down. When the two are in different subtrees the element may belong
above its new parent; with maximum priorities `<<10, 5, 9, 1, 2, 8>>`, removing the 1 leaves 8 below
5. It takes six sessions, which is beyond the bound of `ServiceQueue`; there, in simulations with six,
`DeadlinesKept` fails too: once the entry above it is at the head, `next_service_time` is set past the
deadline of the one below.

Further observations that the models reproduce when a configuration is changed:

- `KidsRouted` with `StorageErrors = TRUE`: `received_k1_trans` changes `session_map` before
  `save_ratchet_state` (`zeta.rs:1425`), and an `Err` leaves the pending key id unrouted, while
  `application.rs:308` says "no session state will be mutated".
- `NoLeakedKids` with two slots: a K1 refused by the compare-and-swap (`zeta.rs:1445`) expires the
  session but leaves the key id just drawn in `session_map` ("unless we are leaking kids somewhere",
  `zeta.rs:1748`).
- `CommonRatchet` with `MaxFaults = 1`, `CacheSize = 2`: a responder that completes two handshakes of
  an initiator that restarted in between ends with no stored ratchet state in common with it
  (`KeepsPeersRatchet` still holds: it has one that the other had), against
  "it can always gracefully recover from a sudden restart" (`zssp.tex:378`).
- After an X2 keyed with the second ratchet state, storage keeps that one (`zeta.rs:702`) while memory
  keeps the first (`zeta.rs:741`); the session's next compare-and-swap then fails on its own write.
- One key may be used for up to twice `EXPIRE_AFTER_USES`, since `received_k1_trans` moves
  `key_creation_counter` while the old key stays in use (`zeta.rs:1466`). "The session will forceably
  close at 2^32 key uses" (`application.rs:30`, likewise `zssp.tex:488`) does not hold: with the limit in
  place of twice the limit, `KeyUseBound` is violated by a key that is used up to its limit, answers a K1
  and goes on in R2. `KeyUsesBounded` proves the bound that does hold.
- A sender may stall between setting `timeout_timer` to `i64::MIN` (`zeta.rs:1720`) and the priority
  (`1724`) while another thread takes the session through a whole rekey. The next `process_timers`
  then finds nothing to do in S2 and returns `resend_timer`, `i64::MAX` in S2, as the priority: the
  session is not serviced again until something else changes its priority.
- `send_payload` reaches its debug assertion in A1 and A3 (`zeta.rs:1660`), before the
  `SessionNotEstablished` error meant for them.
- `DeadlockFree` with `Unordered = {"RespondToChallenge"}`: the read guard of an if-let on
  `session_map` lives while `respond_to_challenge` locks `state` (`zssp.rs:652`). With
  `{"DropInService"}` one thread suffices: the `Arc` upgraded by `service_inner` may become the last
  one while `session_queue` is held, and its drop locks `session_queue` again (`zssp.rs:753`).

Of the reference implementation:

- `Context::service` holds `sessions` borrowed while it runs the timeouts (`reference/src/context.rs:494`),
  and `expire` borrows it again (`reference/src/zeta.rs:211`): the first timeout in S1, R1 or R2 panics.
  Asking `panicked # "borrow"` of `Reference` gives a behaviour of four states. "This returns the number
  of milliseconds until it should be called again" (`reference/src/context.rs:482`).
- The early rekey of `send_payload` is asked for in S1 (`reference/src/zeta.rs:1346`) where
  `performance/` has S2 (`zeta.rs:1715`): in S1 the timeout ends the session, by the panic above.
- `DefragBuffer::service` keeps what has expired and drops what has not
  (`reference/src/fragmentation.rs:162`), against `fragment_assembly_timeout`,
  `reference/src/application.rs:39`. Packets are still assembled whole, but lost when `service` runs
  between their fragments, and complete buffers stay until the session goes.
- Fragments of a packet that is resent in another cut are refused until the buffer of the first cut
  goes. So are those of an X1 that has been given the answer to a challenge: it has the nonce it was
  first sent under, and its places in the buffer, which stays when it is complete, are taken.
- `AwaitedPacketRouted` without its excuse `lost`: storage that fails in `received_k1_trans` after
  `remap` (`reference/src/zeta.rs:1176`), as in `performance/`.
- `LiveSessionsServed` with `Distinct = FALSE`: dropping an expired session whose old key id was drawn
  again takes the other session out of both maps.
- The second lookup of the ratchet fingerprints asks for the first again (`reference/src/zeta.rs:416`),
  as in `performance/`; a `StateB2` whose X3 never comes stays in `b2_map`
  (`reference/src/zeta.rs:468`).

## 6. Not modelled

Byte layout of packets, logging and error texts; the cryptographic primitives and the Noise symmetric
state (perfect by assumption); one-time-password ratchet states and `chain_len`; identity packets and
static keys (two peers that know each other); real time (in `ServiceQueue` and `FragCache` a clock of
a few ticks, elsewhere none); `Drop` of the two defragmenters; the operations of the heap that the
library does not use (`pop`, `clear`, `get`, `change_item`). Of the reference implementation: its
challenge, ratchet states and counters, which are those of `performance/` without threads; resends,
which change none of the modelled state; dropping the `Context`, or a session inside a callback.

## 7. Plan

1. Liveness of `Zeta`: a handshake or rekey that keeps being resent over a network that delivers
   infinitely often completes.
2. The handshake cache as a set of pending handshakes, implemented by the slots of `ServiceQueue`.
3. The limit on the uses of a key as the whitepaper states it, against `zeta.rs:1466`.
