---------------------------- MODULE DefragBuffer ----------------------------
(***************************************************************************)
(* Fragmentation in the reference implementation                           *)
(* (reference/src/fragmentation.rs): a sender that cuts packets up, a      *)
(* network that loses, repeats and reorders the fragments, and one         *)
(* DefragBuffer.  X1 and X3 are sent again under the nonce they had, over  *)
(* a path whose MTU may have changed, so that fragments of one nonce may   *)
(* come from different cuts.                                               *)
(*                                                                         *)
(* A fragment is the place it has in its packet: the bytes from+1 .. to.   *)
(* What the bytes are decides nothing here.  The answer to a challenge is  *)
(* written over the end of X1 under the nonce it has, so that fragments of *)
(* one place may have different contents.  Headers are of one size and are *)
(* left out of all lengths.  The cuts are even and a packet has a tag, so  *)
(* that no fragment is shorter than MIN_PACKET_SIZE; one that the callback *)
(* vrfy refuses changes nothing and is as good as lost.                    *)
(***************************************************************************)
EXTENDS Naturals, Sequences

CONSTANTS
    Nonces,
    NoBuffer,            \* the vacant entry of fragment_map
    MAX_FRAGMENTS,
    MIN_MTU, MaxMtu,     \* MIN_TRANSPORT_MTU, and a bound on the MTU
    MaxLen,              \* bound: the length of a packet
    AssemblyTimeout,     \* fragment_assembly_timeout
    MaxTime              \* bound: the clock

ASSUME DefragBufferAssumption ==
    /\ {MAX_FRAGMENTS, MIN_MTU, MaxMtu, MaxLen, AssemblyTimeout} \subseteq Nat \ {0}
    /\ MaxTime \in Nat

VARIABLES
    lengths,         \* lengths[n]: the length of the packet of nonce n, 0 if there is none yet
    wire,            \* the fragments on their way
    fragment_map,    \* fragment_map[n]: the Buffer of nonce n
    time,
    result           \* what the last call of received_fragment returned, with its fragment

defragVars == <<lengths, wire, fragment_map, time, result>>

-----------------------------------------------------------------------------
(* send_with_fragmentation *)

CeilingDiv(len, mtu) == (len + mtu - 1) \div mtu

\* Mutant: one fragment too many gets a byte of the remainder.
SizeOf_OffByOne(len, count, no) == (len \div count) + (IF no <= len % count THEN 1 ELSE 0)

\* fragment_base_size, and one byte of fragment_size_remainder while there is any left.
SizeOf(len, count, no) == (len \div count) + (IF no < len % count THEN 1 ELSE 0)

FragmentsOf(n, len, mtu) ==
    LET count == CeilingDiv(len, mtu)
        i[no \in 0 .. count] == IF no = 0 THEN 0 ELSE i[no - 1] + SizeOf(len, count, no - 1)
    IN {[nonce |-> n, count |-> count, no |-> no, from |-> i[no], to |-> i[no + 1]] : no \in 0 .. count - 1}

\* A packet is sent, or sent again.
SendFragments(n, len, mtu) ==
    /\ lengths[n] \in {0, len}
    /\ CeilingDiv(len, mtu) <= MAX_FRAGMENTS
    /\ lengths' = [lengths EXCEPT ![n] = len]
    /\ wire' = wire \cup FragmentsOf(n, len, mtu)
    /\ UNCHANGED <<fragment_map, time, result>>

-----------------------------------------------------------------------------
(* received_fragment; result.is has the three ways it ends *)

\* Mutant: the other fragments may not be longer than the first one to come.
FragmentMaxSize_Exact(f) == f.to - f.from

\* The fragments of a packet differ by at most one byte.
FragmentMaxSize(f) == f.to - f.from + 1

NewBuffer(f) ==
    [fragments |-> [no \in 0 .. f.count - 1 |-> IF no = f.no THEN {f} ELSE {}],
     fragment_max_size |-> FragmentMaxSize(f), expiration_time |-> time + AssemblyTimeout]

\* fragments[no] is {} for None, {f} for Some(f).
Refuses(buffer, f) ==
    DOMAIN buffer.fragments = 0 .. f.count - 1 =>
        buffer.fragments[f.no] # {} \/ f.to - f.from > buffer.fragment_max_size

\* The buffer stays in the map when its packet is complete, so that late copies are refused.
Added(buffer, f) ==
    [buffer EXCEPT !.fragments[f.no] = {f}, !.expiration_time = time + AssemblyTimeout]

\* The fragments of a complete buffer, in order.
InOrder(buffer, count) == [k \in 1 .. count |-> CHOOSE f \in buffer.fragments[k - 1] : TRUE]

\* total has reached the number of fragments.
Complete(buffer, count) == \A no \in 0 .. count - 1 : buffer.fragments[no] # {}

ReceivedFragment(f) ==
    LET buffer == fragment_map[f.nonce] IN
    /\ \/ /\ buffer = NoBuffer /\ f.count = 1
          /\ result' = [is |-> "packet", f |-> f, packet |-> <<f>>]
          /\ UNCHANGED fragment_map
       \/ /\ buffer = NoBuffer /\ f.count > 1
          /\ result' = [is |-> "none", f |-> f]
          /\ fragment_map' = [fragment_map EXCEPT ![f.nonce] = NewBuffer(f)]
       \/ /\ buffer # NoBuffer /\ Refuses(buffer, f)
          /\ result' = [is |-> "refused", f |-> f]
          /\ UNCHANGED fragment_map
       \/ /\ buffer # NoBuffer /\ ~Refuses(buffer, f)
          /\ result' = IF Complete(Added(buffer, f), f.count)
                       THEN [is |-> "packet", f |-> f, packet |-> InOrder(Added(buffer, f), f.count)]
                       ELSE [is |-> "none", f |-> f]
          /\ fragment_map' = [fragment_map EXCEPT ![f.nonce] = Added(buffer, f)]
    /\ UNCHANGED <<lengths, wire, time>>

\* service keeps what has expired and drops what has not.
ServiceBuffer ==
    /\ fragment_map' = [n \in Nonces |->
           IF fragment_map[n] # NoBuffer /\ fragment_map[n].expiration_time < time
           THEN fragment_map[n] ELSE NoBuffer]
    /\ result' = [is |-> "none"]
    /\ UNCHANGED <<lengths, wire, time>>

Pass ==
    /\ time < MaxTime
    /\ time' = time + 1
    /\ UNCHANGED <<lengths, wire, fragment_map, result>>

DefragInit ==
    /\ lengths = [n \in Nonces |-> 0]
    /\ wire = {}
    /\ fragment_map = [n \in Nonces |-> NoBuffer]
    /\ time = 0
    /\ result = [is |-> "none"]

DefragNext ==
    \/ Pass \/ ServiceBuffer
    \/ \E n \in Nonces, len \in 1 .. MaxLen, mtu \in MIN_MTU .. MaxMtu : SendFragments(n, len, mtu)
    \/ \E f \in wire : ReceivedFragment(f)

DefragSpec == DefragInit /\ [][DefragNext]_defragVars

-----------------------------------------------------------------------------

\* What received_fragment returns are all places of the packet of its nonce, in order, although
\* the fragments come from several transmissions with different MTUs and buffers are dropped
\* and begun again at any time.
ReassembledWhole ==
    result.is = "packet" =>
        LET p == result.packet IN
        /\ p[1].from = 0 /\ p[Len(p)].to = lengths[result.f.nonce]
        /\ \A k \in 1 .. Len(p) - 1 : p[k].to = p[k + 1].from

\* An honest sender's fragment is refused only because its place is taken or because it is part
\* of another cut: the limit on its size, which is taken from the fragment that happened to come
\* first, never bites.
RefusedOnlyAsCopy ==
    result.is = "refused" =>
        LET fragments == fragment_map[result.f.nonce].fragments IN
        DOMAIN fragments = 0 .. result.f.count - 1 => result.f \in fragments[result.f.no]

=============================================================================
