------------------------------ MODULE Fragged -------------------------------
(***************************************************************************)
(* Packets of a session on their way through a network that loses,         *)
(* repeats and reorders fragments: send_with_fragmentation of              *)
(* performance/src/zssp.rs, which cuts a packet up in place, send_payload  *)
(* of zeta.rs, which encrypts one fragment after another and puts the tag  *)
(* at the end, and the defragmentation buffers of the session              *)
(* (performance/src/fragged.rs), one per counter modulo their number.      *)
(*                                                                         *)
(* A byte is a record: the packet it belongs to, its position there (0 in  *)
(* a header) and whether it is encrypted with the header key.  The counter *)
(* window and authentication come before and after; see AntiReplay.        *)
(* Every packet has a counter of its own.  X2, whose counter is taken from *)
(* its tag, may meet a data packet's, which then fails to authenticate.    *)
(***************************************************************************)
EXTENDS Naturals, SequencesExt

CONSTANTS
    HEADER_SIZE,
    AUTH_SIZE,           \* HEADER_AUTH_END - HEADER_SIZE: what the header cipher takes of the payload
    TAG_SIZE,            \* AES_GCM_TAG_SIZE
    MIN_MTU, MaxMtu,     \* MIN_TRANSPORT_MTU, and a bound on the MTU; both less the header
    MaxLen,              \* bound: the length of a packet, with its tag
    MAX_FRAGMENTS,
    DefragSize,          \* SESSION_MAX_FRAGMENTS_OOO
    MaxCounter           \* bound: the counters

ASSUME FraggedAssumption ==
    /\ {HEADER_SIZE, AUTH_SIZE, TAG_SIZE, MIN_MTU, MaxMtu, MaxLen, MAX_FRAGMENTS, DefragSize, MaxCounter}
         \subseteq Nat \ {0}
    /\ AUTH_SIZE <= TAG_SIZE /\ 2 * TAG_SIZE <= MIN_MTU

VARIABLES
    packets,     \* the packets sent so far, by counter: length and MTU
    net,         \* their fragments
    defrag,      \* Session.defrag
    reassembled    \* the packet that was assembled last, or <<>>

fraggedVars == <<packets, net, defrag, reassembled>>

Byte(c, k) == [packet |-> c, at |-> k, masked |-> FALSE]

\* What was sent under counter c: the packet, up to and including its tag.
PacketOf(c) == [k \in 1 .. packets[c].len |-> Byte(c, k)]

-----------------------------------------------------------------------------
(* Sending *)

\* Mutant: the division rounds down.
FragmentCount_Floor(len, mtu) == IF len < mtu THEN 1 ELSE len \div mtu

FragmentCount(len, mtu) == (len + mtu - 1) \div mtu

FragmentLen(len, count, no) == (len \div count) + (IF no < len % count THEN 1 ELSE 0)

\* encrypt_in_place and decrypt_in_place on the part of a fragment behind its header.
Masked(bytes) ==
    [k \in DOMAIN bytes |-> IF k <= AUTH_SIZE THEN [bytes[k] EXCEPT !.masked = ~@] ELSE bytes[k]]

\* Start(len, count)[no]: the running index i of both senders when fragment no is cut off.
Start(len, count) ==
    LET i[no \in 0 .. count] == IF no = 0 THEN 0 ELSE i[no - 1] + FragmentLen(len, count, no - 1) IN i

\* The fragments of send_with_fragmentation.  The header of a fragment overwrites what comes
\* before it in the buffer, which has been sent by then.
ControlFragments(c, packet, mtu) ==
    LET len        == Len(packet)
        count      == FragmentCount(len, mtu)
        i          == Start(len, count)
        headered   == [k \in 1 .. HEADER_SIZE |-> Byte(c, 0)] \o packet
        buffer(no) == [k \in DOMAIN headered |->
                          IF \E m \in 0 .. no : i[m] < k /\ k <= i[m] + HEADER_SIZE
                          THEN Byte(c, 0) ELSE headered[k]]
        piece(no)  == SubSeq(buffer(no), HEADER_SIZE + i[no] + 1, HEADER_SIZE + i[no + 1])
    IN {[c |-> c, no |-> no, count |-> count, bytes |-> Masked(piece(no))] : no \in 0 .. count - 1}

\* The fragments of send_payload: the last one is what is left of the payload, and the tag.
DataFragments(c, packet, mtu) ==
    LET len       == Len(packet)
        count     == FragmentCount(len, mtu)
        i         == Start(len, count)
        payload   == SubSeq(packet, 1, len - TAG_SIZE)
        tag       == SubSeq(packet, len - TAG_SIZE + 1, len)
        piece(no) == IF no < count - 1
                     THEN SubSeq(payload, i[no] + 1, i[no + 1])
                     ELSE SubSeq(payload, i[no] + 1, Len(payload)) \o tag
    IN {[c |-> c, no |-> no, count |-> count, bytes |-> Masked(piece(no))] : no \in 0 .. count - 1}

SendControl(len, mtu) ==
    LET c == Len(packets) + 1 IN
    /\ c <= MaxCounter
    /\ FragmentCount(len, mtu) <= MAX_FRAGMENTS      \* by the sizes of the packets there are
    /\ packets' = Append(packets, [len |-> len, mtu |-> mtu])
    /\ net' = net \cup ControlFragments(c, [k \in 1 .. len |-> Byte(c, k)], mtu)
    /\ UNCHANGED <<defrag, reassembled>>

SendData(len, mtu) ==
    LET c == Len(packets) + 1 IN
    /\ c <= MaxCounter
    /\ FragmentCount(len, mtu) <= MAX_FRAGMENTS      \* DataTooLarge
    /\ packets' = Append(packets, [len |-> len, mtu |-> mtu])
    /\ net' = net \cup DataFragments(c, [k \in 1 .. len |-> Byte(c, k)], mtu)
    /\ UNCHANGED <<defrag, reassembled>>

-----------------------------------------------------------------------------
(* Receiving *)

\* Counter 0 stands for u64::MAX, and <<>> for uninitialised memory.
NewFragged == [nonce |-> 0, count |-> 0, have |-> {}, frags |-> [n \in 0 .. MAX_FRAGMENTS - 1 |-> <<>>]]

\* Mutants: the packet that is given up is only renamed, or is forgotten and not dropped.
DropInPlace_KeepsHave(d) == [d EXCEPT !.nonce = 0, !.count = 0]
DropInPlace_Leaks(d) == [NewFragged EXCEPT !.frags = d.frags]

\* drop_in_place
DropInPlace(d) ==
    [nonce |-> 0, count |-> 0, have |-> {},
     frags |-> [n \in 0 .. MAX_FRAGMENTS - 1 |-> IF n \in d.have THEN <<>> ELSE d.frags[n]]]

IsNew(d, f) == f.no \notin d.have /\ d.count = f.count

\* assemble, of a packet of more than one fragment.
AssembleInto(d0, f, bytes) ==
    LET d == IF f.c # d0.nonce
             THEN [DropInPlace(d0) EXCEPT !.count = f.count, !.nonce = f.c] ELSE d0
    IN [d EXCEPT !.have = IF IsNew(d, f) THEN @ \cup {f.no} ELSE @,
                 !.frags[f.no] = IF IsNew(d, f) THEN bytes ELSE @]

\* parse_fragment_header
ParseFragmentHeader(f) == f.no < f.count /\ f.count <= MAX_FRAGMENTS

Receive(f) ==
    LET slot  == f.c % DefragSize
        bytes == Masked(f.bytes)
        d     == AssembleInto(defrag[slot], f, bytes)
    IN /\ TAG_SIZE <= Len(f.bytes)                      \* MIN_PACKET_SIZE, less the header
       /\ ParseFragmentHeader(f)
       /\ IF f.count = 1
          THEN reassembled' = [c |-> f.c, bytes |-> bytes] /\ defrag' = defrag
          ELSE IF d.have # {} /\ d.have = 0 .. d.count - 1
          THEN /\ reassembled' = [c |-> f.c, bytes |-> FlattenSeq([n \in 1 .. d.count |-> d.frags[n - 1]])]
               /\ defrag' = [defrag EXCEPT ![slot] =
                      [nonce |-> 0, count |-> 0, have |-> {},
                       frags |-> [n \in DOMAIN d.frags |-> IF n < d.count THEN <<>> ELSE d.frags[n]]]]
          ELSE reassembled' = <<>> /\ defrag' = [defrag EXCEPT ![slot] = d]
       /\ UNCHANGED <<packets, net>>

FraggedInit ==
    /\ packets = <<>>
    /\ net = {}
    /\ defrag = [slot \in 0 .. DefragSize - 1 |-> NewFragged]
    /\ reassembled = <<>>

FraggedNext ==
    \/ \E len \in TAG_SIZE .. MaxLen, mtu \in MIN_MTU .. MaxMtu : SendControl(len, mtu) \/ SendData(len, mtu)
    \/ \E f \in net : Receive(f)

FraggedSpec == FraggedInit /\ [][FraggedNext]_fraggedVars

-----------------------------------------------------------------------------

\* What comes out of the defragmentation buffers is a packet as it went into one of the two
\* senders, byte for byte, whatever fragments of whatever packets came in between.
DeliveredAsSent == reassembled # <<>> => reassembled.bytes = PacketOf(reassembled.c)

\* Every fragment fits into the MTU its packet was sent with, is no shorter than receive
\* demands (MIN_PACKET_SIZE), and has the bytes that the header cipher takes: the slices of
\* header_auth are inside the fragment.
FragmentsFit ==
    \A f \in net :
        /\ AUTH_SIZE <= Len(f.bytes) /\ TAG_SIZE <= Len(f.bytes)
        /\ Len(f.bytes) <= packets[f.c].mtu

\* A buffer is initialised where its bits say so and nowhere else: a packet that gives way to
\* another one is dropped once, and one that was handed out is not dropped again.
BuffersOwned ==
    \A slot \in DOMAIN defrag : \A n \in 0 .. MAX_FRAGMENTS - 1 :
        (defrag[slot].frags[n] # <<>>) = (n \in defrag[slot].have)

=============================================================================
