---------------------------- MODULE Zeta_proofs ----------------------------
(***************************************************************************)
(* Proofs about the Zeta state machine, for every number of sessions, key  *)
(* ids, cached handshakes, secrets and faults.  The first part is about    *)
(* one peer: types, which keys a state has, and what session_map leads to. *)
(* The second is about the two ends of a session: SendKeyKnown,            *)
(* RekeyRoles, HandshakeConsumed and StoreAdvances, and that Zeta          *)
(* implements KeyAgreement.  The third is about peers with room for one    *)
(* session, whose memory and storage move together: NoLeakedKids.  The     *)
(* fourth is about the ratchet states both peers have saved.               *)
(***************************************************************************)
EXTENDS ZetaAgreement, ZetaStorage, TLAPS

USE PeersAssumption, NoneAssumption, BoundsAssumption

-----------------------------------------------------------------------------
(* Packets *)

\* The fields a packet of each type carries.
LEMMA PacketFields ==
    ASSUME NEW m \in Packet
    PROVE  /\ m.dst \in Peers
           /\ m.type = "X1" => m.eph \in Secrets /\ m.kid \in Kids /\ m.rf1 \in Ratchets /\ m.rf2 \in Ratchets
           /\ m.type = "X2" => /\ m.to \in Kids /\ m.eph \in Secrets /\ m.psk \in Ratchets
                               /\ m.kex \in Secrets /\ m.kid \in Kids
           /\ m.type = "X3" => m.to \in Kids /\ m.eph \in Secrets /\ m.kex \in Secrets
           /\ m.type \in {"C1", "C2", "D"} => m.to \in Kids /\ m.kex \in Secrets
           /\ m.type = "K1" => /\ m.to \in Kids /\ m.kex \in Secrets /\ m.psk \in Ratchets
                               /\ m.eph \in Secrets /\ m.kid \in Kids
           /\ m.type = "K2" => /\ m.to \in Kids /\ m.kex \in Secrets /\ m.eph \in Secrets
                               /\ m.newkex \in Secrets /\ m.kid \in Kids
BY DEF Packet

\* The session packets are packets when the session holds what they are made of.
LEMMA X1Packet ==
    ASSUME NEW p \in Peers, NEW z \in Session, z.nxt.recv # None, z.eph # None
    PROVE  X1(p, z) \in Packet
BY DEF X1, Packet, Session, DuplexKey, Remote, Peers, Empty, Ratchets, Secrets

LEMMA X3Packet ==
    ASSUME NEW p \in Peers, NEW z \in Session, z.nxt.send # None, z.nxt.kex # None, z.eph # None
    PROVE  X3(p, z) \in Packet
BY DEF X3, Packet, Session, DuplexKey, Remote, Peers

LEMMA ControlPacket ==
    ASSUME NEW p \in Peers, NEW key \in DuplexKey, key.send # None, key.kex # None,
           NEW type \in {"C1", "C2", "D"}
    PROVE  Control(type, p, key) \in Packet
BY DEF Control, Packet, DuplexKey, Remote, Peers

LEMMA K1Packet ==
    ASSUME NEW p \in Peers, NEW z \in Session, z.cur.send # None, z.cur.kex # None,
           z.nxt.recv # None, z.eph # None
    PROVE  K1(p, z) \in Packet
BY DEF K1, Packet, Session, DuplexKey, Remote, Peers

LEMMA K2Packet ==
    ASSUME NEW p \in Peers, NEW z \in Session, z.cur.send # None, z.cur.kex # None,
           z.nxt.recv # None, z.nxt.kex # None, z.eph # None
    PROVE  K2(p, z) \in Packet
BY DEF K2, Packet, Session, DuplexKey, Remote, Peers

-----------------------------------------------------------------------------
(* Sessions and the session map *)

LEMMA NullSessionType == NullSession \in Session /\ ShapeOf(NullSession)
BY DEF NullSession, Session, ShapeOf, NoKey, DuplexKey, Betas, Ratchets, Empty

\* Writing one well-shaped session keeps every session well shaped.
LEMMA SetSession ==
    ASSUME TypeOK, SessionShape, NEW p \in Peers, NEW s \in Slots,
           NEW z \in Session, ShapeOf(z), zeta' = [zeta EXCEPT ![p][s] = z]
    PROVE  zeta' \in [Peers -> [Slots -> Session]] /\ SessionShape'
<1>1. zeta' \in [Peers -> [Slots -> Session]]
    BY DEF TypeOK
<1>2. ASSUME NEW q \in Peers, NEW t \in Slots
      PROVE  ShapeOf(zeta'[q][t])
    <2>1. zeta'[q][t] = IF q = p /\ t = s THEN z ELSE zeta[q][t]
        BY DEF TypeOK
    <2>2. QED BY <2>1 DEF SessionShape
<1>3. QED BY <1>1, <1>2 DEF SessionShape

\* So does writing all the sessions of a peer.
LEMMA SetSessions ==
    ASSUME TypeOK, SessionShape, NEW p \in Peers, NEW f \in [Slots -> Session],
           \A t \in Slots : ShapeOf(f[t]), zeta' = [zeta EXCEPT ![p] = f]
    PROVE  zeta' \in [Peers -> [Slots -> Session]] /\ SessionShape'
<1>1. zeta' \in [Peers -> [Slots -> Session]]
    BY DEF TypeOK
<1>2. ASSUME NEW q \in Peers, NEW t \in Slots
      PROVE  ShapeOf(zeta'[q][t])
    <2>1. zeta'[q][t] = IF q = p THEN f[t] ELSE zeta[q][t]
        BY DEF TypeOK
    <2>2. QED BY <2>1 DEF SessionShape
<1>3. QED BY <1>1, <1>2 DEF SessionShape

Maps == [Kids -> Slots \cup {None}]

LEMMA MapTypes ==
    ASSUME NEW map \in Maps, NEW ks, NEW z \in Session, NEW s \in Slots, NEW kid \in Kids
    PROVE  /\ Without(map, ks) \in Maps
           /\ Unmapped(map, z) \in Maps
           /\ Remapped(map, s, z, kid) \in Maps
<1>1. Without(map, ks) \in Maps
    BY DEF Without, Maps
<1>2. Unmapped(map, z) \in Maps
    BY DEF Unmapped, Without, Maps
<1>3. z.nxt.recv \in Kids \cup {None}
    BY DEF Session, DuplexKey
<1>4. QED BY <1>1, <1>2, <1>3 DEF Remapped, Maps

\* Where each key id leads after remap.
LEMMA RemappedAt ==
    ASSUME NEW map \in Maps, NEW z \in Session, NEW s \in Slots, NEW kid \in Kids, NEW k \in Kids,
           z.nxt.recv # None => map[z.nxt.recv] = s
    PROVE  Remapped(map, s, z, kid)[k] = IF k = kid THEN s
                                         ELSE IF k = z.nxt.recv THEN None ELSE map[k]
<1>1. z.nxt.recv \in Kids \cup {None}
    BY DEF Session, DuplexKey
<1>2. QED BY <1>1 DEF Remapped, Unmapped, Without, Maps

LEMMA ExpireType ==
    ASSUME TypeOK, SessionShape, NEW p \in Peers, NEW s \in Slots, NEW map \in Maps,
           ExpireInto(p, s, map)
    PROVE  /\ zeta' \in [Peers -> [Slots -> Session]] /\ SessionShape'
           /\ session_map' \in [Peers -> Maps]
<1>1. zeta' = [zeta EXCEPT ![p][s] = NullSession]
    BY DEF ExpireInto
<1>2. zeta' \in [Peers -> [Slots -> Session]] /\ SessionShape'
    BY <1>1, SetSession, NullSessionType
<1>3. Without(map, RecvKids(zeta[p][s])) \in Maps
    BY DEF Without, Maps
<1>4. QED BY <1>2, <1>3 DEF ExpireInto, TypeOK, Maps

-----------------------------------------------------------------------------
(* Type correctness and the shape of sessions are inductive together: a packet is well formed *)
(* because the session that sends it holds the keys its state promises.                       *)

IInv == TypeOK /\ SessionShape

\* Facts about the session a handler works on.
LEMMA SessionFacts ==
    ASSUME IInv, NEW p \in Peers, NEW s \in Slots
    PROVE  /\ zeta[p][s] \in Session /\ ShapeOf(zeta[p][s])
           /\ session_map[p] \in Maps
           /\ zeta[p][s].cur \in DuplexKey /\ zeta[p][s].nxt \in DuplexKey
BY DEF IInv, TypeOK, SessionShape, Maps, Session

\* create_a1_state makes a session in state A1.
LEMMA ToA1Type ==
    ASSUME NEW z \in Session, z.cur = NoKey, NEW kid \in Kids, fresh \in 0 .. MaxFresh, fresh < MaxFresh
    PROVE  /\ ToA1(z, kid) \in Session /\ ShapeOf(ToA1(z, kid))
           /\ ToA1(z, kid).nxt.recv # None /\ ToA1(z, kid).eph # None
<1>1. fresh + 1 \in Secrets /\ fresh + 1 # None
    BY DEF Secrets
<1>2. ToA1(z, kid) \in Session
    BY <1>1 DEF ToA1, Session, NoKey, DuplexKey, Betas
<1>3. QED BY <1>1, <1>2 DEF ToA1, ShapeOf, Session, NoKey, DuplexKey

LEMMA OpenStep ==
    ASSUME IInv, NEW p \in Peers, Open(p)
    PROVE  IInv'
<1>1. PICK s \in Slots, kid \in GenKid(session_map[p]) :
        LET z == ToA1([NullSession EXCEPT !.ratchet_state1 = store[p].state1,
                                          !.ratchet_state2 = store[p].state2], kid)
        IN /\ zeta' = [zeta EXCEPT ![p][s] = z]
           /\ session_map' = [session_map EXCEPT ![p][kid] = s]
           /\ net' = net \cup {X1(p, z)}
    BY DEF Open
<1> DEFINE y == [NullSession EXCEPT !.ratchet_state1 = store[p].state1,
                                    !.ratchet_state2 = store[p].state2]
<1>2. kid \in Kids
    BY DEF GenKid
<1>3. y \in Session /\ y.cur = NoKey
    BY NullSessionType DEF IInv, TypeOK, RatchetStates, Session, NullSession
<1>4. fresh \in 0 .. MaxFresh /\ fresh < MaxFresh
    BY DEF Open, IInv, TypeOK
<1> HIDE DEF y
<1>5. /\ ToA1(y, kid) \in Session /\ ShapeOf(ToA1(y, kid))
      /\ ToA1(y, kid).nxt.recv # None /\ ToA1(y, kid).eph # None
    BY <1>2, <1>3, <1>4, ToA1Type
<1>6. zeta' \in [Peers -> [Slots -> Session]] /\ SessionShape'
    BY <1>1, <1>5, SetSession DEF IInv, y
<1>7. session_map' \in [Peers -> [Kids -> Slots \cup {None}]]
    BY <1>1, <1>2 DEF IInv, TypeOK
<1>8. net' \subseteq Packet
    BY <1>1, <1>5, X1Packet DEF IInv, TypeOK, y
<1>9. QED BY <1>4, <1>6, <1>7, <1>8 DEF Open, IInv, TypeOK

LEMMA ReceivedX1Step ==
    ASSUME IInv, NEW p \in Peers, NEW m \in net, ReceivedX1(p, m)
    PROVE  IInv'
<1>1. PICK kid \in GenKid(session_map[p]) :
        LET b == [ratchet_state |-> IF HelloRatchet(p, m) = None THEN Empty ELSE HelloRatchet(p, m),
                  kid_send |-> m.kid, kid_recv |-> kid, eph |-> m.eph, kex |-> fresh + 1]
        IN InsertB2(p, b) /\ net' = net \cup {X2(p, b)}
    BY DEF ReceivedX1
<1> DEFINE b == [ratchet_state |-> IF HelloRatchet(p, m) = None THEN Empty ELSE HelloRatchet(p, m),
                 kid_send |-> m.kid, kid_recv |-> kid, eph |-> m.eph, kex |-> fresh + 1]
<1>2. m.kid \in Kids /\ m.eph \in Secrets /\ m.rf1 \in Ratchets
    BY PacketFields DEF ReceivedX1, IInv, TypeOK
<1>3. HelloRatchet(p, m) \in Ratchets \cup {None}
    BY <1>2 DEF HelloRatchet, RestoreByFingerprint
<1>4. fresh + 1 \in Secrets /\ fresh' \in 0 .. MaxFresh
    BY DEF ReceivedX1, IInv, TypeOK, Secrets
<1>5. b \in StateB2
    BY <1>2, <1>3, <1>4 DEF StateB2, GenKid, Ratchets, Empty
<1>6. X2(p, b) \in Packet
    BY <1>5 DEF X2, StateB2, Packet, Remote, Peers
<1> HIDE DEF b
<1>7. InsertB2(p, b) /\ net' = net \cup {X2(p, b)}
    BY <1>1 DEF b
<1>8. b2' \in [Peers -> SUBSET StateB2]
    <2>1. CASE b2' = b2
        BY <2>1 DEF IInv, TypeOK
    <2>2. CASE b2' = [b2 EXCEPT ![p] = @ \cup {b}]
        BY <2>2, <1>5 DEF IInv, TypeOK
    <2>3. CASE \E c \in b2[p] : b2' = [b2 EXCEPT ![p] = (@ \ {c}) \cup {b}]
        BY <2>3, <1>5 DEF IInv, TypeOK
    <2>4. QED BY <1>7, <2>1, <2>2, <2>3 DEF InsertB2
<1>9. net' \subseteq Packet
    BY <1>6, <1>7 DEF IInv, TypeOK
<1>10. QED BY <1>4, <1>8, <1>9 DEF ReceivedX1, IInv, TypeOK, SessionShape

LEMMA ExpireB2Step ==
    ASSUME IInv, NEW p \in Peers, ExpireB2(p)
    PROVE  IInv'
BY DEF ExpireB2, IInv, TypeOK, SessionShape

LEMMA ReceivedX2Step ==
    ASSUME IInv, NEW p \in Peers, NEW s \in Slots, NEW m \in net, ReceivedX2(p, s, m)
    PROVE  IInv'
<1> DEFINE z == zeta[p][s]
           a3 == [z EXCEPT !.beta = "A3", !.origin = m.kex,
                           !.nxt = [recv |-> m.to, send |-> m.kid, kex |-> m.kex],
                           !.ratchet_state1 = m.kex, !.ratchet_state2 = z.ratchet_state1]
<1>1. z \in Session /\ ShapeOf(z) /\ z.beta = "A1"
    BY SessionFacts DEF ReceivedX2, AwaitsX2
<1>2. m.to \in Kids /\ m.kid \in Kids /\ m.kex \in Secrets /\ m.kex \in Ratchets /\ m.kex # None
    BY PacketFields DEF ReceivedX2, AwaitsX2, IInv, TypeOK, Secrets, Ratchets
<1>3. a3 \in Session
    BY <1>1, <1>2 DEF Session, DuplexKey, Betas
<1>4. a3.nxt.send # None /\ a3.nxt.kex # None /\ a3.eph # None
    BY <1>1, <1>2, <1>3 DEF ShapeOf, Session
<1>5. ShapeOf(a3)
    BY <1>1, <1>2, <1>3 DEF ShapeOf, Session, NoKey, Ratchets
<1>6. RatchetToPreserve(z, m) \in Ratchets \cup {None}
    BY <1>1 DEF RatchetToPreserve, Session
<1>7. zeta' = [zeta EXCEPT ![p][s] = a3] /\ net' = net \cup {X3(p, a3)}
      /\ store' = [store EXCEPT ![p] = States(m.kex, RatchetToPreserve(z, m))]
    BY DEF ReceivedX2
<1> HIDE DEF z, a3
<1>8. zeta' \in [Peers -> [Slots -> Session]] /\ SessionShape'
    BY <1>3, <1>5, <1>7, SetSession DEF IInv
<1>9. net' \subseteq Packet
    BY <1>3, <1>4, <1>7, X3Packet DEF IInv, TypeOK
<1>10. store' \in [Peers -> RatchetStates]
    BY <1>2, <1>6, <1>7 DEF IInv, TypeOK, States, RatchetStates
<1>11. QED BY <1>8, <1>9, <1>10 DEF ReceivedX2, IInv, TypeOK

\* The state of a session that starts over, with every variable typed.
LEMMA RestartHandshakeStep ==
    ASSUME IInv, NEW p \in Peers, NEW s \in Slots, zeta[p][s].beta \in {"A1", "A3"},
           RestartHandshake(p, s)
    PROVE  IInv'
<1> DEFINE z == zeta[p][s]
<1>1. z \in Session /\ ShapeOf(z) /\ z.cur = NoKey /\ session_map[p] \in Maps
    BY SessionFacts DEF ShapeOf
<1>2. PICK kid \in GenKid(Unmapped(session_map[p], z)) :
        /\ zeta' = [zeta EXCEPT ![p][s] = ToA1(z, kid)]
        /\ session_map' = [session_map EXCEPT ![p] = Remapped(@, s, z, kid)]
        /\ net' = net \cup {X1(p, ToA1(z, kid))}
    BY DEF RestartHandshake
<1>3. kid \in Kids
    BY DEF GenKid
<1>4. fresh \in 0 .. MaxFresh /\ fresh < MaxFresh
    BY DEF RestartHandshake, IInv, TypeOK
<1> HIDE DEF z
<1>5. /\ ToA1(z, kid) \in Session /\ ShapeOf(ToA1(z, kid))
      /\ ToA1(z, kid).nxt.recv # None /\ ToA1(z, kid).eph # None
    BY <1>1, <1>3, <1>4, ToA1Type
<1>6. zeta' \in [Peers -> [Slots -> Session]] /\ SessionShape'
    BY <1>2, <1>5, SetSession DEF IInv
<1>7. session_map' \in [Peers -> [Kids -> Slots \cup {None}]]
    <2>1. Remapped(session_map[p], s, z, kid) \in Maps
        BY <1>1, <1>3, MapTypes
    <2>2. QED BY <1>2, <2>1 DEF IInv, TypeOK, Maps
<1>8. net' \subseteq Packet
    BY <1>2, <1>5, X1Packet DEF IInv, TypeOK
<1>9. QED BY <1>4, <1>6, <1>7, <1>8 DEF RestartHandshake, IInv, TypeOK

LEMMA FaultyX2Step ==
    ASSUME IInv, NEW p \in Peers, NEW s \in Slots, NEW m \in net, FaultyX2(p, s, m)
    PROVE  IInv'
BY RestartHandshakeStep DEF FaultyX2, AwaitsX2

\* The rejection Bob may send is a packet.
LEMMA RejectType ==
    ASSUME IInv, NEW p \in Peers, NEW b \in b2[p], MaybeReject(p, b)
    PROVE  net' \subseteq Packet
<1> DEFINE key == [recv |-> b.kid_recv, send |-> b.kid_send, kex |-> b.kex]
<1>1. b \in StateB2
    BY DEF IInv, TypeOK
<1>2. key \in DuplexKey /\ key.send # None /\ key.kex # None
    BY <1>1 DEF StateB2, DuplexKey, Secrets
<1>3. Control("D", p, key) \in Packet
    BY <1>2, ControlPacket
<1>4. QED BY <1>3 DEF MaybeReject, IInv, TypeOK

LEMMA DroppedX3Step ==
    ASSUME IInv, NEW p \in Peers, NEW m \in net, NEW b \in b2[p], DroppedX3(p, m, b)
    PROVE  IInv'
<1>1. net' \subseteq Packet
    BY RejectType DEF DroppedX3, IInv, TypeOK
<1>2. b2' \in [Peers -> SUBSET StateB2]
    BY DEF DroppedX3, RemoveB2, IInv, TypeOK
<1>3. QED BY <1>1, <1>2 DEF DroppedX3, IInv, TypeOK, SessionShape

LEMMA RefusedX3Step ==
    ASSUME IInv, NEW p \in Peers, NEW m \in net, NEW b \in b2[p], RefusedX3(p, m, b)
    PROVE  IInv'
<1>1. net' \subseteq Packet
    BY RejectType DEF RefusedX3, IInv, TypeOK
<1>2. b2' \in [Peers -> SUBSET StateB2]
    BY DEF RefusedX3, RemoveB2, IInv, TypeOK
<1> DEFINE f == [t \in Slots |-> NullSession]
<1>3. f \in [Slots -> Session] /\ \A t \in Slots : ShapeOf(f[t])
    BY NullSessionType
<1>4. zeta' = [zeta EXCEPT ![p] = f]
    BY DEF RefusedX3
<1> HIDE DEF f
<1>5. zeta' \in [Peers -> [Slots -> Session]] /\ SessionShape'
    BY <1>3, <1>4, SetSessions DEF IInv
<1>6. session_map' \in [Peers -> [Kids -> Slots \cup {None}]]
    BY DEF RefusedX3, Without, IInv, TypeOK
<1>7. QED BY <1>1, <1>2, <1>5, <1>6 DEF RefusedX3, IInv, TypeOK

LEMMA ReceivedX3Step ==
    ASSUME IInv, NEW p \in Peers, NEW m \in net, NEW b \in b2[p], ReceivedX3(p, m, b)
    PROVE  IInv'
<1> DEFINE z == [NullSession EXCEPT
                    !.beta = "S1", !.was_bob = TRUE, !.origin = b.kex, !.ratchet_state1 = b.kex,
                    !.cur = [recv |-> b.kid_recv, send |-> b.kid_send, kex |-> b.kex]]
<1>1. b \in StateB2 /\ b.kex # None /\ b.kex \in Ratchets
    BY DEF IInv, TypeOK, StateB2, Secrets, Ratchets
<1>2. z \in Session
    BY <1>1, NullSessionType DEF StateB2, Session, DuplexKey, Betas
<1>3. ShapeOf(z)
    BY <1>1, <1>2 DEF StateB2, NullSession, NoKey, ShapeOf
<1>4. z.cur \in DuplexKey /\ z.cur.send # None /\ z.cur.kex # None
    BY <1>1 DEF StateB2, NullSession, DuplexKey
<1>5. PICK s \in Slots :
        /\ zeta' = [zeta EXCEPT ![p] = [t \in Slots |-> IF t = s THEN z ELSE NullSession]]
        /\ session_map' = [session_map EXCEPT
                ![p] = [Without(@, AllSessionKids(p)) EXCEPT ![b.kid_recv] = s]]
    BY DEF ReceivedX3
<1>6. net' = net \cup {Control("C1", p, z.cur)}
    BY DEF ReceivedX3
<1> HIDE DEF z
<1> DEFINE f == [t \in Slots |-> IF t = s THEN z ELSE NullSession]
<1>7. f \in [Slots -> Session] /\ \A t \in Slots : ShapeOf(f[t])
    BY <1>2, <1>3, NullSessionType
<1> HIDE DEF f
<1>8. zeta' \in [Peers -> [Slots -> Session]] /\ SessionShape'
    BY <1>5, <1>7, SetSessions DEF IInv, f
<1>9. session_map' \in [Peers -> [Kids -> Slots \cup {None}]]
    BY <1>1, <1>5 DEF Without, IInv, TypeOK, StateB2
<1>10. net' \subseteq Packet
    BY <1>4, <1>6, ControlPacket DEF IInv, TypeOK
<1>11. store' \in [Peers -> RatchetStates]
    BY <1>1 DEF ReceivedX3, IInv, TypeOK, States, RatchetStates
<1>12. b2' \in [Peers -> SUBSET StateB2]
    BY DEF ReceivedX3, RemoveB2, IInv, TypeOK
<1>13. QED BY <1>8, <1>9, <1>10, <1>11, <1>12 DEF ReceivedX3, IInv, TypeOK

\* Switching keys keeps a session a session.
LEMMA FlipType ==
    ASSUME NEW z \in Session
    PROVE  Flip(z) \in Session /\ Flip(z).cur = z.nxt /\ Flip(z).nxt = z.cur
BY DEF Flip, Session

LEMMA ReceivedC1Step ==
    ASSUME IInv, NEW p \in Peers, NEW s \in Slots, NEW m \in net, ReceivedC1(p, s, m)
    PROVE  IInv'
<1> DEFINE z == zeta[p][s]
           s2 == Confirmed(z)
<1>1. z \in Session /\ ShapeOf(z) /\ z.beta \in {"A3", "R2"}
    BY SessionFacts DEF ReceivedC1, ConfirmsKey
<1>2. /\ s2 \in Session
      /\ s2.beta = "S2" /\ s2.cur = z.nxt /\ s2.nxt = z.cur
      /\ s2.ratchet_state1 = z.ratchet_state1 /\ s2.ratchet_state2 = None
    BY <1>1 DEF Confirmed, Flip, Session, Betas
<1>3. ShapeOf(s2)
    BY <1>1, <1>2 DEF ShapeOf
<1>4. s2.cur \in DuplexKey /\ s2.cur.kex # None /\ s2.cur.send # None
    BY <1>1, <1>2 DEF ShapeOf, Session, Ratchets
<1>5. /\ zeta' = [zeta EXCEPT ![p][s] = s2]
      /\ net' = (net \ {m}) \cup {Control("C2", p, s2.cur)}
    BY DEF ReceivedC1, Consume
<1>6. store' \in [Peers -> RatchetStates]
    BY <1>1 DEF ReceivedC1, IInv, TypeOK, States, RatchetStates, Session
<1> HIDE DEF z, s2
<1>7. zeta' \in [Peers -> [Slots -> Session]] /\ SessionShape'
    BY <1>2, <1>3, <1>5, SetSession DEF IInv
<1>8. net' \subseteq Packet
    BY <1>4, <1>5, ControlPacket DEF IInv, TypeOK
<1>9. QED BY <1>6, <1>7, <1>8 DEF ReceivedC1, IInv, TypeOK

\* The handlers that end a session.
LEMMA ExpiringStep ==
    ASSUME IInv, NEW p \in Peers, NEW s \in Slots, NEW map \in Maps, ExpireInto(p, s, map),
           net' \subseteq net, UNCHANGED <<store, b2, fresh>>, faults' \in 0 .. MaxFaults
    PROVE  IInv'
<1>1. /\ zeta' \in [Peers -> [Slots -> Session]] /\ SessionShape'
      /\ session_map' \in [Peers -> Maps]
    BY ExpireType DEF IInv
<1>2. QED BY <1>1 DEF IInv, TypeOK, Maps

LEMMA StaleC1Step ==
    ASSUME IInv, NEW p \in Peers, NEW s \in Slots, NEW m \in net, StaleC1(p, s, m)
    PROVE  IInv'
BY ExpiringStep, SessionFacts DEF StaleC1, Consume, IInv, TypeOK

LEMMA AcknowledgedC1Step ==
    ASSUME IInv, NEW p \in Peers, NEW s \in Slots, NEW m \in net, AcknowledgedC1(p, s, m)
    PROVE  IInv'
<1> DEFINE z == zeta[p][s]
<1>1. z.cur \in DuplexKey /\ (z.cur.kex # None => z.cur.send # None)
    BY SessionFacts DEF ShapeOf
<1>2. net' \subseteq Packet
    BY <1>1, ControlPacket DEF AcknowledgedC1, Consume, IInv, TypeOK
<1>3. QED BY <1>2 DEF AcknowledgedC1, IInv, TypeOK, SessionShape

LEMMA ReceivedC2Step ==
    ASSUME IInv, NEW p \in Peers, NEW s \in Slots, NEW m \in net, ReceivedC2(p, s, m)
    PROVE  IInv'
<1> DEFINE z == zeta[p][s]
           s2 == [z EXCEPT !.beta = "S2"]
<1>1. z \in Session /\ ShapeOf(z) /\ z.beta = "S1"
    BY SessionFacts DEF ReceivedC2
<1>2. s2 \in Session
    BY <1>1 DEF Session, Betas
<1>3. ShapeOf(s2)
    BY <1>1, <1>2 DEF ShapeOf, Session
<1>4. zeta' = [zeta EXCEPT ![p][s] = s2]
    BY DEF ReceivedC2, IInv, TypeOK
<1> HIDE DEF z, s2
<1>5. zeta' \in [Peers -> [Slots -> Session]] /\ SessionShape'
    BY <1>2, <1>3, <1>4, SetSession DEF IInv
<1>6. QED BY <1>5 DEF ReceivedC2, Consume, IInv, TypeOK

LEMMA ReceivedDStep ==
    ASSUME IInv, NEW p \in Peers, NEW s \in Slots, NEW m \in net, ReceivedD(p, s, m)
    PROVE  IInv'
BY ExpiringStep, SessionFacts DEF ReceivedD, Consume, IInv, TypeOK

LEMMA ReceivedK1Step ==
    ASSUME IInv, NEW p \in Peers, NEW s \in Slots, NEW m \in net, ReceivedK1(p, s, m)
    PROVE  IInv'
<1> DEFINE z == zeta[p][s]
           r2(kid) == [z EXCEPT !.beta = "R2", !.eph = m.eph,
                                !.nxt = [recv |-> kid, send |-> m.kid, kex |-> fresh + 1],
                                !.ratchet_state1 = fresh + 1, !.ratchet_state2 = z.ratchet_state1]
<1>1. /\ z \in Session /\ ShapeOf(z) /\ z.beta \in {"S2", "R1"}
      /\ session_map[p] \in Maps
    BY SessionFacts DEF ReceivedK1, AnswersK1
<1>2. m.eph \in Secrets /\ m.eph # None /\ m.kid \in Kids
    BY PacketFields DEF ReceivedK1, AnswersK1, IInv, TypeOK, Secrets
<1>3. /\ fresh + 1 \in Secrets /\ fresh + 1 \in Ratchets /\ fresh + 1 # None
      /\ fresh' \in 0 .. MaxFresh
    BY DEF ReceivedK1, IInv, TypeOK, Secrets, Ratchets
<1>4. PICK kid \in GenKid(Unmapped(session_map[p], z)) :
        /\ zeta' = [zeta EXCEPT ![p][s] = r2(kid)]
        /\ session_map' = [session_map EXCEPT ![p] = Remapped(@, s, z, kid)]
        /\ net' = (net \ {m}) \cup {K2(p, r2(kid))}
    BY DEF ReceivedK1, Consume
<1>5. kid \in Kids
    BY DEF GenKid
<1>6. r2(kid) \in Session
    BY <1>1, <1>2, <1>3, <1>5 DEF Session, DuplexKey, Betas
<1>7. ShapeOf(r2(kid))
    BY <1>1, <1>2, <1>3, <1>5, <1>6 DEF ShapeOf, Session, Ratchets
<1>8. /\ r2(kid).cur.send # None /\ r2(kid).cur.kex # None /\ r2(kid).nxt.recv # None
      /\ r2(kid).nxt.kex # None /\ r2(kid).eph # None
    BY <1>1, <1>2, <1>3, <1>5 DEF ShapeOf, Session, Ratchets
<1>9. store' \in [Peers -> RatchetStates]
    BY <1>1, <1>3 DEF ReceivedK1, IInv, TypeOK, States, RatchetStates, Session
<1> HIDE DEF z, r2
<1>10. zeta' \in [Peers -> [Slots -> Session]] /\ SessionShape'
    BY <1>4, <1>6, <1>7, SetSession DEF IInv
<1>11. session_map' \in [Peers -> [Kids -> Slots \cup {None}]]
    <2>1. Remapped(session_map[p], s, z, kid) \in Maps
        BY <1>1, <1>5, MapTypes
    <2>2. QED BY <1>4, <2>1 DEF IInv, TypeOK, Maps
<1>12. net' \subseteq Packet
    BY <1>4, <1>6, <1>8, K2Packet DEF IInv, TypeOK
<1>13. QED BY <1>3, <1>9, <1>10, <1>11, <1>12 DEF ReceivedK1, IInv, TypeOK

LEMMA FaultyK1Step ==
    ASSUME IInv, NEW p \in Peers, NEW s \in Slots, NEW m \in net, FaultyK1(p, s, m)
    PROVE  IInv'
<1> DEFINE z == zeta[p][s]
<1>1. PICK map \in Maps : ExpireInto(p, s, map)
    <2>1. session_map[p] \in Maps /\ \A kid \in Kids : Remapped(session_map[p], s, z, kid) \in Maps
        BY SessionFacts, MapTypes
    <2>2. QED BY <2>1 DEF FaultyK1, GenKid
<1>2. QED BY <1>1, ExpiringStep DEF FaultyK1, Consume, IInv, TypeOK

LEMMA UnsavedK1Step ==
    ASSUME IInv, NEW p \in Peers, NEW s \in Slots, NEW m \in net, UnsavedK1(p, s, m)
    PROVE  IInv'
<1> DEFINE z == zeta[p][s]
<1>1. PICK kid \in GenKid(Unmapped(session_map[p], z)) :
        session_map' = [session_map EXCEPT ![p] = Remapped(@, s, z, kid)]
    BY DEF UnsavedK1
<1>2. Remapped(session_map[p], s, z, kid) \in Maps
    BY SessionFacts, MapTypes DEF GenKid
<1> HIDE DEF z
<1>3. session_map' \in [Peers -> [Kids -> Slots \cup {None}]]
    BY <1>1, <1>2 DEF IInv, TypeOK, Maps
<1>4. QED BY <1>3 DEF UnsavedK1, Consume, IInv, TypeOK, SessionShape

LEMMA ReceivedK2Step ==
    ASSUME IInv, NEW p \in Peers, NEW s \in Slots, NEW m \in net, ReceivedK2(p, s, m)
    PROVE  IInv'
<1> DEFINE z == zeta[p][s]
           rekeyed == [z EXCEPT !.nxt.send = m.kid, !.nxt.kex = m.newkex]
           s1 == [Flip(rekeyed) EXCEPT !.beta = "S1", !.ratchet_state1 = m.newkex, !.eph = None]
<1>1. z \in Session /\ ShapeOf(z) /\ z.beta = "R1"
    BY SessionFacts DEF ReceivedK2, AwaitsK2
<1>2. /\ m.kid \in Kids /\ m.kid # None
      /\ m.newkex \in Secrets /\ m.newkex \in Ratchets /\ m.newkex # None
    BY PacketFields DEF ReceivedK2, AwaitsK2, IInv, TypeOK, Secrets, Ratchets
<1>3. /\ rekeyed \in Session /\ rekeyed.cur = z.cur /\ rekeyed.ratchet_state2 = z.ratchet_state2
      /\ rekeyed.nxt = [recv |-> z.nxt.recv, send |-> m.kid, kex |-> m.newkex]
    BY <1>1, <1>2 DEF Session, DuplexKey
<1> HIDE DEF rekeyed
<1>4. /\ s1 \in Session /\ s1.beta = "S1" /\ s1.cur = rekeyed.nxt /\ s1.nxt = z.cur
      /\ s1.ratchet_state1 = m.newkex /\ s1.ratchet_state2 = z.ratchet_state2
    BY <1>2, <1>3 DEF Flip, Session, Betas
<1>5. ShapeOf(s1)
    BY <1>1, <1>2, <1>3, <1>4 DEF ShapeOf
<1>6. s1.cur \in DuplexKey /\ s1.cur.send # None /\ s1.cur.kex # None
    BY <1>2, <1>3, <1>4 DEF Session
<1>7. /\ zeta' = [zeta EXCEPT ![p][s] = s1]
      /\ net' = (net \ {m}) \cup {Control("C1", p, s1.cur)}
    BY DEF ReceivedK2, Consume, rekeyed
<1>8. store' \in [Peers -> RatchetStates]
    BY <1>2 DEF ReceivedK2, IInv, TypeOK, States, RatchetStates
<1> HIDE DEF z, s1
<1>9. zeta' \in [Peers -> [Slots -> Session]] /\ SessionShape'
    BY <1>4, <1>5, <1>7, SetSession DEF IInv
<1>10. net' \subseteq Packet
    BY <1>6, <1>7, ControlPacket DEF IInv, TypeOK
<1>11. QED BY <1>8, <1>9, <1>10 DEF ReceivedK2, IInv, TypeOK

LEMMA FaultyK2Step ==
    ASSUME IInv, NEW p \in Peers, NEW s \in Slots, NEW m \in net, FaultyK2(p, s, m)
    PROVE  IInv'
BY ExpiringStep, SessionFacts DEF FaultyK2, Consume, IInv, TypeOK

LEMMA TimeoutHandshakeStep ==
    ASSUME IInv, NEW p \in Peers, NEW s \in Slots, TimeoutHandshake(p, s)
    PROVE  IInv'
BY RestartHandshakeStep DEF TimeoutHandshake

LEMMA TimeoutRekeyStep ==
    ASSUME IInv, NEW p \in Peers, NEW s \in Slots, TimeoutRekey(p, s)
    PROVE  IInv'
<1> DEFINE z == zeta[p][s]
           r1(kid) == [z EXCEPT !.beta = "R1", !.eph = fresh + 1, !.nxt.recv = kid]
<1>1. z \in Session /\ ShapeOf(z) /\ z.beta = "S2" /\ session_map[p] \in Maps
    BY SessionFacts DEF TimeoutRekey
<1>2. fresh + 1 \in Secrets /\ fresh + 1 # None /\ fresh' \in 0 .. MaxFresh
    BY DEF TimeoutRekey, IInv, TypeOK, Secrets
<1>3. PICK kid \in GenKid(Unmapped(session_map[p], z)) :
        /\ zeta' = [zeta EXCEPT ![p][s] = r1(kid)]
        /\ session_map' = [session_map EXCEPT ![p] = Remapped(@, s, z, kid)]
        /\ net' = net \cup {K1(p, r1(kid))}
    BY DEF TimeoutRekey
<1>4. kid \in Kids /\ kid # None
    BY DEF GenKid
<1>5. /\ r1(kid) \in Session /\ r1(kid).beta = "R1" /\ r1(kid).eph = fresh + 1
      /\ r1(kid).cur = z.cur /\ r1(kid).ratchet_state1 = z.ratchet_state1
      /\ r1(kid).ratchet_state2 = z.ratchet_state2 /\ r1(kid).nxt = [z.nxt EXCEPT !.recv = kid]
    BY <1>1, <1>2, <1>4 DEF Session, DuplexKey, Betas
<1>6. r1(kid).nxt.recv = kid /\ r1(kid).nxt.send = z.nxt.send /\ r1(kid).nxt.kex = z.nxt.kex
    BY <1>1, <1>4, <1>5 DEF Session, DuplexKey
<1> HIDE DEF r1
<1>7. ShapeOf(r1(kid))
    BY <1>1, <1>2, <1>4, <1>5, <1>6 DEF ShapeOf
<1>8. r1(kid).cur.send # None /\ r1(kid).cur.kex # None
    BY <1>1, <1>5 DEF ShapeOf, Session, Ratchets
<1> HIDE DEF z
<1>9. zeta' \in [Peers -> [Slots -> Session]] /\ SessionShape'
    BY <1>3, <1>5, <1>7, SetSession DEF IInv
<1>10. session_map' \in [Peers -> [Kids -> Slots \cup {None}]]
    <2>1. Remapped(session_map[p], s, z, kid) \in Maps
        BY <1>1, <1>4, MapTypes
    <2>2. QED BY <1>3, <2>1 DEF IInv, TypeOK, Maps
<1>11. net' \subseteq Packet
    BY <1>2, <1>3, <1>4, <1>5, <1>6, <1>8, K1Packet DEF IInv, TypeOK
<1>12. QED BY <1>2, <1>9, <1>10, <1>11 DEF TimeoutRekey, IInv, TypeOK

LEMMA TimeoutExpireStep ==
    ASSUME IInv, NEW p \in Peers, NEW s \in Slots, TimeoutExpire(p, s)
    PROVE  IInv'
BY ExpiringStep, SessionFacts DEF TimeoutExpire, IInv, TypeOK

LEMMA ResendStep ==
    ASSUME IInv, NEW p \in Peers, NEW s \in Slots, Resend(p, s)
    PROVE  IInv'
<1> DEFINE z == zeta[p][s]
<1>1. z \in Session /\ ShapeOf(z) /\ z.cur \in DuplexKey /\ z.nxt \in DuplexKey
    BY SessionFacts
<1>2. z.ratchet_state1 # None
    BY <1>1 DEF Session, Ratchets
<1>3. ResendOf(p, z) \subseteq Packet
    <2>1. CASE z.beta = "A1"
        BY <2>1, <1>1, X1Packet DEF ResendOf, ShapeOf
    <2>2. CASE z.beta = "A3"
        BY <2>2, <1>1, <1>2, X3Packet DEF ResendOf, ShapeOf
    <2>3. CASE z.beta = "S1"
        BY <2>3, <1>1, <1>2, ControlPacket DEF ResendOf, ShapeOf
    <2>4. CASE z.beta = "R1"
        BY <2>4, <1>1, <1>2, K1Packet DEF ResendOf, ShapeOf
    <2>5. CASE z.beta = "R2"
        BY <2>5, <1>1, <1>2, K2Packet DEF ResendOf, ShapeOf
    <2>6. QED BY <2>1, <2>2, <2>3, <2>4, <2>5 DEF Resend
<1>4. QED BY <1>3 DEF Resend, IInv, TypeOK, SessionShape

LEMMA ExpireStep ==
    ASSUME IInv, NEW p \in Peers, NEW s \in Slots, Expire(p, s)
    PROVE  IInv'
BY ExpiringStep, SessionFacts DEF Expire, IInv, TypeOK

LEMMA RestartStep ==
    ASSUME IInv, NEW p \in Peers, Restart(p)
    PROVE  IInv'
<1> DEFINE f == [t \in Slots |-> NullSession]
<1>1. f \in [Slots -> Session] /\ \A t \in Slots : ShapeOf(f[t])
    BY NullSessionType
<1>2. zeta' = [zeta EXCEPT ![p] = f]
    BY DEF Restart
<1> HIDE DEF f
<1>3. zeta' \in [Peers -> [Slots -> Session]] /\ SessionShape'
    BY <1>1, <1>2, SetSessions DEF IInv
<1>4. QED BY <1>3 DEF Restart, IInv, TypeOK

-----------------------------------------------------------------------------
LEMMA IInvInit == Init => IInv
<1> SUFFICES ASSUME Init PROVE IInv
    OBVIOUS
<1>1. zeta \in [Peers -> [Slots -> Session]] /\ SessionShape
    BY NullSessionType DEF Init, SessionShape
<1>2. States(Empty, None) \in RatchetStates
    BY DEF States, RatchetStates, Ratchets, Empty
<1>3. QED BY <1>1, <1>2 DEF Init, IInv, TypeOK

LEMMA IInvNext == IInv /\ [Next]_vars => IInv'
<1> SUFFICES ASSUME IInv, [Next]_vars PROVE IInv'
    OBVIOUS
<1>1. CASE UNCHANGED vars
    BY <1>1 DEF vars, IInv, TypeOK, SessionShape
<1>2. CASE Next
    <2>1. PICK p \in Peers :
            \/ Open(p) \/ ReceiveHandshake(p) \/ ExpireB2(p) \/ Restart(p)
            \/ \E s \in Slots : ReceiveSession(p, s) \/ Service(p, s) \/ Expire(p, s)
        BY <1>2 DEF Next
    <2>2. CASE Open(p) \/ ExpireB2(p) \/ Restart(p)
        BY <2>2, OpenStep, ExpireB2Step, RestartStep
    <2>3. CASE ReceiveHandshake(p)
        BY <2>3, ReceivedX1Step, ReceivedX3Step, RefusedX3Step, DroppedX3Step DEF ReceiveHandshake
    <2>4. ASSUME NEW s \in Slots, ReceiveSession(p, s)
          PROVE  IInv'
        BY <2>4, ReceivedX2Step, FaultyX2Step, ReceivedC1Step, StaleC1Step, AcknowledgedC1Step,
           ReceivedC2Step, ReceivedDStep, ReceivedK1Step, FaultyK1Step, UnsavedK1Step,
           ReceivedK2Step, FaultyK2Step DEF ReceiveSession
    <2>5. ASSUME NEW s \in Slots, Service(p, s) \/ Expire(p, s)
          PROVE  IInv'
        BY <2>5, TimeoutHandshakeStep, TimeoutRekeyStep, TimeoutExpireStep, ResendStep, ExpireStep
           DEF Service
    <2>6. QED BY <2>1, <2>2, <2>3, <2>4, <2>5
<1>3. QED BY <1>1, <1>2

\* Every variable keeps its type, whatever the network, the timers and the storage do: in
\* particular no handler ever sends under a key or to a key id the session does not have.
THEOREM TypeCorrect == Spec => []TypeOK
BY IInvInit, IInvNext, PTL DEF Spec, IInv

\* In every state of the automaton a session holds the keys, key ids and ratchet states its
\* handlers unwrap.
THEOREM ShapeCorrect == Spec => []SessionShape
BY IInvInit, IInvNext, PTL DEF Spec, IInv

-----------------------------------------------------------------------------
(* Routing.  KidsRouted needs the two key ids of a session to differ: remap would otherwise  *)
(* take the current one away with the pending one.                                            *)

KidsDistinct ==
    \A p \in Peers, s \in Slots :
        zeta[p][s].cur.recv # None => zeta[p][s].cur.recv # zeta[p][s].nxt.recv

RInv == KidsRouted /\ KidsDistinct

\* A session whose key ids stay the same, or change places, or go away, is still routed.
LEMMA SameKids ==
    ASSUME IInv, RInv, NEW p \in Peers, NEW s \in Slots, NEW z \in Session,
           zeta' = [zeta EXCEPT ![p][s] = z], session_map' = session_map,
           \/ z.cur.recv = zeta[p][s].cur.recv /\ z.nxt.recv = zeta[p][s].nxt.recv
           \/ z.cur.recv = zeta[p][s].nxt.recv /\ z.nxt.recv = zeta[p][s].cur.recv
    PROVE  RInv'
<1>1. ASSUME NEW q \in Peers, NEW t \in Slots
      PROVE  zeta'[q][t] = IF q = p /\ t = s THEN z ELSE zeta[q][t]
    BY DEF IInv, TypeOK
<1>2. KidsRouted'
    BY <1>1 DEF RInv, KidsRouted, RecvKids
<1>3. KidsDistinct'
    BY <1>1 DEF RInv, KidsDistinct
<1>4. QED BY <1>2, <1>3 DEF RInv

\* remap keeps every session routed.
LEMMA RemapRoutes ==
    ASSUME IInv, RInv, NEW p \in Peers, NEW s \in Slots, NEW z \in Session,
           NEW kid \in GenKid(Unmapped(session_map[p], zeta[p][s])),
           zeta' = [zeta EXCEPT ![p][s] = z],
           session_map' = [session_map EXCEPT ![p] = Remapped(@, s, zeta[p][s], kid)],
           z.cur.recv = zeta[p][s].cur.recv, z.nxt.recv = kid
    PROVE  RInv'
<1> DEFINE y == zeta[p][s]
           map == session_map[p]
<1>1. y \in Session /\ map \in Maps /\ y.cur.recv \in Kids \cup {None} /\ y.nxt.recv \in Kids \cup {None}
    BY SessionFacts DEF DuplexKey
<1>2. kid \in Kids /\ (kid = y.nxt.recv \/ map[kid] = None)
    BY <1>1 DEF GenKid, Unmapped, Without, Maps
<1>3. y.nxt.recv # None => map[y.nxt.recv] = s
    BY DEF RInv, KidsRouted, RecvKids
<1>4. ASSUME NEW k \in Kids
      PROVE  session_map'[p][k] = IF k = kid THEN s ELSE IF k = y.nxt.recv THEN None ELSE map[k]
    <2>1. session_map'[p] = Remapped(map, s, y, kid)
        BY DEF IInv, TypeOK
    <2>2. QED BY <1>1, <1>2, <1>3, <2>1, RemappedAt
<1>5. ASSUME NEW q \in Peers, NEW t \in Slots
      PROVE  zeta'[q][t] = IF q = p /\ t = s THEN z ELSE zeta[q][t]
    BY DEF IInv, TypeOK
<1>6. ASSUME NEW q \in Peers, NEW t \in Slots, NEW k \in RecvKids(zeta'[q][t])
      PROVE  session_map'[q][k] = t
    <2>1. CASE q # p
        BY <2>1, <1>5 DEF IInv, TypeOK, RInv, KidsRouted
    <2>2. CASE q = p /\ t = s
        <3>1. k = kid \/ (k = y.cur.recv /\ k # None)
            BY <2>2, <1>5 DEF RecvKids
        <3>2. CASE k = kid
            BY <3>2, <2>2, <1>2, <1>4
        <3>3. CASE k = y.cur.recv /\ k # None
            <4>1. k \in Kids /\ map[k] = s /\ k # y.nxt.recv
                BY <3>3, <1>1 DEF RInv, KidsRouted, KidsDistinct, RecvKids
            <4>2. QED BY <4>1, <2>2, <1>4
        <3>4. QED BY <3>1, <3>2, <3>3
    <2>3. CASE q = p /\ t # s
        <3>1. k \in RecvKids(zeta[p][t])
            BY <2>3, <1>5
        <3>2. k \in Kids /\ map[k] = t
            BY <3>1, SessionFacts DEF RInv, KidsRouted, RecvKids, DuplexKey
        <3>3. k # kid /\ k # y.nxt.recv
            BY <3>2, <2>3, <1>2, <1>3
        <3>4. QED BY <3>2, <3>3, <2>3, <1>4
    <2>4. QED BY <2>1, <2>2, <2>3
<1>7. ASSUME NEW q \in Peers, NEW t \in Slots, zeta'[q][t].cur.recv # None
      PROVE  zeta'[q][t].cur.recv # zeta'[q][t].nxt.recv
    <2>1. CASE q = p /\ t = s
        <3>1. y.cur.recv # None /\ map[y.cur.recv] = s /\ y.cur.recv # y.nxt.recv
            BY <2>1, <1>5, <1>7 DEF RInv, KidsRouted, KidsDistinct, RecvKids
        <3>2. y.cur.recv # kid
            BY <3>1, <1>2
        <3>3. QED BY <2>1, <3>2, <1>5
    <2>2. CASE ~(q = p /\ t = s)
        BY <2>2, <1>5, <1>7 DEF RInv, KidsDistinct
    <2>3. QED BY <2>1, <2>2
<1>8. QED BY <1>6, <1>7 DEF RInv, KidsRouted, KidsDistinct

\* expire_inner leaves the other sessions routed, after remap too.
LEMMA ExpireRoutes ==
    ASSUME IInv, RInv, NEW p \in Peers, NEW s \in Slots, NEW map \in Maps, ExpireInto(p, s, map),
           \A t \in Slots \ {s} : \A k \in RecvKids(zeta[p][t]) : map[k] = t
    PROVE  RInv'
<1> DEFINE ks == RecvKids(zeta[p][s])
<1>1. ASSUME NEW q \in Peers, NEW t \in Slots
      PROVE  zeta'[q][t] = IF q = p /\ t = s THEN NullSession ELSE zeta[q][t]
    BY DEF IInv, TypeOK, ExpireInto
<1>2. ASSUME NEW q \in Peers
      PROVE  session_map'[q] = IF q = p THEN Without(map, ks) ELSE session_map[q]
    BY DEF IInv, TypeOK, ExpireInto
<1>3. ASSUME NEW q \in Peers, NEW t \in Slots, NEW k \in RecvKids(zeta'[q][t])
      PROVE  session_map'[q][k] = t
    <2>1. CASE q # p
        BY <2>1, <1>1, <1>2 DEF RInv, KidsRouted
    <2>2. CASE q = p /\ t = s
        BY <2>2, <1>1 DEF RecvKids, NullSession, NoKey
    <2>3. CASE q = p /\ t # s
        <3>1. k \in RecvKids(zeta[p][t]) /\ k \in Kids
            BY <2>3, <1>1, SessionFacts DEF RecvKids, DuplexKey
        <3>2. k \notin ks
            BY <3>1, <2>3 DEF RInv, KidsRouted
        <3>3. map[k] = t
            BY <3>1, <2>3
        <3>4. QED BY <3>1, <3>2, <3>3, <2>3, <1>2, ZenonT(30) DEF Without
    <2>4. QED BY <2>1, <2>2, <2>3
<1>4. KidsDistinct'
    BY <1>1 DEF RInv, KidsDistinct, NullSession, NoKey
<1>5. QED BY <1>3, <1>4 DEF RInv, KidsRouted

\* A peer that has no sessions, or one on a single key id, is routed.
LEMMA OnlySession ==
    ASSUME IInv, RInv, NEW p \in Peers, NEW f \in [Slots -> Session],
           zeta' = [zeta EXCEPT ![p] = f],
           \A q \in Peers \ {p} : session_map'[q] = session_map[q],
           \A t \in Slots : \A k \in RecvKids(f[t]) : session_map'[p][k] = t,
           \A t \in Slots : f[t].cur.recv # None => f[t].cur.recv # f[t].nxt.recv
    PROVE  RInv'
<1>1. ASSUME NEW q \in Peers, NEW t \in Slots
      PROVE  zeta'[q][t] = IF q = p THEN f[t] ELSE zeta[q][t]
    BY DEF IInv, TypeOK
<1>2. KidsRouted'
    BY <1>1 DEF RInv, KidsRouted
<1>3. KidsDistinct'
    BY <1>1 DEF RInv, KidsDistinct
<1>4. QED BY <1>2, <1>3 DEF RInv

LEMMA OpenRoutes ==
    ASSUME IInv, RInv, NEW p \in Peers, Open(p)
    PROVE  RInv'
<1>1. PICK s \in Slots, kid \in GenKid(session_map[p]) :
        LET z == ToA1([NullSession EXCEPT !.ratchet_state1 = store[p].state1,
                                          !.ratchet_state2 = store[p].state2], kid)
        IN zeta' = [zeta EXCEPT ![p][s] = z] /\ session_map' = [session_map EXCEPT ![p][kid] = s]
    BY DEF Open
<1> DEFINE z == ToA1([NullSession EXCEPT !.ratchet_state1 = store[p].state1,
                                         !.ratchet_state2 = store[p].state2], kid)
<1>2. kid \in Kids /\ session_map[p][kid] = None
    BY DEF GenKid
<1>3. z.cur.recv = None /\ z.nxt.recv = kid
    BY DEF ToA1, NullSession, NoKey
<1> HIDE DEF z
<1>4. ASSUME NEW q \in Peers, NEW t \in Slots
      PROVE  zeta'[q][t] = IF q = p /\ t = s THEN z ELSE zeta[q][t]
    BY <1>1 DEF IInv, TypeOK, z
<1>5. ASSUME NEW q \in Peers, NEW k \in Kids
      PROVE  session_map'[q][k] = IF q = p /\ k = kid THEN s ELSE session_map[q][k]
    BY <1>1, <1>2 DEF IInv, TypeOK
<1>6. ASSUME NEW q \in Peers, NEW t \in Slots, NEW k \in RecvKids(zeta'[q][t])
      PROVE  session_map'[q][k] = t
    <2>1. CASE q = p /\ t = s
        BY <2>1, <1>2, <1>3, <1>4, <1>5 DEF RecvKids
    <2>2. CASE ~(q = p /\ t = s)
        <3>1. k \in RecvKids(zeta[q][t]) /\ k \in Kids
            BY <2>2, <1>4, SessionFacts DEF RecvKids, DuplexKey
        <3>2. session_map[q][k] = t
            BY <3>1 DEF RInv, KidsRouted
        <3>3. QED BY <3>1, <3>2, <1>2, <1>5
    <2>3. QED BY <2>1, <2>2
<1>7. KidsDistinct'
    BY <1>3, <1>4 DEF RInv, KidsDistinct
<1>8. QED BY <1>6, <1>7 DEF RInv, KidsRouted

LEMMA HandshakeRoutes ==
    ASSUME IInv, RInv, NEW p \in Peers, ReceiveHandshake(p)
    PROVE  RInv'
<1>1. PICK m \in net :
        ReceivedX1(p, m) \/ \E b \in b2[p] : ReceivedX3(p, m, b) \/ RefusedX3(p, m, b) \/ DroppedX3(p, m, b)
    BY DEF ReceiveHandshake
<1>2. CASE ReceivedX1(p, m) \/ \E b \in b2[p] : DroppedX3(p, m, b)
    BY <1>2 DEF ReceivedX1, DroppedX3, RInv, KidsRouted, KidsDistinct
<1>3. ASSUME NEW b \in b2[p], RefusedX3(p, m, b)
      PROVE  RInv'
    <2> DEFINE f == [t \in Slots |-> NullSession]
    <2>1. f \in [Slots -> Session]
        BY NullSessionType
    <2>2. zeta' = [zeta EXCEPT ![p] = f] /\ \A q \in Peers \ {p} : session_map'[q] = session_map[q]
        BY <1>3 DEF RefusedX3, IInv, TypeOK
    <2>3. \A t \in Slots : RecvKids(f[t]) = {} /\ f[t].cur.recv = None
        BY DEF RecvKids, NullSession, NoKey
    <2> HIDE DEF f
    <2>4. QED BY <2>1, <2>2, <2>3, OnlySession
<1>4. ASSUME NEW b \in b2[p], ReceivedX3(p, m, b)
      PROVE  RInv'
    <2> DEFINE z == [NullSession EXCEPT
                        !.beta = "S1", !.was_bob = TRUE, !.origin = b.kex, !.ratchet_state1 = b.kex,
                        !.cur = [recv |-> b.kid_recv, send |-> b.kid_send, kex |-> b.kex]]
    <2>1. b \in StateB2 /\ b.kid_recv \in Kids /\ b.kex \in Ratchets
        BY DEF IInv, TypeOK, StateB2, Secrets, Ratchets
    <2>2. z \in Session /\ z.cur.recv = b.kid_recv /\ z.nxt.recv = None
        <3>1. z \in Session
            BY <2>1, NullSessionType DEF StateB2, Session, DuplexKey, Betas
        <3>2. z.cur.recv = b.kid_recv /\ z.nxt.recv = None
            BY DEF NullSession, NoKey
        <3>3. QED BY <3>1, <3>2
    <2>3. PICK s \in Slots :
            /\ zeta' = [zeta EXCEPT ![p] = [t \in Slots |-> IF t = s THEN z ELSE NullSession]]
            /\ session_map' = [session_map EXCEPT
                    ![p] = [Without(@, AllSessionKids(p)) EXCEPT ![b.kid_recv] = s]]
        BY <1>4 DEF ReceivedX3
    <2> HIDE DEF z
    <2> DEFINE f == [t \in Slots |-> IF t = s THEN z ELSE NullSession]
    <2>4. f \in [Slots -> Session]
        BY <2>2, NullSessionType
    <2>5. session_map'[p][b.kid_recv] = s /\ \A q \in Peers \ {p} : session_map'[q] = session_map[q]
        BY <2>1, <2>3 DEF Without, IInv, TypeOK
    <2>6. ASSUME NEW t \in Slots
          PROVE  /\ \A k \in RecvKids(f[t]) : t = s /\ k = b.kid_recv
                 /\ f[t].cur.recv # None => f[t].cur.recv # f[t].nxt.recv
        <3>1. CASE t = s
            BY <3>1, <2>2 DEF RecvKids
        <3>2. CASE t # s
            BY <3>2 DEF RecvKids, NullSession, NoKey
        <3>3. QED BY <3>1, <3>2
    <2>7. zeta' = [zeta EXCEPT ![p] = f]
        BY <2>3
    <2> HIDE DEF f
    <2>8. \A t \in Slots : \A k \in RecvKids(f[t]) : session_map'[p][k] = t
        BY <2>5, <2>6
    <2>9. \A t \in Slots : f[t].cur.recv # None => f[t].cur.recv # f[t].nxt.recv
        BY <2>6
    <2>10. \A q \in Peers \ {p} : session_map'[q] = session_map[q]
        BY <2>5
    <2>11. QED BY <2>4, <2>7, <2>8, <2>9, <2>10, OnlySession
<1>5. QED BY <1>1, <1>2, <1>3, <1>4

LEMMA RestartHandshakeRoutes ==
    ASSUME IInv, RInv, NEW p \in Peers, NEW s \in Slots, zeta[p][s].beta \in {"A1", "A3"},
           RestartHandshake(p, s)
    PROVE  RInv'
<1> DEFINE z == zeta[p][s]
<1>1. z \in Session /\ z.cur = NoKey
    BY SessionFacts DEF ShapeOf
<1>2. PICK kid \in GenKid(Unmapped(session_map[p], z)) :
        /\ zeta' = [zeta EXCEPT ![p][s] = ToA1(z, kid)]
        /\ session_map' = [session_map EXCEPT ![p] = Remapped(@, s, z, kid)]
    BY DEF RestartHandshake
<1>3. ToA1(z, kid) \in Session
    BY <1>1, ToA1Type DEF GenKid, RestartHandshake, IInv, TypeOK
<1>4. ToA1(z, kid).cur.recv = z.cur.recv /\ ToA1(z, kid).nxt.recv = kid
    BY <1>1 DEF ToA1, Session, NoKey
<1>5. QED BY <1>2, <1>3, <1>4, RemapRoutes

LEMMA ReceiveSessionRoutes ==
    ASSUME ~StorageErrors, IInv, RInv, NEW p \in Peers, NEW s \in Slots, ReceiveSession(p, s)
    PROVE  RInv'
<1> DEFINE z == zeta[p][s]
<1>1. PICK m \in net :
        \/ ReceivedX2(p, s, m) \/ FaultyX2(p, s, m)
        \/ ReceivedC1(p, s, m) \/ StaleC1(p, s, m) \/ AcknowledgedC1(p, s, m)
        \/ ReceivedC2(p, s, m) \/ ReceivedD(p, s, m)
        \/ ReceivedK1(p, s, m) \/ FaultyK1(p, s, m) \/ UnsavedK1(p, s, m)
        \/ ReceivedK2(p, s, m) \/ FaultyK2(p, s, m)
    BY DEF ReceiveSession
<1>2. z \in Session /\ session_map[p] \in Maps /\ z.nxt \in DuplexKey
    BY SessionFacts
<1>3. zeta'[p][s] \in Session
    BY IInvNext, <1>1 DEF IInv, TypeOK, Next, ReceiveSession
<1>4. \A t \in Slots \ {s} : \A k \in RecvKids(zeta[p][t]) : session_map[p][k] = t
    BY DEF RInv, KidsRouted
<1>5. CASE ReceivedX2(p, s, m)
    <2>1. z.nxt.recv = m.to
        BY <1>5 DEF ReceivedX2, AwaitsX2
    <2>2. PICK a3 \in Session : /\ zeta' = [zeta EXCEPT ![p][s] = a3]
                                /\ a3.cur.recv = z.cur.recv /\ a3.nxt.recv = m.to
        <3> DEFINE a3 == [z EXCEPT !.beta = "A3", !.origin = m.kex,
                                   !.nxt = [recv |-> m.to, send |-> m.kid, kex |-> m.kex],
                                   !.ratchet_state1 = m.kex, !.ratchet_state2 = z.ratchet_state1]
        <3>1. zeta' = [zeta EXCEPT ![p][s] = a3]
            BY <1>5 DEF ReceivedX2
        <3>2. a3.cur.recv = z.cur.recv /\ a3.nxt.recv = m.to
            BY <1>2 DEF Session
        <3> HIDE DEF a3
        <3>3. a3 = zeta'[p][s]
            BY <3>1 DEF IInv, TypeOK
        <3>4. QED BY <1>3, <3>1, <3>2, <3>3
    <2>3. session_map' = session_map
        BY <1>5 DEF ReceivedX2
    <2>4. QED BY <2>1, <2>2, <2>3, SameKids
<1>6. CASE FaultyX2(p, s, m)
    BY <1>6, RestartHandshakeRoutes DEF FaultyX2, AwaitsX2
<1>7. CASE ReceivedC1(p, s, m)
    <2>1. Confirmed(z) \in Session /\ Confirmed(z).cur.recv = z.nxt.recv /\ Confirmed(z).nxt.recv = z.cur.recv
        BY <1>2 DEF Confirmed, Flip, Session, Betas
    <2>2. QED BY <1>7, <2>1, SameKids DEF ReceivedC1
<1>8. CASE StaleC1(p, s, m) \/ ReceivedD(p, s, m) \/ FaultyK2(p, s, m)
    BY <1>2, <1>4, <1>8, ExpireRoutes DEF StaleC1, ReceivedD, FaultyK2
<1>9. CASE AcknowledgedC1(p, s, m)
    BY <1>9 DEF AcknowledgedC1, RInv, KidsRouted, KidsDistinct
<1>10. CASE ReceivedC2(p, s, m)
    <2> DEFINE s2 == [z EXCEPT !.beta = "S2"]
    <2>1. s2 \in Session /\ s2.cur.recv = z.cur.recv /\ s2.nxt.recv = z.nxt.recv
        BY <1>2 DEF Session, Betas
    <2>2. zeta' = [zeta EXCEPT ![p][s] = s2]
        BY <1>10 DEF ReceivedC2, IInv, TypeOK
    <2> HIDE DEF s2
    <2>3. QED BY <1>10, <2>1, <2>2, SameKids, ZenonT(30) DEF ReceivedC2
<1>11. CASE ReceivedK1(p, s, m)
    <2> DEFINE r2(kid) == [z EXCEPT !.beta = "R2", !.eph = m.eph,
                                    !.nxt = [recv |-> kid, send |-> m.kid, kex |-> fresh + 1],
                                    !.ratchet_state1 = fresh + 1, !.ratchet_state2 = z.ratchet_state1]
    <2>1. PICK kid \in GenKid(Unmapped(session_map[p], z)) :
            /\ zeta' = [zeta EXCEPT ![p][s] = r2(kid)]
            /\ session_map' = [session_map EXCEPT ![p] = Remapped(@, s, z, kid)]
        BY <1>11 DEF ReceivedK1
    <2>2. r2(kid).cur.recv = z.cur.recv /\ r2(kid).nxt.recv = kid
        BY <1>2 DEF Session
    <2> HIDE DEF r2
    <2>3. r2(kid) = zeta'[p][s]
        BY <2>1 DEF IInv, TypeOK
    <2>4. QED BY <1>3, <2>1, <2>2, <2>3, RemapRoutes
<1>12. CASE FaultyK1(p, s, m)
    <2>1. CASE ExpireInto(p, s, session_map[p])
        <3>1. \A t \in Slots \ {s} : \A k \in RecvKids(zeta[p][t]) : session_map[p][k] = t
            BY DEF RInv, KidsRouted
        <3>2. QED BY <1>2, <2>1, <3>1, ExpireRoutes
    <2>2. ASSUME NEW kid \in GenKid(Unmapped(session_map[p], z)),
                 ExpireInto(p, s, Remapped(session_map[p], s, z, kid))
          PROVE  RInv'
        <3> DEFINE map == Remapped(session_map[p], s, z, kid)
        <3>1. kid \in Kids /\ (kid = z.nxt.recv \/ session_map[p][kid] = None)
            BY <1>2 DEF GenKid, Unmapped, Without, Maps
        <3>2. z.nxt.recv # None => session_map[p][z.nxt.recv] = s
            BY DEF RInv, KidsRouted, RecvKids
        <3>3. map \in Maps
            BY <1>2, <3>1, MapTypes
        <3>4. ASSUME NEW t \in Slots \ {s}, NEW k \in RecvKids(zeta[p][t])
              PROVE  map[k] = t
            <4>1. k \in Kids /\ session_map[p][k] = t
                BY SessionFacts DEF RInv, KidsRouted, RecvKids, DuplexKey
            <4>2. k # kid /\ k # z.nxt.recv
                BY <3>1, <3>2, <4>1
            <4>3. QED BY <1>2, <3>1, <3>2, <4>1, <4>2, RemappedAt
        <3> HIDE DEF map
        <3>5. ExpireInto(p, s, map)
            BY <2>2 DEF map
        <3>6. QED BY <3>3, <3>4, <3>5, ExpireRoutes
    <2>3. QED BY <1>12, <2>1, <2>2 DEF FaultyK1
<1>13. CASE UnsavedK1(p, s, m)
    BY <1>13 DEF UnsavedK1
<1>14. CASE ReceivedK2(p, s, m)
    <2> DEFINE rekeyed == [z EXCEPT !.nxt.send = m.kid, !.nxt.kex = m.newkex]
               s1 == [Flip(rekeyed) EXCEPT !.beta = "S1", !.ratchet_state1 = m.newkex, !.eph = None]
    <2>1. zeta' = [zeta EXCEPT ![p][s] = s1]
        BY <1>14 DEF ReceivedK2
    <2>2. rekeyed.cur = z.cur /\ rekeyed.nxt.recv = z.nxt.recv
        BY <1>2 DEF Session, DuplexKey
    <2>3. s1.cur.recv = z.nxt.recv /\ s1.nxt.recv = z.cur.recv
        <3>1. s1.cur = rekeyed.nxt /\ s1.nxt = rekeyed.cur
            BY <1>2 DEF Flip, Session
        <3> HIDE DEF s1, rekeyed
        <3>2. QED BY <3>1, <2>2
    <2> HIDE DEF s1, rekeyed
    <2>4. s1 = zeta'[p][s]
        BY <2>1 DEF IInv, TypeOK
    <2>5. session_map' = session_map
        BY <1>14 DEF ReceivedK2
    <2>6. QED BY <1>3, <2>1, <2>3, <2>4, <2>5, SameKids
<1>15. QED BY <1>1, <1>5, <1>6, <1>7, <1>8, <1>9, <1>10, <1>11, <1>12, <1>13, <1>14

LEMMA ServiceRoutes ==
    ASSUME IInv, RInv, NEW p \in Peers, NEW s \in Slots, Service(p, s) \/ Expire(p, s)
    PROVE  RInv'
<1> DEFINE z == zeta[p][s]
<1>1. z \in Session /\ session_map[p] \in Maps
    BY SessionFacts
<1>2. \A t \in Slots \ {s} : \A k \in RecvKids(zeta[p][t]) : session_map[p][k] = t
    BY DEF RInv, KidsRouted
<1>3. CASE TimeoutHandshake(p, s)
    BY <1>3, RestartHandshakeRoutes DEF TimeoutHandshake
<1>4. CASE TimeoutRekey(p, s)
    <2> DEFINE r1(kid) == [z EXCEPT !.beta = "R1", !.eph = fresh + 1, !.nxt.recv = kid]
    <2>1. PICK kid \in GenKid(Unmapped(session_map[p], z)) :
            /\ zeta' = [zeta EXCEPT ![p][s] = r1(kid)]
            /\ session_map' = [session_map EXCEPT ![p] = Remapped(@, s, z, kid)]
        BY <1>4 DEF TimeoutRekey
    <2>2. r1(kid).cur.recv = z.cur.recv /\ r1(kid).nxt.recv = kid
        BY <1>1 DEF Session, DuplexKey
    <2>3. zeta'[p][s] \in Session
        BY <1>4, TimeoutRekeyStep DEF IInv, TypeOK
    <2> HIDE DEF r1
    <2>4. r1(kid) = zeta'[p][s]
        BY <2>1 DEF IInv, TypeOK
    <2>5. QED BY <2>1, <2>2, <2>3, <2>4, RemapRoutes
<1>5. CASE TimeoutExpire(p, s) \/ Expire(p, s)
    BY <1>1, <1>2, <1>5, ExpireRoutes DEF TimeoutExpire, Expire
<1>6. CASE Resend(p, s)
    BY <1>6 DEF Resend, RInv, KidsRouted, KidsDistinct
<1>7. QED BY <1>3, <1>4, <1>5, <1>6 DEF Service

LEMMA RestartRoutes ==
    ASSUME IInv, RInv, NEW p \in Peers, Restart(p)
    PROVE  RInv'
<1> DEFINE f == [t \in Slots |-> NullSession]
<1>1. f \in [Slots -> Session]
    BY NullSessionType
<1>2. zeta' = [zeta EXCEPT ![p] = f] /\ \A q \in Peers \ {p} : session_map'[q] = session_map[q]
    BY DEF Restart, IInv, TypeOK
<1>3. \A t \in Slots : RecvKids(f[t]) = {} /\ f[t].cur.recv = None
    BY DEF RecvKids, NullSession, NoKey
<1> HIDE DEF f
<1>4. QED BY <1>1, <1>2, <1>3, OnlySession

LEMMA RoutesNext ==
    ASSUME ~StorageErrors, IInv, RInv, [Next]_vars
    PROVE  RInv'
<1>1. CASE UNCHANGED vars
    BY <1>1 DEF vars, RInv, KidsRouted, KidsDistinct
<1>2. CASE Next
    <2>1. PICK p \in Peers :
            \/ Open(p) \/ ReceiveHandshake(p) \/ ExpireB2(p) \/ Restart(p)
            \/ \E s \in Slots : ReceiveSession(p, s) \/ Service(p, s) \/ Expire(p, s)
        BY <1>2 DEF Next
    <2>2. CASE ExpireB2(p)
        BY <2>2 DEF ExpireB2, RInv, KidsRouted, KidsDistinct
    <2>3. QED BY <2>1, <2>2, OpenRoutes, HandshakeRoutes, RestartRoutes, ReceiveSessionRoutes,
                 ServiceRoutes
<1>3. QED BY <1>1, <1>2

\* As long as the storage reports no errors, a key id that a session listens on is routed to that
\* session, and to no other, through every handshake, rekey, timeout and restart.
THEOREM RoutingCorrect ==
    ASSUME ~StorageErrors
    PROVE  Spec => []KidsRouted
<1>1. Init => IInv /\ RInv
    <2>1. Init => RInv
        BY DEF Init, RInv, KidsRouted, KidsDistinct, RecvKids, NullSession, NoKey
    <2>2. QED BY <2>1, IInvInit
<1>2. IInv /\ RInv /\ [Next]_vars => RInv'
    BY RoutesNext
<1>3. RInv => KidsRouted
    BY DEF RInv
<1>4. QED BY <1>1, <1>2, <1>3, IInvNext, PTL DEF Spec

-----------------------------------------------------------------------------
(* The two ends of a session.  The invariant relates the sessions of both    *)
(* peers to the packets that are still under way.  It is stated for any      *)
(* sessions Z, packets N, cached handshakes B and F secrets drawn, so that a *)
(* handler's step can be taken apart: the session changes first, then        *)
(* packets are lost, then the reply is sent.                                 *)

\* The session waits for the answer to its ephemeral key.
Waits(z) == z.beta \in {"A1", "R1"}

\* The session has a key that it does not send with yet.
Pends(z) == z.beta \in {"A3", "R2"}

\* The session sends with key k or is about to.
Holds(z, k) == z.cur.kex = k \/ (Pends(z) /\ z.nxt.kex = k)

\* What the two ends of a session know of one key.
Match(k1, k2) == k1.kex = k2.kex /\ k1.recv = k2.send /\ k1.send = k2.recv

\* Two sessions that the same handshake established.
Mates(z, y) == z.origin # None /\ z.origin = y.origin

\* Sessions are typed and shaped: ShapeCorrect and TypeCorrect show it of zeta.
Shaped(Z) ==
    Z \in [Peers -> [Slots -> Session]] /\ \A p \in Peers, s \in Slots : ShapeOf(Z[p][s])

\* Roles and origins.  The initiator of a handshake is never Bob, and R2 has the newer key pending.
Roles(Z) ==
    \A p \in Peers, s \in Slots :
        /\ Z[p][s].beta \in {"A1", "A3"} => ~Z[p][s].was_bob
        /\ Z[p][s].origin = None <=> Z[p][s].beta \in {"Null", "A1"}
        /\ Z[p][s].beta = "A3" => Z[p][s].nxt.kex = Z[p][s].origin
        /\ Z[p][s].beta = "R2" => Z[p][s].nxt.kex > Z[p][s].cur.kex

\* Every secret in use has been drawn.
DrawnBy(k, F) == k # None => k <= F

DrawnSessions(Z, F) ==
    \A p \in Peers, s \in Slots :
        /\ DrawnBy(Z[p][s].cur.kex, F) /\ DrawnBy(Z[p][s].nxt.kex, F)
        /\ DrawnBy(Z[p][s].eph, F) /\ DrawnBy(Z[p][s].origin, F)

DrawnPackets(N, F) ==
    \A m \in N :
        /\ m.type \in {"X1", "X2", "X3", "K1", "K2"} => m.eph <= F
        /\ m.type \in {"X2", "X3", "C1", "C2", "K1", "K2"} => m.kex <= F
        /\ m.type = "K2" => m.newkex <= F

\* No two sessions wait for an answer to the same ephemeral key.
EphsUnique(Z) ==
    \A p, q \in Peers, s, t \in Slots :
        Waits(Z[p][s]) /\ Waits(Z[q][t]) /\ Z[p][s].eph = Z[q][t].eph => p = q /\ s = t

\* No two sessions of a peer have a key or their origin in common.
KeysUnique(Z) ==
    \A p \in Peers, s, t \in Slots :
        /\ \A k \in Secrets : Holds(Z[p][s], k) /\ Holds(Z[p][t], k) => s = t
        /\ Z[p][s].origin # None /\ Z[p][s].origin = Z[p][t].origin => s = t

\* Peer q has answered ephemeral key e with handshake k: by X2, by K2 or in R2, which repeats K2.
Answered(Z, N, q, e, k) ==
    \/ \E m \in N : m.type = "X2" /\ m.dst = Remote(q) /\ m.eph = e /\ m.kex = k
    \/ \E m \in N : m.type = "K2" /\ m.dst = Remote(q) /\ m.eph = e /\ m.newkex = k
    \/ \E s \in Slots : Z[q][s].beta = "R2" /\ Z[q][s].eph = e /\ Z[q][s].nxt.kex = k

\* A handshake has one responder and answers one ephemeral key.
AnswersUnique(Z, N) ==
    \A p, q \in Peers, e, f, k \in Secrets :
        Answered(Z, N, p, e, k) /\ Answered(Z, N, q, f, k) => p = q /\ e = f

\* Key k is in no session, but pending in R2 with the responder, and nothing was sent under it.
Untouched(Z, N, k) ==
    /\ \A p \in Peers, s \in Slots :
        /\ Z[p][s].origin # k
        /\ Holds(Z[p][s], k) => Z[p][s].beta = "R2" /\ Z[p][s].cur.kex # k
    /\ \A m \in N : m.type \in {"X3", "C1", "C2", "K1", "K2"} => m.kex # k

\* As long as a session waits for an answer, its key is untouched.
AnswersFresh(Z, N) ==
    \A p, q \in Peers, s \in Slots, k \in Secrets :
        Waits(Z[p][s]) /\ Answered(Z, N, q, Z[p][s].eph, k) => Untouched(Z, N, k)

\* A peer has not sent under a key that it has pending.
PendingUnused(Z, N) ==
    \A p \in Peers, s \in Slots, m \in N :
        Pends(Z[p][s]) /\ m.dst = Remote(p) /\ m.type \in {"C2", "K1", "K2"} =>
            m.kex # Z[p][s].nxt.kex

\* A session makes one offer under a key.  If it is still under that key it waits for the answer,
\* or it was Bob and has answered an offer of the other side instead.
OffersCurrent(Z, N) ==
    \A p \in Peers, s \in Slots, m \in N :
        m.type = "K1" /\ m.dst = Remote(p) /\ m.kex = Z[p][s].cur.kex =>
            \/ Z[p][s].beta = "R1" /\ Z[p][s].eph = m.eph /\ Z[p][s].nxt.recv = m.kid
            \/ Z[p][s].beta = "R2" /\ Z[p][s].was_bob

\* A session gives one answer under a key, with a newer key.
AnswersCurrent(Z, N) ==
    \A p \in Peers, m \in N : m.type = "K2" /\ m.dst = Remote(p) =>
        /\ m.newkex > m.kex
        /\ \A s \in Slots : m.kex = Z[p][s].cur.kex =>
            /\ Z[p][s].beta = "R2" /\ Z[p][s].eph = m.eph
            /\ Z[p][s].nxt.kex = m.newkex /\ Z[p][s].nxt.recv = m.kid

\* The keys of a handshake in the cache, as the other peer has them.
KeyOfB2(b) == [recv |-> b.kid_send, send |-> b.kid_recv, kex |-> b.kex]

\* A handshake in the cache has come no further than A3 at the other peer.
CacheUnused(Z, N, B) ==
    \A p \in Peers : \A b \in B[p] :
        /\ X2(p, b) \in N
        /\ \A m \in N : m.type = "X2" /\ m.kex = b.kex => m = X2(p, b)
        /\ \A m \in N : m.type \in {"C1", "C2", "K1", "K2"} => m.kex # b.kex
        /\ \A m \in N : m.type = "K2" => m.newkex # b.kex
        /\ \A s \in Slots : Z[p][s].origin # b.kex /\ ~Holds(Z[p][s], b.kex)
        /\ \A s \in Slots :
            Z[Remote(p)][s].origin = b.kex \/ Holds(Z[Remote(p)][s], b.kex) =>
                Z[Remote(p)][s].beta = "A3" /\ Z[Remote(p)][s].nxt = KeyOfB2(b)

\* The states that the two ends of a session may be in together.
Agree(z, y) ==
    \/ z.beta = "A3" /\ y.beta = "S1" /\ Match(z.nxt, y.cur)
    \/ z.beta \in {"S2", "R1"} /\ y.beta \in {"S1", "S2", "R1"} /\ Match(z.cur, y.cur)
    \/ /\ z.beta = "R2" /\ y.beta = "R1" /\ Match(z.cur, y.cur)
       /\ z.eph = y.eph /\ z.nxt.send = y.nxt.recv
    \/ z.beta = "R2" /\ y.beta = "S1" /\ Match(z.nxt, y.cur) /\ Match(z.cur, y.nxt)

EndsAgree(Z) ==
    \A p \in Peers, s, t \in Slots :
        Mates(Z[p][s], Z[Remote(p)][t]) =>
            /\ Z[p][s].was_bob # Z[Remote(p)][t].was_bob
            /\ Agree(Z[p][s], Z[Remote(p)][t]) \/ Agree(Z[Remote(p)][t], Z[p][s])

AInv(Z, N, B, F) ==
    /\ Roles(Z) /\ DrawnSessions(Z, F) /\ DrawnPackets(N, F)
    /\ EphsUnique(Z) /\ KeysUnique(Z) /\ AnswersUnique(Z, N) /\ AnswersFresh(Z, N)
    /\ PendingUnused(Z, N) /\ OffersCurrent(Z, N) /\ AnswersCurrent(Z, N)
    /\ CacheUnused(Z, N, B) /\ EndsAgree(Z)

\* What the invariant is for.
Inv == AInv(zeta, net, b2, fresh)

-----------------------------------------------------------------------------
(* Facts used throughout *)

LEMMA RemoteFacts ==
    /\ \A p \in Peers : Remote(p) \in Peers /\ Remote(p) # p /\ Remote(Remote(p)) = p
    /\ \A p, q \in Peers : p # q => q = Remote(p)
    /\ \A p, q \in Peers : Remote(p) = Remote(q) => p = q
BY DEF Peers, Remote

\* The fields of a session that hold a secret.
LEMMA FieldTypes ==
    ASSUME NEW Z, Shaped(Z), NEW p \in Peers, NEW s \in Slots
    PROVE  /\ Z[p][s] \in Session /\ ShapeOf(Z[p][s])
           /\ Z[p][s].cur.kex \in Secrets \cup {None} /\ Z[p][s].nxt.kex \in Secrets \cup {None}
           /\ Z[p][s].eph \in Secrets \cup {None} /\ Z[p][s].origin \in Secrets \cup {None}
<1>1. Z[p][s] \in Session /\ ShapeOf(Z[p][s])
    BY DEF Shaped
<1>2. QED BY <1>1 DEF Session, DuplexKey

\* A slot without a session has no keys.
LEMMA NullFacts ==
    /\ NullSession \in Session
    /\ NullSession.beta = "Null" /\ ~NullSession.was_bob
    /\ NullSession.origin = None /\ NullSession.eph = None
    /\ NullSession.cur = NoKey /\ NullSession.nxt = NoKey
    /\ NoKey.kex = None /\ NoKey.recv = None /\ NoKey.send = None
    /\ \A k \in Secrets : ~Holds(NullSession, k) /\ k # None
    /\ ~Waits(NullSession) /\ ~Pends(NullSession)
BY NullSessionType DEF NullSession, NoKey, Holds, Pends, Waits, Secrets

-----------------------------------------------------------------------------
(* Losing packets, cached handshakes and sessions *)

\* The network loses a packet, the cache a handshake.  X2 is never consumed.
LEMMA Lose ==
    ASSUME NEW Z, NEW N, NEW B, NEW F, AInv(Z, N, B, F),
           NEW M \in SUBSET N, \A m \in N : m.type = "X2" => m \in M,
           NEW C, \A p \in Peers : C[p] \subseteq B[p]
    PROVE  AInv(Z, M, C, F)
<1>1. DrawnPackets(M, F) /\ PendingUnused(Z, M) /\ OffersCurrent(Z, M)
    BY DEF AInv, DrawnPackets, PendingUnused, OffersCurrent
<1>2. AnswersCurrent(Z, M)
    BY DEF AInv, AnswersCurrent
<1>3. \A q, e, k : Answered(Z, M, q, e, k) => Answered(Z, N, q, e, k)
    BY DEF Answered
<1>4. AnswersUnique(Z, M)
    BY <1>3 DEF AInv, AnswersUnique
<1>5. \A k : Untouched(Z, N, k) => Untouched(Z, M, k)
    BY DEF Untouched
<1>6. AnswersFresh(Z, M)
    BY <1>3, <1>5 DEF AInv, AnswersFresh
<1>7. CacheUnused(Z, M, C)
    BY DEF AInv, CacheUnused, X2
<1>8. QED BY <1>1, <1>2, <1>4, <1>6, <1>7 DEF AInv

\* Any sessions end.
LEMMA End ==
    ASSUME NEW Z, NEW N, NEW B, NEW F, N \subseteq Packet,
           B \in [Peers -> SUBSET StateB2], AInv(Z, N, B, F), NEW Y,
           \A p \in Peers, s \in Slots : Y[p][s] \in {Z[p][s], NullSession}
    PROVE  AInv(Y, N, B, F)
<1>1. Roles(Y) /\ DrawnSessions(Y, F)
    BY NullFacts DEF AInv, Roles, DrawnSessions, DrawnBy
<1>2. EphsUnique(Y)
    BY NullFacts DEF AInv, EphsUnique
<1>3. KeysUnique(Y)
    BY NullFacts DEF AInv, KeysUnique
<1>4. \A q \in Peers : \A e, k : Answered(Y, N, q, e, k) => Answered(Z, N, q, e, k)
    BY NullFacts DEF Answered
<1>5. AnswersUnique(Y, N)
    BY <1>4 DEF AInv, AnswersUnique
<1>6. \A k \in Secrets : Untouched(Z, N, k) => Untouched(Y, N, k)
    BY NullFacts DEF Untouched
<1>7. AnswersFresh(Y, N)
    BY <1>4, <1>6, NullFacts DEF AInv, AnswersFresh
<1>8. PendingUnused(Y, N)
    BY NullFacts DEF AInv, PendingUnused
<1>9. OffersCurrent(Y, N)
    BY NullFacts, PacketFields DEF AInv, OffersCurrent
<1>10. AnswersCurrent(Y, N)
    BY NullFacts, PacketFields DEF AInv, AnswersCurrent
<1>11. CacheUnused(Y, N, B)
    BY NullFacts, RemoteFacts DEF AInv, CacheUnused, StateB2
<1>12. EndsAgree(Y)
    BY NullFacts, RemoteFacts DEF AInv, EndsAgree, Mates
<1>13. QED BY <1>1, <1>2, <1>3, <1>5, <1>7, <1>8, <1>9, <1>10, <1>11, <1>12 DEF AInv

-----------------------------------------------------------------------------
(* Sending *)

\* What a session may send: the packet its state repeats, an acknowledgement under its key.
Says(p, z, m) ==
    \/ m \in ResendOf(p, z)
    \/ z.cur.kex # None /\ m = Control("C2", p, z.cur)

\* A session repeats what it has sent, or acknowledges under its key.
LEMMA Send ==
    ASSUME NEW Z, NEW N, NEW B, NEW F, Shaped(Z), N \subseteq Packet,
           B \in [Peers -> SUBSET StateB2], AInv(Z, N, B, F),
           NEW p \in Peers, NEW s \in Slots, NEW m \in Packet, Says(p, Z[p][s], m)
    PROVE  AInv(Z, N \cup {m}, B, F)
<1> DEFINE z == Z[p][s]
           M == N \cup {m}
<1>1. /\ z \in Session /\ ShapeOf(z) /\ Roles(Z)
      /\ \A q \in Peers, t \in Slots : Z[q][t] \in Session
    BY FieldTypes DEF AInv
<1>2. m.dst = Remote(p)
    BY DEF Says, ResendOf, X1, X3, K1, K2, Control
<1>3. /\ m.type = "X1" => z.beta = "A1" /\ m.eph = z.eph
      /\ m.type = "X3" => z.beta = "A3" /\ m.eph = z.eph /\ m.kex = z.nxt.kex
      /\ m.type = "C1" => z.beta = "S1" /\ m.kex = z.cur.kex
      /\ m.type = "C2" => m.kex = z.cur.kex
      /\ m.type = "K1" => z.beta = "R1" /\ m.kex = z.cur.kex /\ m.eph = z.eph /\ m.kid = z.nxt.recv
      /\ m.type = "K2" => /\ z.beta = "R2" /\ m.kex = z.cur.kex /\ m.eph = z.eph
                          /\ m.newkex = z.nxt.kex /\ m.kid = z.nxt.recv
      /\ m.type # "X2"
    BY DEF Says, ResendOf, X1, X3, K1, K2, Control
<1>4. m.type \in {"X3", "C1", "C2", "K1", "K2"} =>
        m.kex \in Secrets /\ Holds(z, m.kex) /\ (z.beta = "R2" => m.kex = z.cur.kex)
    BY <1>3, PacketFields DEF Holds, Pends
<1>5. DrawnPackets(M, F)
    BY <1>3, <1>4, PacketFields DEF AInv, DrawnPackets, DrawnSessions, DrawnBy, Secrets
<1>6. \A q \in Peers : \A e, k : Answered(Z, M, q, e, k) => Answered(Z, N, q, e, k)
    BY <1>2, <1>3, RemoteFacts DEF Answered
<1>7. AnswersUnique(Z, M)
    BY <1>6 DEF AInv, AnswersUnique
<1>8. \A k \in Secrets : Untouched(Z, N, k) => Untouched(Z, M, k)
    BY <1>4 DEF Untouched
<1>9. AnswersFresh(Z, M)
    BY <1>6, <1>8, FieldTypes DEF AInv, AnswersFresh
<1>10. PendingUnused(Z, M)
    <2> SUFFICES ASSUME NEW t \in Slots, Pends(Z[p][t]), m.type \in {"C2", "K1", "K2"}
                 PROVE  m.kex # Z[p][t].nxt.kex
        BY <1>2, RemoteFacts DEF AInv, PendingUnused
    <2>1. CASE t = s
        BY <2>1, <1>1, <1>3, <1>4 DEF Pends, Roles, ShapeOf, NoKey, Secrets
    <2>2. CASE t # s
        BY <2>2, <1>4 DEF AInv, KeysUnique, Holds
    <2>3. QED BY <2>1, <2>2
<1>11. OffersCurrent(Z, M)
    BY <1>2, <1>3, <1>4, RemoteFacts DEF AInv, OffersCurrent, KeysUnique, Holds
<1>12. AnswersCurrent(Z, M)
    BY <1>1, <1>2, <1>3, <1>4, RemoteFacts DEF AInv, AnswersCurrent, KeysUnique, Holds, Roles
<1>13. CacheUnused(Z, M, B)
    <2> SUFFICES ASSUME NEW q \in Peers, NEW b \in B[q]
                 PROVE  /\ m.type \in {"C1", "C2", "K1", "K2"} => m.kex # b.kex
                        /\ m.type = "K2" => m.newkex # b.kex
        BY <1>3 DEF AInv, CacheUnused
    <2>1. CASE q = p
        BY <2>1, <1>3, <1>4 DEF AInv, CacheUnused, Holds, Pends
    <2>2. CASE q # p
        <3>1. p = Remote(q)
            BY <2>2, RemoteFacts
        <3>2. Holds(z, b.kex) => z.beta = "A3"
            BY <3>1 DEF AInv, CacheUnused
        <3>3. m.type = "C2" => z.beta # "A3"
            BY <1>1, <1>3, <1>4 DEF ShapeOf, NoKey, Secrets
        <3>4. QED BY <1>3, <1>4, <3>2, <3>3 DEF Holds, Pends
    <2>3. QED BY <2>1, <2>2
<1>14. QED BY <1>5, <1>7, <1>9, <1>10, <1>11, <1>12, <1>13 DEF AInv

-----------------------------------------------------------------------------
(* One session changes *)

Typed(Z, N, B, F) ==
    Shaped(Z) /\ N \subseteq Packet /\ B \in [Peers -> SUBSET StateB2] /\ F \in Nat

\* The sessions of Z and Y differ in the one of peer p in slot s at most.
Differ(Z, Y, p, s) ==
    \A q \in Peers, t \in Slots : ~(q = p /\ t = s) => Y[q][t] = Z[q][t]

\* The pairs of ends that a change of one session concerns.
LEMMA EndsAgreeAt ==
    ASSUME NEW Z, NEW Y, EndsAgree(Z), NEW p \in Peers, NEW s \in Slots, Differ(Z, Y, p, s),
           \A t \in Slots : Mates(Y[p][s], Z[Remote(p)][t]) =>
                /\ Y[p][s].was_bob # Z[Remote(p)][t].was_bob
                /\ Agree(Y[p][s], Z[Remote(p)][t]) \/ Agree(Z[Remote(p)][t], Y[p][s])
    PROVE  EndsAgree(Y)
<1> SUFFICES ASSUME NEW q \in Peers, NEW u \in Slots, NEW t \in Slots,
                    Mates(Y[q][u], Y[Remote(q)][t])
             PROVE  /\ Y[q][u].was_bob # Y[Remote(q)][t].was_bob
                    /\ Agree(Y[q][u], Y[Remote(q)][t]) \/ Agree(Y[Remote(q)][t], Y[q][u])
    BY DEF EndsAgree
<1>1. CASE q = p /\ u = s
    BY <1>1, RemoteFacts DEF Differ
<1>2. CASE q # p /\ t = s
    <2>1. p = Remote(q) /\ q = Remote(p) /\ Mates(Y[p][s], Z[q][u]) /\ Y[q][u] = Z[q][u]
        BY <1>2, RemoteFacts DEF Differ, Mates
    <2>2. QED BY <1>2, <2>1
<1>3. CASE ~(q = p /\ u = s) /\ ~(q # p /\ t = s)
    <2>1. Y[q][u] = Z[q][u] /\ Y[Remote(q)][t] = Z[Remote(q)][t]
        BY <1>3, RemoteFacts DEF Differ
    <2>2. QED BY <2>1, RemoteFacts DEF EndsAgree
<1>4. QED BY <1>1, <1>2, <1>3

\* An answer is no newer than the secrets drawn.
LEMMA AnsweredDrawn ==
    ASSUME NEW Z, NEW N, NEW B, NEW F, Typed(Z, N, B, F), AInv(Z, N, B, F),
           NEW q \in Peers, NEW e, NEW k, Answered(Z, N, q, e, k)
    PROVE  e \in Secrets /\ k \in Secrets /\ e <= F /\ k <= F
<1>1. CASE \E m \in N : \/ m.type = "X2" /\ m.eph = e /\ m.kex = k
                        \/ m.type = "K2" /\ m.eph = e /\ m.newkex = k
    BY <1>1, PacketFields DEF Typed, AInv, DrawnPackets
<1>2. ASSUME NEW s \in Slots, Z[q][s].beta = "R2", Z[q][s].eph = e, Z[q][s].nxt.kex = k
      PROVE  e \in Secrets /\ k \in Secrets /\ e <= F /\ k <= F
    <2>1. e \in Secrets \cup {None} /\ k \in Secrets \cup {None} /\ ShapeOf(Z[q][s]) /\ Z[q][s] \in Session
        BY <1>2, FieldTypes DEF Typed
    <2>2. e # None /\ k # None
        BY <1>2, <2>1 DEF ShapeOf, Session, Ratchets
    <2>3. QED BY <1>2, <2>1, <2>2 DEF AInv, DrawnSessions, DrawnBy
<1>3. QED BY <1>1, <1>2 DEF Answered

\* The changes that the handlers make to the session z of peer p, which becomes y.
Begins(y, F) ==
    y.beta = "A1" /\ ~y.was_bob /\ y.origin = None /\ y.eph = F + 1

Completes(z, y, p, m) ==
    /\ m.type = "X2" /\ m.dst = p
    /\ z.beta = "A1" /\ z.eph = m.eph /\ z.nxt.recv = m.to
    /\ y.beta = "A3" /\ ~y.was_bob /\ y.origin = m.kex /\ y.eph = m.eph
    /\ y.nxt = [recv |-> m.to, send |-> m.kid, kex |-> m.kex]

Accepts(y, m, b) ==
    /\ m.type = "X3" /\ m.kex = b.kex
    /\ y.beta = "S1" /\ y.was_bob = TRUE /\ y.origin = b.kex /\ y.eph = None /\ y.nxt = NoKey
    /\ y.cur = [recv |-> b.kid_recv, send |-> b.kid_send, kex |-> b.kex]

Confirms(z, y, p, m) ==
    /\ m.type = "C1" /\ m.dst = p /\ Pends(z) /\ m.kex = z.nxt.kex
    /\ y.beta = "S2" /\ y.was_bob = z.was_bob /\ y.origin = z.origin /\ y.eph = None
    /\ y.cur = z.nxt /\ y.nxt = z.cur

Acknowledges(z, y, p, m) ==
    /\ m.type = "C2" /\ m.dst = p /\ z.beta = "S1" /\ m.kex = z.cur.kex
    /\ y.beta = "S2" /\ y.was_bob = z.was_bob /\ y.origin = z.origin /\ y.eph = z.eph
    /\ y.cur = z.cur /\ y.nxt = z.nxt

Proposes(z, y, F) ==
    /\ z.beta = "S2"
    /\ y.beta = "R1" /\ y.was_bob = z.was_bob /\ y.origin = z.origin /\ y.eph = F + 1
    /\ y.cur = z.cur /\ y.nxt.kex = z.nxt.kex

Answers(z, y, p, m, F) ==
    /\ m.type = "K1" /\ m.dst = p /\ m.kex = z.cur.kex /\ F + 1 \in Secrets
    /\ z.beta = "S2" \/ (z.beta = "R1" /\ z.was_bob)
    /\ y.beta = "R2" /\ y.was_bob = z.was_bob /\ y.origin = z.origin /\ y.eph = m.eph
    /\ y.cur = z.cur /\ y.nxt.kex = F + 1 /\ y.nxt.send = m.kid

Switches(z, y, p, m) ==
    /\ m.type = "K2" /\ m.dst = p /\ m.kex = z.cur.kex /\ z.beta = "R1" /\ z.eph = m.eph
    /\ y.beta = "S1" /\ y.was_bob = z.was_bob /\ y.origin = z.origin /\ y.eph = None
    /\ y.nxt = z.cur
    /\ y.cur = [recv |-> z.nxt.recv, send |-> m.kid, kex |-> m.newkex]

\* A session starts a handshake with a fresh ephemeral key: trans_to_a1 and the timeouts of A1, A3.
LEMMA Begin ==
    ASSUME NEW Z, NEW N, NEW B, NEW F, Typed(Z, N, B, F), AInv(Z, N, B, F),
           NEW p \in Peers, NEW s \in Slots, NEW Y, Shaped(Y), Differ(Z, Y, p, s),
           Begins(Y[p][s], F)
    PROVE  AInv(Y, N, B, F + 1)
<1> USE DEF Begins
<1> DEFINE y == Y[p][s]
<1>1. y.cur.kex = None /\ y.nxt.kex = None /\ Waits(y) /\ ~Pends(y) /\ \A k \in Secrets : ~Holds(y, k)
    BY FieldTypes DEF ShapeOf, Waits, Pends, Holds, NoKey, Secrets
<1> HIDE DEF y
<1>2. Roles(Y) /\ DrawnPackets(N, F + 1)
    <2>1. Roles(Y)
        BY DEF AInv, Roles, Differ
    <2>2. DrawnPackets(N, F + 1)
        BY PacketFields DEF AInv, DrawnPackets, Typed, Secrets
    <2>3. QED BY <2>1, <2>2
<1>3. DrawnSessions(Y, F + 1)
    BY <1>1, FieldTypes DEF AInv, DrawnSessions, DrawnBy, Differ, Typed, Secrets, y
<1>4. EphsUnique(Y)
    <2>1. ASSUME NEW q \in Peers, NEW t \in Slots, ~(q = p /\ t = s), Waits(Y[q][t])
          PROVE  Y[q][t].eph # F + 1
        BY <2>1, FieldTypes DEF AInv, DrawnSessions, DrawnBy, Differ, Typed, Secrets, Waits, ShapeOf
    <2>2. QED BY <2>1 DEF AInv, EphsUnique, Differ
<1>5. KeysUnique(Y)
    BY <1>1 DEF AInv, KeysUnique, Differ, y
<1>6. \A q \in Peers : \A e, k : Answered(Y, N, q, e, k) => Answered(Z, N, q, e, k)
    BY DEF Answered, Differ
<1>7. AnswersUnique(Y, N)
    BY <1>6 DEF AInv, AnswersUnique
<1>8. \A k \in Secrets : Untouched(Z, N, k) => Untouched(Y, N, k)
    BY <1>1 DEF Untouched, Differ, Secrets, y
<1>9. AnswersFresh(Y, N)
    BY <1>6, <1>8, AnsweredDrawn DEF AInv, AnswersFresh, Differ, Typed
<1>10. PendingUnused(Y, N)
    BY <1>1 DEF AInv, PendingUnused, Differ, y
<1>11. OffersCurrent(Y, N) /\ AnswersCurrent(Y, N)
    BY <1>1, PacketFields DEF AInv, OffersCurrent, AnswersCurrent, Differ, Typed, Secrets, y
<1>12. CacheUnused(Y, N, B)
    BY <1>1, RemoteFacts DEF AInv, CacheUnused, Differ, Typed, StateB2, Secrets, y
<1>13. EndsAgree(Y)
    BY EndsAgreeAt DEF AInv, Mates
<1>14. QED BY <1>2, <1>3, <1>4, <1>5, <1>7, <1>9, <1>10, <1>11, <1>12, <1>13 DEF AInv

\* A session in A1 takes the answer to its ephemeral key: received_x2_trans.
LEMMA Complete ==
    ASSUME NEW Z, NEW N, NEW B, NEW F, Typed(Z, N, B, F), AInv(Z, N, B, F),
           NEW p \in Peers, NEW s \in Slots, NEW Y, Shaped(Y), Differ(Z, Y, p, s),
           NEW m \in N, Completes(Z[p][s], Y[p][s], p, m)
    PROVE  /\ AInv(Y, N, B, F)
           /\ Untouched(Z, N, m.kex)
<1> USE DEF Completes
<1> DEFINE y == Y[p][s]
           k == m.kex
<1>1. k \in Secrets /\ k <= F /\ m.eph \in Secrets /\ k # None /\ m.dst = Remote(Remote(p))
    BY PacketFields, RemoteFacts DEF Typed, AInv, DrawnPackets, Secrets
<1>2. y.cur.kex = None /\ y.nxt.kex = k /\ ~Waits(y) /\ Pends(y) /\ \A j \in Secrets : Holds(y, j) => j = k
    BY FieldTypes, SMTT(30) DEF ShapeOf, Waits, Pends, Holds, NoKey, Secrets
<1>3. Answered(Z, N, Remote(p), m.eph, k)
    BY <1>1 DEF Answered
<1>4. Untouched(Z, N, k)
    BY <1>1, <1>3, RemoteFacts DEF AInv, AnswersFresh, Waits
<1> HIDE DEF y, k
<1>5. Roles(Y)
    BY <1>1, <1>2 DEF AInv, Roles, Differ, y, k
<1>6. DrawnSessions(Y, F)
    BY <1>1, <1>2 DEF AInv, DrawnSessions, DrawnBy, Differ, y, k
<1>7. EphsUnique(Y)
    BY <1>2 DEF AInv, EphsUnique, Differ, y
<1>8. \A t \in Slots : t # s => ~Holds(Z[p][t], k) /\ Z[p][t].origin # k
    <2> SUFFICES ASSUME NEW t \in Slots, t # s, Holds(Z[p][t], k)
                 PROVE  FALSE
        BY <1>4 DEF Untouched
    <2>1. Answered(Z, N, p, Z[p][t].eph, k) /\ Z[p][t].eph \in Secrets
        <3>1. Z[p][t].beta = "R2" /\ Z[p][t].cur.kex # k
            BY <1>4 DEF Untouched
        <3>2. Answered(Z, N, p, Z[p][t].eph, k)
            BY <3>1 DEF Answered, Holds
        <3>3. ShapeOf(Z[p][t]) /\ Z[p][t].eph \in Secrets \cup {None}
            BY FieldTypes DEF Typed
        <3>. QED BY <3>1, <3>2, <3>3 DEF ShapeOf
    <2>2. QED BY <2>1, <1>1, <1>3, RemoteFacts DEF AInv, AnswersUnique
<1>9. KeysUnique(Y)
    BY <1>1, <1>2, <1>8 DEF AInv, KeysUnique, Differ, y, k
<1>10. \A q \in Peers : \A e, j : Answered(Y, N, q, e, j) => Answered(Z, N, q, e, j)
    BY DEF Answered, Differ
<1>11. AnswersUnique(Y, N)
    BY <1>10 DEF AInv, AnswersUnique
<1>12. \A j \in Secrets : j # k /\ Untouched(Z, N, j) => Untouched(Y, N, j)
    BY <1>2 DEF Untouched, Differ, y, k
<1>13. AnswersFresh(Y, N)
    <2> SUFFICES ASSUME NEW q \in Peers, NEW r \in Peers, NEW t \in Slots, NEW j \in Secrets,
                        Waits(Y[r][t]), Answered(Y, N, q, Y[r][t].eph, j)
                 PROVE  Untouched(Y, N, j)
        BY DEF AnswersFresh
    <2>1. Y[r][t] = Z[r][t] /\ ~(r = p /\ t = s)
        BY <1>2 DEF Differ, y
    <2>2. Answered(Z, N, q, Z[r][t].eph, j) /\ Untouched(Z, N, j)
        BY <1>10, <2>1 DEF AInv, AnswersFresh
    <2>3. j # k
        <3>1. SUFFICES ASSUME j = k PROVE FALSE
            OBVIOUS
        <3>2. Z[r][t].eph \in Secrets
            BY <2>1, FieldTypes DEF Typed, Waits, ShapeOf
        <3>3. Z[r][t].eph = m.eph
            BY <1>1, <1>3, <2>2, <3>1, <3>2, RemoteFacts DEF AInv, AnswersUnique
        <3>4. QED BY <2>1, <3>3 DEF AInv, EphsUnique, Waits
    <2>4. QED BY <1>12, <2>2, <2>3
<1>14. PendingUnused(Y, N)
    BY <1>2, <1>4 DEF AInv, PendingUnused, Untouched, Differ, y
<1>15. OffersCurrent(Y, N) /\ AnswersCurrent(Y, N)
    BY <1>2, PacketFields DEF AInv, OffersCurrent, AnswersCurrent, Differ, Typed, Secrets, y
<1>16. CacheUnused(Y, N, B)
    <2> SUFFICES ASSUME NEW q \in Peers, NEW b \in B[q]
                 PROVE  /\ q = p => y.origin # b.kex /\ ~Holds(y, b.kex)
                        /\ q # p => (y.origin = b.kex \/ Holds(y, b.kex) => y.nxt = KeyOfB2(b))
        BY RemoteFacts DEF AInv, CacheUnused, Differ, y
    <2>1. b \in StateB2 /\ b.kex \in Secrets
        BY DEF Typed, StateB2
    <2>2. y.origin = b.kex \/ Holds(y, b.kex) => b.kex = k
        BY <1>2, <2>1 DEF y, k
    <2>3. b.kex = k => m = X2(q, b)
        BY DEF AInv, CacheUnused, k
    <2>4. b.kex = k => q # p /\ y.nxt = KeyOfB2(b)
        BY <2>3, RemoteFacts DEF X2, KeyOfB2, y, k
    <2>5. QED BY <2>2, <2>4
<1>17. EndsAgree(Y)
    <2>1. \A t \in Slots : ~Mates(Y[p][s], Z[Remote(p)][t])
        BY <1>4, RemoteFacts DEF Untouched, Mates, k
    <2>2. QED BY <2>1, EndsAgreeAt DEF AInv
<1>18. QED BY <1>4, <1>5, <1>6, <1>7, <1>9, <1>11, <1>13, <1>14, <1>15, <1>16, <1>17 DEF AInv, k

\* A key in a packet sent under it has been taken by the session that waited for it.
LEMMA Taken ==
    ASSUME NEW Z, NEW N, NEW B, NEW F, Typed(Z, N, B, F), AInv(Z, N, B, F),
           NEW m \in N, m.type \in {"X3", "C1", "C2", "K1", "K2"},
           NEW p \in Peers, NEW q \in Peers, NEW s \in Slots, Waits(Z[p][s])
    PROVE  ~Answered(Z, N, q, Z[p][s].eph, m.kex)
<1>1. m.kex \in Secrets
    BY PacketFields DEF Typed
<1>2. QED BY <1>1 DEF AInv, AnswersFresh, Untouched

\* The pending key is confirmed: received_c1_trans.
LEMMA Confirm ==
    ASSUME NEW Z, NEW N, NEW B, NEW F, Typed(Z, N, B, F), AInv(Z, N, B, F),
           NEW p \in Peers, NEW s \in Slots, NEW Y, Shaped(Y), Differ(Z, Y, p, s),
           NEW m \in N, Confirms(Z[p][s], Y[p][s], p, m)
    PROVE  /\ AInv(Y, N, B, F)
           /\ \A t \in Slots : Mates(Z[p][s], Z[Remote(p)][t]) =>
                Z[Remote(p)][t].beta = "S1" /\ Z[Remote(p)][t].cur.kex = m.kex
<1> USE DEF Confirms
<1> DEFINE z == Z[p][s]
           y == Y[p][s]
           k == m.kex
<1>1. k \in Secrets /\ k # None
    BY PacketFields DEF Typed, Secrets
<1>2. ~Waits(y) /\ ~Pends(y) /\ \A j : Holds(y, j) => j = k
    BY DEF Waits, Pends, Holds
<1>3. z.origin # None
    BY DEF AInv, Roles, Pends
<1>4. \A j : Holds(y, j) => Holds(z, j)
    BY DEF Holds, Pends
<1> HIDE DEF y, z, k
<1>5. Roles(Y) /\ DrawnSessions(Y, F) /\ EphsUnique(Y)
    BY <1>2, <1>3 DEF AInv, Roles, DrawnSessions, DrawnBy, EphsUnique, Differ, y, z
<1>6. KeysUnique(Y)
    BY <1>4 DEF AInv, KeysUnique, Differ, y, z
<1>7. \A q \in Peers : \A e, j : Answered(Y, N, q, e, j) => Answered(Z, N, q, e, j)
    BY DEF Answered, Differ
<1>8. AnswersUnique(Y, N)
    BY <1>7 DEF AInv, AnswersUnique
<1>9. \A j \in Secrets : j # k /\ Untouched(Z, N, j) => Untouched(Y, N, j)
    BY <1>2 DEF Untouched, Differ, y, z
<1>10. AnswersFresh(Y, N)
    <2> SUFFICES ASSUME NEW q \in Peers, NEW r \in Peers, NEW t \in Slots, NEW j \in Secrets,
                        Waits(Y[r][t]), Answered(Y, N, q, Y[r][t].eph, j)
                 PROVE  Untouched(Y, N, j)
        BY DEF AnswersFresh
    <2>1. Y[r][t] = Z[r][t]
        BY <1>2 DEF Differ, y
    <2>2. Answered(Z, N, q, Z[r][t].eph, j) /\ Untouched(Z, N, j)
        BY <1>7, <2>1 DEF AInv, AnswersFresh
    <2>3. j # k
        BY <2>2 DEF Untouched, k
    <2>4. QED BY <1>9, <2>2, <2>3
<1>11. PendingUnused(Y, N)
    BY <1>2 DEF AInv, PendingUnused, Differ, y
<1>12. OffersCurrent(Y, N) /\ AnswersCurrent(Y, N)
    BY DEF AInv, OffersCurrent, AnswersCurrent, PendingUnused, Differ
<1>13. CacheUnused(Y, N, B)
    <2>1. \A q \in Peers : \A b \in B[q] : b.kex # k
        BY DEF AInv, CacheUnused, k
    <2>2. \A q \in Peers : \A b \in B[q] : y.origin # b.kex /\ ~Holds(y, b.kex)
        <3> SUFFICES ASSUME NEW q \in Peers, NEW b \in B[q], y.origin = b.kex
                     PROVE  FALSE
            BY <1>2, <2>1
        <3>1. Z[p][s].origin = b.kex
            BY DEF y
        <3>2. p = Remote(q)
            BY <3>1, RemoteFacts DEF AInv, CacheUnused
        <3>3. Z[p][s].beta = "A3"
            BY <3>1, <3>2 DEF AInv, CacheUnused
        <3>4. Z[p][s].nxt.kex = Z[p][s].origin
            BY <3>3 DEF AInv, Roles
        <3>5. QED BY <3>1, <3>4, <2>1 DEF k
    <2>3. QED BY <2>2, RemoteFacts DEF AInv, CacheUnused, Differ, y
<1>14. ASSUME NEW t \in Slots, Mates(z, Z[Remote(p)][t])
       PROVE  Z[Remote(p)][t].beta = "S1" /\ Match(z.nxt, Z[Remote(p)][t].cur)
              /\ z.was_bob # Z[Remote(p)][t].was_bob
    <2> DEFINE x == Z[Remote(p)][t]
    <2>1. z.was_bob # x.was_bob /\ (Agree(z, x) \/ Agree(x, z))
        BY <1>14 DEF AInv, EndsAgree, z
    <2>2. ~(z.beta = "R2" /\ x.beta = "R1" /\ z.eph = x.eph)
        <3>1. SUFFICES ASSUME z.beta = "R2", x.beta = "R1", z.eph = x.eph PROVE FALSE
            OBVIOUS
        <3>2. Answered(Z, N, p, x.eph, k)
            BY <3>1 DEF Answered, z, k
        <3>3. QED BY <3>1, <3>2, Taken, RemoteFacts DEF Waits, k
    <2>3. QED BY <2>1, <2>2 DEF Agree, Pends, z
<1>15. EndsAgree(Y)
    <2>1. ASSUME NEW t \in Slots, Mates(y, Z[Remote(p)][t])
          PROVE  y.was_bob # Z[Remote(p)][t].was_bob /\ Agree(y, Z[Remote(p)][t])
        BY <2>1, <1>14 DEF Mates, Agree, y, z
    <2>2. QED BY <2>1, EndsAgreeAt DEF AInv, y
<1>16. QED BY <1>5, <1>6, <1>8, <1>10, <1>11, <1>12, <1>13, <1>14, <1>15 DEF AInv, Match, z, k

\* The confirmation is acknowledged: received_c2_trans.
LEMMA Acknowledge ==
    ASSUME NEW Z, NEW N, NEW B, NEW F, Typed(Z, N, B, F), AInv(Z, N, B, F),
           NEW p \in Peers, NEW s \in Slots, NEW Y, Shaped(Y), Differ(Z, Y, p, s),
           NEW m \in N, Acknowledges(Z[p][s], Y[p][s], p, m)
    PROVE  AInv(Y, N, B, F)
<1> USE DEF Acknowledges
<1> DEFINE z == Z[p][s]
           y == Y[p][s]
<1>1. /\ y.beta = "S2" /\ z.beta = "S1" /\ y.cur = z.cur /\ y.nxt = z.nxt /\ y.eph = z.eph
      /\ y.was_bob = z.was_bob /\ y.origin = z.origin
    OBVIOUS
<1>2. ~Waits(y) /\ ~Pends(y) /\ \A j : Holds(y, j) <=> Holds(z, j)
    BY <1>1 DEF Waits, Pends, Holds
<1>3. m.dst = Remote(Remote(p))
    BY RemoteFacts
<1> HIDE DEF y, z
<1>4. Roles(Y) /\ DrawnSessions(Y, F) /\ EphsUnique(Y)
    <2>1. Roles(Y)
        BY <1>1 DEF AInv, Roles, Differ, y, z
    <2>2. DrawnSessions(Y, F)
        BY <1>1 DEF AInv, DrawnSessions, Differ, y, z
    <2>3. EphsUnique(Y)
        BY <1>2 DEF AInv, EphsUnique, Differ, y
    <2>4. QED BY <2>1, <2>2, <2>3
<1>5. KeysUnique(Y)
    BY <1>1, <1>2 DEF AInv, KeysUnique, Differ, y, z
<1>6. \A q \in Peers : \A e, j : Answered(Y, N, q, e, j) => Answered(Z, N, q, e, j)
    BY <1>1 DEF Answered, Differ, y
<1>7. AnswersUnique(Y, N)
    BY <1>6 DEF AInv, AnswersUnique
<1>8. \A j \in Secrets : Untouched(Z, N, j) => Untouched(Y, N, j)
    BY <1>1, <1>2 DEF Untouched, Differ, y, z
<1>9. AnswersFresh(Y, N)
    BY <1>2, <1>6, <1>8 DEF AInv, AnswersFresh, Differ, y
<1>10. PendingUnused(Y, N)
    BY <1>2 DEF AInv, PendingUnused, Differ, y
<1>11. OffersCurrent(Y, N) /\ AnswersCurrent(Y, N)
    BY <1>1 DEF AInv, OffersCurrent, AnswersCurrent, Differ, y, z
<1>12. CacheUnused(Y, N, B)
    <2>1. \A q \in Peers : \A b \in B[q] : z.origin # b.kex /\ ~Holds(z, b.kex)
        BY <1>1, RemoteFacts DEF AInv, CacheUnused, z
    <2>2. QED BY <1>1, <1>2, <2>1, RemoteFacts DEF AInv, CacheUnused, Differ, y
<1>13. EndsAgree(Y)
    <2>1. ASSUME NEW t \in Slots, Mates(y, Z[Remote(p)][t])
          PROVE  y.was_bob # Z[Remote(p)][t].was_bob /\ Agree(Z[Remote(p)][t], y)
        <3> DEFINE x == Z[Remote(p)][t]
        <3>1. z.was_bob # x.was_bob /\ (Agree(z, x) \/ Agree(x, z))
            BY <1>1, <2>1, ZenonT(30) DEF AInv, EndsAgree, Mates, z
        <3>2. ~(Pends(x) /\ m.kex = x.nxt.kex)
            BY <1>3, RemoteFacts DEF AInv, PendingUnused
        <3>3. QED BY <1>1, <3>1, <3>2 DEF Agree, Match, Pends, z
    <2>2. QED BY <2>1, EndsAgreeAt DEF AInv, y
<1>14. QED BY <1>4, <1>5, <1>7, <1>9, <1>10, <1>11, <1>12, <1>13 DEF AInv

\* A session offers a new key: the rekey timer of S2.
LEMMA Propose ==
    ASSUME NEW Z, NEW N, NEW B, NEW F, Typed(Z, N, B, F), AInv(Z, N, B, F),
           NEW p \in Peers, NEW s \in Slots, NEW Y, Shaped(Y), Differ(Z, Y, p, s),
           Proposes(Z[p][s], Y[p][s], F)
    PROVE  AInv(Y, N, B, F + 1)
<1> USE DEF Proposes
<1> DEFINE z == Z[p][s]
           y == Y[p][s]
<1>1. ~Pends(y) /\ \A j : Holds(y, j) <=> Holds(z, j)
    BY DEF Pends, Holds
<1> HIDE DEF y, z
<1>2. Roles(Y)
    BY DEF AInv, Roles, Differ
<1>3. DrawnPackets(N, F + 1)
    BY PacketFields DEF AInv, DrawnPackets, Typed, Secrets
<1>4. DrawnSessions(Y, F + 1)
    BY FieldTypes DEF AInv, DrawnSessions, DrawnBy, Differ, Typed, Secrets
<1>5. EphsUnique(Y)
    <2>1. ASSUME NEW q \in Peers, NEW t \in Slots, ~(q = p /\ t = s), Waits(Y[q][t])
          PROVE  Y[q][t].eph # F + 1
        <3>1. Y[q][t] = Z[q][t]
            BY <2>1 DEF Differ
        <3>2. Y[q][t].eph \in Secrets
            BY <2>1, FieldTypes DEF ShapeOf, Waits
        <3>3. Z[q][t].eph # None => Z[q][t].eph <= F
            BY DEF AInv, DrawnSessions, DrawnBy
        <3>4. QED BY <3>1, <3>2, <3>3 DEF Typed, Secrets
    <2>2. QED BY <2>1 DEF AInv, EphsUnique, Differ
<1>6. KeysUnique(Y)
    BY <1>1 DEF AInv, KeysUnique, Differ, y, z
<1>7. \A q \in Peers : \A e, k : Answered(Y, N, q, e, k) => Answered(Z, N, q, e, k)
    BY DEF Answered, Differ
<1>8. AnswersUnique(Y, N)
    BY <1>7 DEF AInv, AnswersUnique
<1>9. \A j \in Secrets : Untouched(Z, N, j) => Untouched(Y, N, j)
    BY <1>1 DEF Untouched, Differ, y, z
<1>10. AnswersFresh(Y, N)
    BY <1>7, <1>9, AnsweredDrawn DEF AInv, AnswersFresh, Differ, Typed
<1>11. PendingUnused(Y, N)
    BY <1>1 DEF AInv, PendingUnused, Differ, y
<1>12. OffersCurrent(Y, N) /\ AnswersCurrent(Y, N)
    BY DEF AInv, OffersCurrent, AnswersCurrent, Differ
<1>13. CacheUnused(Y, N, B)
    <2>1. \A q \in Peers : \A b \in B[q] : z.origin # b.kex /\ ~Holds(z, b.kex)
        BY RemoteFacts DEF AInv, CacheUnused, z
    <2>2. QED BY <1>1, <2>1, RemoteFacts DEF AInv, CacheUnused, Differ, y, z
<1>14. EndsAgree(Y)
    <2>1. ASSUME NEW t \in Slots, Mates(y, Z[Remote(p)][t])
          PROVE  /\ y.was_bob # Z[Remote(p)][t].was_bob
                 /\ Agree(y, Z[Remote(p)][t]) \/ Agree(Z[Remote(p)][t], y)
        <3> DEFINE x == Z[Remote(p)][t]
        <3>1. z.was_bob # x.was_bob /\ (Agree(z, x) \/ Agree(x, z))
            BY <2>1 DEF AInv, EndsAgree, Mates, y, z
        <3>2. QED BY <3>1 DEF Agree, y, z
    <2>2. QED BY <2>1, EndsAgreeAt DEF AInv, y
<1>15. QED BY <1>2, <1>3, <1>4, <1>5, <1>6, <1>8, <1>10, <1>11, <1>12, <1>13, <1>14 DEF AInv

\* A session answers an offer with a fresh key: received_k1_trans.
LEMMA Answer ==
    ASSUME NEW Z, NEW N, NEW B, NEW F, Typed(Z, N, B, F), AInv(Z, N, B, F),
           NEW p \in Peers, NEW s \in Slots, NEW Y, Shaped(Y), Differ(Z, Y, p, s),
           NEW m \in N, Answers(Z[p][s], Y[p][s], p, m, F)
    PROVE  /\ AInv(Y, N, B, F + 1)
           /\ \A t \in Slots : Mates(Z[p][s], Z[Remote(p)][t]) =>
                Z[Remote(p)][t].beta = "R1" /\ Z[Remote(p)][t].cur.kex = m.kex
<1> USE DEF Answers
<1> DEFINE z == Z[p][s]
           y == Y[p][s]
           k == F + 1
<1>1. /\ m.kex \in Secrets /\ m.kex <= F /\ m.eph \in Secrets /\ m.eph <= F
      /\ m.dst = Remote(Remote(p)) /\ k > F /\ k \in Nat /\ F \in Nat
    BY PacketFields, RemoteFacts DEF Typed, AInv, DrawnPackets
<1>2. ~Waits(y) /\ Pends(y) /\ \A j : Holds(y, j) => Holds(z, j) \/ j = k
    BY DEF Waits, Pends, Holds
<1>3. ASSUME NEW q \in Peers, NEW t \in Slots
      PROVE  ~Holds(Z[q][t], k) /\ Z[q][t].origin # k
    BY <1>1, FieldTypes DEF Typed, AInv, DrawnSessions, DrawnBy, Holds, Secrets
<1>4. \A n \in N : n.type \in {"X2", "X3", "C1", "C2", "K1", "K2"} => n.kex # k
    BY <1>1, PacketFields DEF Typed, AInv, DrawnPackets, Secrets
<1> HIDE DEF y, z, k
<1>5. Roles(Y)
    BY <1>1 DEF AInv, Roles, Differ, y, z, k, Secrets
<1>6. DrawnPackets(N, k)
    BY PacketFields DEF AInv, DrawnPackets, Typed, Secrets, k
<1>7. DrawnSessions(Y, k)
    BY <1>1, FieldTypes DEF AInv, DrawnSessions, DrawnBy, Differ, Typed, Secrets, k
<1>8. EphsUnique(Y)
    BY <1>2 DEF AInv, EphsUnique, Differ, y
<1>9. KeysUnique(Y)
    BY <1>2, <1>3 DEF AInv, KeysUnique, Differ, y, z, k
<1>10. \A q \in Peers : \A e, j : Answered(Y, N, q, e, j) =>
            Answered(Z, N, q, e, j) \/ (q = p /\ e = m.eph /\ j = k)
    BY DEF Answered, Differ, k
<1>11. \A q \in Peers : \A e : ~Answered(Z, N, q, e, k)
    BY <1>1, AnsweredDrawn
<1>12. AnswersUnique(Y, N)
    BY <1>10, <1>11 DEF AInv, AnswersUnique
<1>13. \A j \in Secrets : j # k /\ Untouched(Z, N, j) => Untouched(Y, N, j)
    <2> SUFFICES ASSUME NEW j \in Secrets, j # k, Untouched(Z, N, j)
                 PROVE  y.origin # j /\ ~Holds(y, j)
        BY DEF Untouched, Differ, y
    <2>1. ~Holds(z, j)
        BY DEF Untouched, z
    <2>2. QED BY <1>2, <2>1 DEF Untouched, y, z
<1>14. Untouched(Y, N, k)
    <2>1. y.origin # k /\ y.beta = "R2" /\ y.cur.kex # k
        BY <1>3, <1>4 DEF y, z
    <2>2. QED BY <2>1, <1>3, <1>4 DEF Untouched, Differ, y
<1>15. AnswersFresh(Y, N)
    BY <1>2, <1>10, <1>13, <1>14 DEF AInv, AnswersFresh, Differ, y
<1>16. PendingUnused(Y, N)
    BY <1>4, <1>2 DEF AInv, PendingUnused, Differ, y, k
<1>17. OffersCurrent(Y, N)
    BY DEF AInv, OffersCurrent, Differ, y, z
<1>18. AnswersCurrent(Y, N)
    BY DEF AInv, AnswersCurrent, Differ
<1>19. CacheUnused(Y, N, B)
    <2>1. \A q \in Peers : \A b \in B[q] : z.origin # b.kex /\ ~Holds(z, b.kex)
        BY RemoteFacts DEF AInv, CacheUnused, z
    <2>2. \A q \in Peers : \A b \in B[q] : b.kex # k
        <3> SUFFICES ASSUME NEW q \in Peers, NEW b \in B[q], b.kex = k PROVE FALSE
            OBVIOUS
        <3>1. X2(q, b) \in N /\ X2(q, b).type = "X2" /\ X2(q, b).kex = k
            BY DEF AInv, CacheUnused, X2
        <3>2. QED BY <1>4, <3>1
    <2>3. QED BY <1>2, <2>1, <2>2, RemoteFacts DEF AInv, CacheUnused, Differ, y, z
<1>20. ASSUME NEW t \in Slots, Mates(z, Z[Remote(p)][t])
       PROVE  /\ z.was_bob # Z[Remote(p)][t].was_bob
              /\ Z[Remote(p)][t].beta = "R1" /\ Z[Remote(p)][t].eph = m.eph
              /\ Match(z.cur, Z[Remote(p)][t].cur) /\ Z[Remote(p)][t].nxt.recv = m.kid
    <2> DEFINE x == Z[Remote(p)][t]
    <2>1. z.was_bob # x.was_bob /\ (Agree(z, x) \/ Agree(x, z))
        BY <1>20 DEF AInv, EndsAgree, z
    <2>2. Match(z.cur, x.cur) /\ m.kex = x.cur.kex /\ (x.beta = "R2" => z.was_bob)
        BY <2>1 DEF Agree, Match, z
    <2>3. \/ x.beta = "R1" /\ x.eph = m.eph /\ x.nxt.recv = m.kid
          \/ x.beta = "R2" /\ x.was_bob
        BY <1>1, <2>2, RemoteFacts DEF AInv, OffersCurrent
    <2>4. z.was_bob \in BOOLEAN /\ x.was_bob \in BOOLEAN
        BY FieldTypes, RemoteFacts DEF Typed, Session, z
    <2>5. QED BY <2>1, <2>2, <2>3, <2>4
<1>21. EndsAgree(Y)
    <2>1. ASSUME NEW t \in Slots, Mates(y, Z[Remote(p)][t])
          PROVE  y.was_bob # Z[Remote(p)][t].was_bob /\ Agree(y, Z[Remote(p)][t])
        BY <2>1, <1>20 DEF Mates, Agree, y, z
    <2>2. QED BY <2>1, EndsAgreeAt DEF AInv, y
<1>22. QED BY <1>5, <1>6, <1>7, <1>8, <1>9, <1>12, <1>15, <1>16, <1>17, <1>18, <1>19, <1>20, <1>21
           DEF AInv, Match, z, k

\* A session takes the answer to its offer and switches to the new key: received_k2_trans.
LEMMA Switch ==
    ASSUME NEW Z, NEW N, NEW B, NEW F, Typed(Z, N, B, F), AInv(Z, N, B, F),
           NEW p \in Peers, NEW s \in Slots, NEW Y, Shaped(Y), Differ(Z, Y, p, s),
           NEW m \in N, Switches(Z[p][s], Y[p][s], p, m)
    PROVE  /\ AInv(Y, N, B, F)
           /\ m.newkex > m.kex
           /\ \A t \in Slots : Mates(Z[p][s], Z[Remote(p)][t]) =>
                Z[Remote(p)][t].beta = "R2" /\ Z[Remote(p)][t].nxt.kex = m.newkex
<1> USE DEF Switches
<1> DEFINE z == Z[p][s]
           y == Y[p][s]
           k == m.newkex
<1>1. /\ k \in Secrets /\ k <= F /\ k # None /\ m.eph \in Secrets /\ m.kex \in Secrets
      /\ m.dst = Remote(Remote(p)) /\ k > m.kex
    BY PacketFields, RemoteFacts DEF Typed, AInv, DrawnPackets, AnswersCurrent, Secrets
<1>2. /\ y.cur.recv = z.nxt.recv /\ y.cur.send = m.kid /\ y.cur.kex = k
      /\ ~Waits(y) /\ ~Pends(y) /\ \A j : Holds(y, j) => j = k
    BY DEF Waits, Pends, Holds
<1>3. Answered(Z, N, Remote(p), m.eph, k)
    BY <1>1 DEF Answered
<1>4. Untouched(Z, N, k)
    BY <1>1, <1>3, RemoteFacts DEF AInv, AnswersFresh, Waits
<1> HIDE DEF y, z, k
<1>5. Roles(Y)
    BY DEF AInv, Roles, Differ
<1>6. DrawnSessions(Y, F)
    BY <1>1, <1>2 DEF AInv, DrawnSessions, DrawnBy, Differ, y, z
<1>7. EphsUnique(Y)
    BY <1>2 DEF AInv, EphsUnique, Differ, y
<1>8. \A t \in Slots : t # s => ~Holds(Z[p][t], k)
    <2> SUFFICES ASSUME NEW t \in Slots, t # s, Holds(Z[p][t], k)
                 PROVE  FALSE
        OBVIOUS
    <2>1. Answered(Z, N, p, Z[p][t].eph, k) /\ Z[p][t].eph \in Secrets
        <3>1. Z[p][t].beta = "R2" /\ Z[p][t].cur.kex # k
            BY <1>4 DEF Untouched
        <3>2. Answered(Z, N, p, Z[p][t].eph, k)
            BY <3>1 DEF Answered, Holds
        <3>3. ShapeOf(Z[p][t]) /\ Z[p][t].eph \in Secrets \cup {None}
            BY FieldTypes DEF Typed
        <3>. QED BY <3>1, <3>2, <3>3 DEF ShapeOf
    <2>2. QED BY <2>1, <1>1, <1>3, RemoteFacts DEF AInv, AnswersUnique
<1>9. KeysUnique(Y)
    BY <1>2, <1>8 DEF AInv, KeysUnique, Differ, y
<1>10. \A q \in Peers : \A e, j : Answered(Y, N, q, e, j) => Answered(Z, N, q, e, j)
    BY DEF Answered, Differ
<1>11. AnswersUnique(Y, N)
    BY <1>10 DEF AInv, AnswersUnique
<1>12. \A j \in Secrets : j # k /\ Untouched(Z, N, j) => Untouched(Y, N, j)
    BY <1>2 DEF Untouched, Differ, y
<1>13. AnswersFresh(Y, N)
    <2> SUFFICES ASSUME NEW q \in Peers, NEW r \in Peers, NEW t \in Slots, NEW j \in Secrets,
                        Waits(Y[r][t]), Answered(Y, N, q, Y[r][t].eph, j)
                 PROVE  Untouched(Y, N, j)
        BY DEF AnswersFresh
    <2>1. Y[r][t] = Z[r][t] /\ ~(r = p /\ t = s)
        BY <1>2 DEF Differ, y
    <2>2. Answered(Z, N, q, Z[r][t].eph, j) /\ Untouched(Z, N, j)
        BY <1>10, <2>1 DEF AInv, AnswersFresh
    <2>3. j # k
        <3>1. SUFFICES ASSUME j = k PROVE FALSE
            OBVIOUS
        <3>2. Z[r][t].eph \in Secrets
            BY <2>1, FieldTypes, SMTT(30) DEF Typed, Waits, ShapeOf
        <3>3. Z[r][t].eph = m.eph
            BY <1>1, <1>3, <2>2, <3>1, <3>2, RemoteFacts DEF AInv, AnswersUnique
        <3>4. QED BY <2>1, <3>3 DEF AInv, EphsUnique, Waits
    <2>4. QED BY <1>12, <2>2, <2>3
<1>14. PendingUnused(Y, N)
    BY <1>2 DEF AInv, PendingUnused, Differ, y
<1>15. OffersCurrent(Y, N)
    BY <1>2, <1>4 DEF AInv, OffersCurrent, Untouched, Differ, y
<1>16. AnswersCurrent(Y, N)
    BY <1>2, <1>4 DEF AInv, AnswersCurrent, Untouched, Differ, y
<1>17. CacheUnused(Y, N, B)
    <2>1. \A q \in Peers : \A b \in B[q] : z.origin # b.kex /\ k # b.kex
        BY RemoteFacts DEF AInv, CacheUnused, z, k
    <2>2. QED BY <1>2, <2>1, RemoteFacts DEF AInv, CacheUnused, Differ, y, z
<1>18. ASSUME NEW t \in Slots, Mates(z, Z[Remote(p)][t])
       PROVE  /\ z.was_bob # Z[Remote(p)][t].was_bob
              /\ Z[Remote(p)][t].beta = "R2" /\ Match(Z[Remote(p)][t].cur, z.cur)
              /\ Z[Remote(p)][t].nxt.kex = k /\ Z[Remote(p)][t].nxt.recv = m.kid
              /\ Z[Remote(p)][t].nxt.send = z.nxt.recv
    <2> DEFINE x == Z[Remote(p)][t]
    <2>1. z.was_bob # x.was_bob /\ (Agree(z, x) \/ Agree(x, z))
        BY <1>18 DEF AInv, EndsAgree, z
    <2>2. m.kex = x.cur.kex
        BY <2>1 DEF Agree, Match, z
    <2>3. x.beta = "R2" /\ x.nxt.kex = k /\ x.nxt.recv = m.kid
        BY <1>1, <2>2, RemoteFacts DEF AInv, AnswersCurrent, k
    <2>4. QED BY <2>1, <2>3 DEF Agree, z
<1>19. EndsAgree(Y)
    <2>1. ASSUME NEW t \in Slots, Mates(y, Z[Remote(p)][t])
          PROVE  y.was_bob # Z[Remote(p)][t].was_bob /\ Agree(Z[Remote(p)][t], y)
        <3>1. Mates(z, Z[Remote(p)][t]) /\ y.nxt = z.cur /\ y.was_bob = z.was_bob /\ y.beta = "S1"
            BY <2>1 DEF Mates, y, z
        <3>2. QED BY <3>1, <1>2, <1>18 DEF Agree, Match
    <2>2. QED BY <2>1, EndsAgreeAt DEF AInv, y
<1>20. QED BY <1>1, <1>5, <1>6, <1>7, <1>9, <1>11, <1>13, <1>14, <1>15, <1>16, <1>17, <1>18, <1>19
           DEF AInv, z, k

\* Bob accepts a session whose handshake was in the cache: received_x3_trans.
LEMMA Accept ==
    ASSUME NEW Z, NEW N, NEW B, NEW F, Typed(Z, N, B, F), AInv(Z, N, B, F),
           NEW p \in Peers, NEW s \in Slots, NEW Y, Shaped(Y), Differ(Z, Y, p, s),
           \A t \in Slots : Z[p][t] = NullSession,
           NEW m \in N, NEW b \in B[p], Accepts(Y[p][s], m, b),
           NEW C, C = [B EXCEPT ![p] = @ \ {b}]
    PROVE  AInv(Y, N, C, F)
<1> USE DEF Accepts
<1> DEFINE y == Y[p][s]
           k == b.kex
<1>1. b \in StateB2 /\ k \in Secrets /\ k # None /\ k <= F
    BY DEF Typed, StateB2, AInv, DrawnPackets, Secrets
<1>2. /\ y.cur.recv = b.kid_recv /\ y.cur.send = b.kid_send /\ y.cur.kex = k /\ y.nxt.kex = None
      /\ ~Waits(y) /\ ~Pends(y) /\ \A j : Holds(y, j) => j = k
    BY NullFacts DEF Waits, Pends, Holds
<1>3. \A q \in Peers : \A c \in C[q] : c \in B[q] /\ c.kex # k
    <2> SUFFICES ASSUME NEW q \in Peers, NEW c \in B[q], c.kex = k, q = p => c # b
                 PROVE  FALSE
        BY DEF Typed
    <2>1. X2(q, c) = X2(p, b)
        <3>1. X2(p, b) \in N /\ X2(p, b).type = "X2" /\ X2(p, b).kex = c.kex
            BY DEF AInv, CacheUnused, X2
        <3>2. QED BY <3>1 DEF AInv, CacheUnused
    <2>2. /\ X2(q, c).dst = Remote(q) /\ X2(p, b).dst = Remote(p)
          /\ X2(q, c).to = c.kid_send /\ X2(p, b).to = b.kid_send
          /\ X2(q, c).eph = c.eph /\ X2(p, b).eph = b.eph
          /\ X2(q, c).psk = c.ratchet_state /\ X2(p, b).psk = b.ratchet_state
          /\ X2(q, c).kid = c.kid_recv /\ X2(p, b).kid = b.kid_recv
        BY DEF X2
    <2>3. q = p
        BY <2>1, <2>2, RemoteFacts
    <2>4. b \in StateB2 /\ c \in StateB2
        BY DEF Typed
    <2>5. c = b
        BY <2>1, <2>2, <2>4 DEF StateB2
    <2>6. QED BY <2>3, <2>5
<1> HIDE DEF y, k
<1>4. Roles(Y)
    BY <1>1 DEF AInv, Roles, Differ, k
<1>5. DrawnSessions(Y, F)
    BY <1>1, <1>2 DEF AInv, DrawnSessions, DrawnBy, Differ, y, k
<1>6. EphsUnique(Y)
    BY <1>2 DEF AInv, EphsUnique, Differ, y
<1>7. KeysUnique(Y)
    <2>1. \A t \in Slots : t # s => Y[p][t] = NullSession
        BY DEF Differ
    <2>2. \A q \in Peers, t \in Slots : q # p => Y[q][t] = Z[q][t]
        BY DEF Differ
    <2>3. QED BY <2>1, <2>2, NullFacts DEF AInv, KeysUnique
<1>8. \A q \in Peers : \A e, j : Answered(Y, N, q, e, j) => Answered(Z, N, q, e, j)
    BY DEF Answered, Differ
<1>9. AnswersUnique(Y, N)
    BY <1>8 DEF AInv, AnswersUnique
<1>10. \A j \in Secrets : j # k /\ Untouched(Z, N, j) => Untouched(Y, N, j)
    BY <1>2 DEF Untouched, Differ, y, k
<1>11. AnswersFresh(Y, N)
    <2> SUFFICES ASSUME NEW q \in Peers, NEW r \in Peers, NEW t \in Slots, NEW j \in Secrets,
                        Waits(Y[r][t]), Answered(Y, N, q, Y[r][t].eph, j)
                 PROVE  Untouched(Y, N, j)
        BY DEF AnswersFresh
    <2>1. Y[r][t] = Z[r][t]
        BY <1>2 DEF Differ, y
    <2>2. Answered(Z, N, q, Z[r][t].eph, j) /\ Untouched(Z, N, j)
        BY <1>8, <2>1 DEF AInv, AnswersFresh
    <2>3. j # k
        BY <2>2 DEF Untouched, k
    <2>4. QED BY <1>10, <2>2, <2>3
<1>12. PendingUnused(Y, N)
    BY <1>2 DEF AInv, PendingUnused, Differ, y
<1>13. \A n \in N : n.type \in {"C1", "C2", "K1", "K2"} => n.kex # k
    BY DEF AInv, CacheUnused, k
<1>14. OffersCurrent(Y, N) /\ AnswersCurrent(Y, N)
    BY <1>2, <1>13 DEF AInv, OffersCurrent, AnswersCurrent, Differ, y
<1>15. CacheUnused(Y, N, C)
    <2>1. y.origin = k
        BY DEF y, k
    <2>2. QED BY <1>2, <1>3, <2>1, RemoteFacts DEF AInv, CacheUnused, Differ, y
<1>16. EndsAgree(Y)
    <2>1. ASSUME NEW t \in Slots, Mates(y, Z[Remote(p)][t])
          PROVE  y.was_bob # Z[Remote(p)][t].was_bob /\ Agree(Z[Remote(p)][t], y)
        <3> DEFINE x == Z[Remote(p)][t]
        <3>1. x.beta = "A3" /\ x.nxt = KeyOfB2(b)
            <4>1. x.origin = b.kex
                BY <2>1 DEF Mates, y
            <4>2. QED BY <4>1 DEF AInv, CacheUnused
        <3>2. x.nxt.recv = b.kid_send /\ x.nxt.send = b.kid_recv /\ x.nxt.kex = k
            BY <3>1 DEF KeyOfB2, k
        <3>3. x.was_bob = FALSE /\ y.was_bob = TRUE /\ y.beta = "S1"
            BY <3>1, FieldTypes, RemoteFacts DEF AInv, Roles, Typed, Session, y
        <3>4. QED BY <1>2, <3>1, <3>2, <3>3 DEF Agree, Match
    <2>2. QED BY <2>1, EndsAgreeAt DEF AInv, y
<1>17. QED BY <1>4, <1>5, <1>6, <1>7, <1>9, <1>11, <1>12, <1>14, <1>15, <1>16 DEF AInv

\* Bob answers a Hello: received_x1_trans.
LEMMA Reply ==
    ASSUME NEW Z, NEW N, NEW B, NEW F, Typed(Z, N, B, F), AInv(Z, N, B, F), F + 1 \in Secrets,
           NEW p \in Peers, NEW b \in StateB2, b.kex = F + 1, b.eph <= F,
           NEW C, \A q \in Peers : C[q] \subseteq B[q] \cup (IF q = p THEN {b} ELSE {})
    PROVE  AInv(Z, N \cup {X2(p, b)}, C, F + 1)
<1> DEFINE k == F + 1
           m == X2(p, b)
           M == N \cup {m}
<1>1. /\ m.type = "X2" /\ m.dst = Remote(p) /\ m.eph = b.eph /\ m.kex = k
      /\ b.eph \in Secrets /\ b.eph <= k /\ k \in Nat /\ k > F /\ F \in Nat
    BY DEF X2, StateB2, Secrets, Typed
<1>2. ASSUME NEW q \in Peers, NEW t \in Slots
      PROVE  ~Holds(Z[q][t], k) /\ Z[q][t].origin # k
    BY <1>1, FieldTypes DEF Typed, AInv, DrawnSessions, DrawnBy, Holds, Secrets
<1>3. \A n \in N : /\ n.type \in {"X2", "X3", "C1", "C2", "K1", "K2"} => n.kex # k
                   /\ n.type = "K2" => n.newkex # k
    BY <1>1, PacketFields DEF Typed, AInv, DrawnPackets, Secrets
<1> HIDE DEF k, m
<1>4. DrawnSessions(Z, k)
    BY FieldTypes DEF AInv, DrawnSessions, DrawnBy, Typed, Secrets, k
<1>5. DrawnPackets(M, k)
    BY <1>1, PacketFields DEF AInv, DrawnPackets, Typed, Secrets, k
<1>6. \A q \in Peers : \A e, j : Answered(Z, M, q, e, j) =>
            Answered(Z, N, q, e, j) \/ (q = p /\ e = b.eph /\ j = k)
    BY <1>1, RemoteFacts DEF Answered
<1>7. \A q \in Peers : \A e : ~Answered(Z, N, q, e, k)
    BY <1>1, AnsweredDrawn
<1>8. AnswersUnique(Z, M)
    BY <1>6, <1>7 DEF AInv, AnswersUnique
<1>9. \A j \in Secrets : Untouched(Z, N, j) => Untouched(Z, M, j)
    BY <1>1 DEF Untouched
<1>10. Untouched(Z, M, k)
    BY <1>1, <1>2, <1>3 DEF Untouched
<1>11. AnswersFresh(Z, M)
    <2> HIDE DEF M
    <2> SUFFICES ASSUME NEW q \in Peers, NEW r \in Peers, NEW t \in Slots, NEW j \in Secrets,
                        Waits(Z[r][t]), Answered(Z, M, q, Z[r][t].eph, j)
                 PROVE  Untouched(Z, M, j)
        BY DEF AnswersFresh
    <2>1. CASE j = k
        BY <1>10, <2>1
    <2>2. CASE j # k
        <3>1. Answered(Z, N, q, Z[r][t].eph, j)
            BY <1>6, <2>2
        <3>2. Untouched(Z, N, j)
            BY <3>1 DEF AInv, AnswersFresh
        <3>3. QED BY <1>9, <3>2
    <2>3. QED BY <2>1, <2>2
<1>12. PendingUnused(Z, M) /\ OffersCurrent(Z, M) /\ AnswersCurrent(Z, M)
    BY <1>1 DEF AInv, PendingUnused, OffersCurrent, AnswersCurrent
<1>13. CacheUnused(Z, M, C)
    <2> SUFFICES ASSUME NEW q \in Peers, NEW c \in C[q]
                 PROVE  /\ X2(q, c) \in M
                        /\ \A n \in M : n.type = "X2" /\ n.kex = c.kex => n = X2(q, c)
                        /\ \A n \in M : n.type \in {"C1", "C2", "K1", "K2"} => n.kex # c.kex
                        /\ \A n \in M : n.type = "K2" => n.newkex # c.kex
                        /\ \A t \in Slots : Z[q][t].origin # c.kex /\ ~Holds(Z[q][t], c.kex)
                        /\ \A t \in Slots :
                            Z[Remote(q)][t].origin = c.kex \/ Holds(Z[Remote(q)][t], c.kex) =>
                                Z[Remote(q)][t].beta = "A3" /\ Z[Remote(q)][t].nxt = KeyOfB2(c)
        BY DEF CacheUnused
    <2>1. CASE c \in B[q]
        <3>1. X2(q, c) \in N /\ X2(q, c).type = "X2" /\ X2(q, c).kex = c.kex
            BY <2>1 DEF AInv, CacheUnused, X2
        <3>2. c.kex # k
            BY <1>3, <3>1
        <3>3. QED BY <1>1, <2>1, <3>2 DEF AInv, CacheUnused
    <2>2. CASE q = p /\ c = b
        <3>1. c.kex = k
            BY <2>2 DEF k
        <3>2. QED BY <1>1, <1>2, <1>3, <2>2, <3>1, RemoteFacts DEF m
    <2>3. QED BY <2>1, <2>2
<1>14. QED BY <1>4, <1>5, <1>8, <1>11, <1>12, <1>13 DEF AInv, k, m

-----------------------------------------------------------------------------
(* The steps of Zeta *)

LEMMA TypedState == IInv => Typed(zeta, net, b2, fresh)
BY DEF IInv, TypeOK, SessionShape, Shaped, Typed

\* The types that the lemmas below ask for, from the invariant of the first part.
LEMMA TypedNext ==
    ASSUME IInv'
    PROVE  /\ Typed(zeta', net', b2', fresh')
           /\ net \subseteq Packet => Typed(zeta', net, b2', fresh')
BY DEF IInv, TypeOK, SessionShape, Shaped, Typed

\* What writing one session does.
LEMMA Written ==
    ASSUME IInv, NEW p \in Peers, NEW s \in Slots, NEW y, zeta' = [zeta EXCEPT ![p][s] = y]
    PROVE  Differ(zeta, zeta', p, s) /\ zeta'[p][s] = y
<1>1. zeta \in [Peers -> [Slots -> Session]]
    BY DEF IInv, TypeOK
<1>2. zeta'[p][s] = y
    BY <1>1
<1>3. ASSUME NEW q \in Peers, NEW t \in Slots, ~(q = p /\ t = s)
      PROVE  zeta'[q][t] = zeta[q][t]
    BY <1>1, <1>3
<1>4. QED BY <1>2, <1>3 DEF Differ

\* After the session has changed, a packet may leave the network and the reply enter it.
LEMMA Replied ==
    ASSUME IInv, IInv', AInv(zeta', net, b2', fresh'),
           NEW p \in Peers, NEW s \in Slots, NEW m, Says(p, zeta'[p][s], m),
           NEW n, n \in net => n.type # "X2",
           net' = (net \ {n}) \cup {m} \/ net' = net \cup {m}
    PROVE  Inv'
<1> DEFINE N == IF net' = net \cup {m} THEN net ELSE net \ {n}
<1>1. net' = N \cup {m} /\ N \subseteq net /\ \A x \in net : x.type = "X2" => x \in N
    OBVIOUS
<1> HIDE DEF N
<1>2. AInv(zeta', N, b2', fresh')
    BY <1>1, Lose
<1>3. Typed(zeta', net', b2', fresh')
    BY TypedNext
<1>4. m \in Packet /\ N \subseteq Packet
    BY <1>1, <1>3 DEF Typed
<1>5. AInv(zeta', N \cup {m}, b2', fresh')
    BY <1>2, <1>3, <1>4, Send DEF Typed
<1>6. QED BY <1>1, <1>5 DEF Inv

\* The handler has nothing to say.
LEMMA Silent ==
    ASSUME IInv, IInv', AInv(zeta', net, b2', fresh'),
           NEW n, n \in net => n.type # "X2", net' = net \ {n} \/ net' = net
    PROVE  Inv'
<1>1. \A p \in Peers : b2'[p] \subseteq b2'[p]
    OBVIOUS
<1>2. net' \in SUBSET net /\ \A x \in net : x.type = "X2" => x \in net'
    OBVIOUS
<1>3. AInv(zeta', net', b2', fresh')
    BY <1>1, <1>2, Lose
<1>4. QED BY <1>3 DEF Inv

\* Sessions end, handshakes are dropped, and a rejection may be sent.
LEMMA Ended ==
    ASSUME IInv, Inv, IInv', fresh' = fresh,
           \A q \in Peers, t \in Slots : zeta'[q][t] \in {zeta[q][t], NullSession},
           \A q \in Peers : b2'[q] \subseteq b2[q]
    PROVE  AInv(zeta', net, b2', fresh')
<1>1. Typed(zeta, net, b2, fresh) /\ Typed(zeta', net', b2', fresh')
    BY TypedState, TypedNext
<1>2. AInv(zeta', net, b2, fresh)
    BY <1>1, End DEF Typed, Inv
<1>3. net \in SUBSET net /\ \A m \in net : m.type = "X2" => m \in net
    OBVIOUS
<1>4. AInv(zeta', net, b2', fresh)
    BY <1>2, <1>3, Lose
<1>5. QED BY <1>4

LEMMA Rejected ==
    ASSUME IInv, IInv', AInv(zeta', net, b2', fresh'), NEW p \in Peers, NEW b, MaybeReject(p, b)
    PROVE  Inv'
<1> DEFINE m == Control("D", p, [recv |-> b.kid_recv, send |-> b.kid_send, kex |-> b.kex])
<1>1. CASE net' = net
    BY <1>1 DEF Inv
<1>2. CASE net' = net \cup {m}
    <2> DEFINE Z == zeta'
               B == b2'
               F == fresh'
               M == net \cup {m}
    <2>1. m.type = "D"
        BY DEF Control
    <2> HIDE DEF m, Z, B, F
    <2>2. AInv(Z, net, B, F)
        BY DEF Z, B, F
    <2>3. DrawnPackets(M, F) /\ PendingUnused(Z, M) /\ OffersCurrent(Z, M) /\ AnswersCurrent(Z, M)
        BY <2>1, <2>2 DEF AInv, DrawnPackets, PendingUnused, OffersCurrent, AnswersCurrent
    <2>4. \A q, e, k : Answered(Z, M, q, e, k) => Answered(Z, net, q, e, k)
        BY <2>1 DEF Answered
    <2>5. \A k : Untouched(Z, net, k) => Untouched(Z, M, k)
        BY <2>1 DEF Untouched
    <2>6. AnswersUnique(Z, M) /\ AnswersFresh(Z, M)
        <3> HIDE DEF M
        <3>1. AnswersUnique(Z, M)
            BY <2>2, <2>4 DEF AInv, AnswersUnique
        <3>2. AnswersFresh(Z, M)
            BY <2>2, <2>4, <2>5 DEF AInv, AnswersFresh
        <3>3. QED BY <3>1, <3>2
    <2>7. CacheUnused(Z, M, B)
        BY <2>1, <2>2 DEF AInv, CacheUnused
    <2>8. AInv(Z, M, B, F)
        BY <2>2, <2>3, <2>6, <2>7 DEF AInv
    <2>9. QED BY <1>2, <2>8 DEF Inv, Z, B, F, m
<1>3. QED BY <1>1, <1>2 DEF MaybeReject

-----------------------------------------------------------------------------
(* What each handler writes *)

LEMMA RestartHandshakeWrites ==
    ASSUME IInv, Inv, NEW p \in Peers, NEW s \in Slots, zeta[p][s].beta \in {"A1", "A3"},
           RestartHandshake(p, s)
    PROVE  /\ Differ(zeta, zeta', p, s) /\ Begins(zeta'[p][s], fresh)
           /\ net' = net \cup {X1(p, zeta'[p][s])}
<1> DEFINE z == zeta[p][s]
<1>1. z \in Session /\ ~z.was_bob
    BY SessionFacts DEF Inv, AInv, Roles
<1>2. PICK kid \in Kids : /\ zeta' = [zeta EXCEPT ![p][s] = ToA1(z, kid)]
                          /\ net' = net \cup {X1(p, ToA1(z, kid))}
    BY DEF RestartHandshake, GenKid
<1>3. /\ ToA1(z, kid).beta = "A1" /\ ToA1(z, kid).was_bob = z.was_bob
      /\ ToA1(z, kid).origin = None /\ ToA1(z, kid).eph = fresh + 1
    BY <1>1 DEF ToA1, Session
<1> HIDE DEF z
<1>4. Differ(zeta, zeta', p, s) /\ zeta'[p][s] = ToA1(z, kid)
    BY <1>2, Written
<1>5. QED BY <1>1, <1>2, <1>3, <1>4 DEF Begins

LEMMA OpenWrites ==
    ASSUME IInv, NEW p \in Peers, Open(p)
    PROVE  \E s \in Slots :
            /\ zeta[p][s].beta = "Null" /\ Differ(zeta, zeta', p, s) /\ Begins(zeta'[p][s], fresh)
            /\ net' = net \cup {X1(p, zeta'[p][s])}
<1> DEFINE y == [NullSession EXCEPT !.ratchet_state1 = store[p].state1,
                                    !.ratchet_state2 = store[p].state2]
<1>1. PICK s \in Slots, kid \in Kids : /\ zeta[p][s].beta = "Null"
                                       /\ zeta' = [zeta EXCEPT ![p][s] = ToA1(y, kid)]
                                       /\ net' = net \cup {X1(p, ToA1(y, kid))}
    BY DEF Open, GenKid, Live
<1>2. /\ ToA1(y, kid).beta = "A1" /\ ~ToA1(y, kid).was_bob
      /\ ToA1(y, kid).origin = None /\ ToA1(y, kid).eph = fresh + 1
    BY DEF ToA1, NullSession
<1> HIDE DEF y
<1>3. Differ(zeta, zeta', p, s) /\ zeta'[p][s] = ToA1(y, kid)
    BY <1>1, Written
<1>4. QED BY <1>1, <1>2, <1>3 DEF Begins

LEMMA ReceivedX2Writes ==
    ASSUME IInv, Inv, NEW p \in Peers, NEW s \in Slots, NEW m \in net, ReceivedX2(p, s, m)
    PROVE  /\ Differ(zeta, zeta', p, s) /\ Completes(zeta[p][s], zeta'[p][s], p, m)
           /\ net' = net \cup {X3(p, zeta'[p][s])}
           /\ b2' = b2 /\ fresh' = fresh
<1> DEFINE z == zeta[p][s]
           a3 == [z EXCEPT !.beta = "A3", !.origin = m.kex,
                           !.nxt = [recv |-> m.to, send |-> m.kid, kex |-> m.kex],
                           !.ratchet_state1 = m.kex, !.ratchet_state2 = z.ratchet_state1]
<1>1. /\ m.type = "X2" /\ m.dst = p /\ b2' = b2 /\ fresh' = fresh
      /\ z.beta = "A1" /\ z.eph = m.eph /\ z.nxt.recv = m.to
      /\ zeta' = [zeta EXCEPT ![p][s] = a3] /\ net' = net \cup {X3(p, a3)}
    BY DEF ReceivedX2, AwaitsX2, X2IsAuth, Routed
<1>2. z \in Session /\ ~z.was_bob
    BY <1>1, SessionFacts DEF Inv, AInv, Roles
<1>3. /\ a3.beta = "A3" /\ a3.was_bob = z.was_bob /\ a3.origin = m.kex /\ a3.eph = z.eph
      /\ a3.nxt = [recv |-> m.to, send |-> m.kid, kex |-> m.kex]
    BY <1>2 DEF Session
<1> HIDE DEF z, a3
<1>4. Differ(zeta, zeta', p, s) /\ zeta'[p][s] = a3
    <2>1. zeta' = [zeta EXCEPT ![p][s] = a3]
        BY <1>1
    <2>2. QED BY <2>1, Written
<1>5. QED BY <1>1, <1>2, <1>3, <1>4 DEF Completes, z

LEMMA ReceivedX3Writes ==
    ASSUME IInv, NEW p \in Peers, NEW m \in net, NEW b \in b2[p], ReceivedX3(p, m, b)
    PROVE  \E s \in Slots :
            /\ Accepts(zeta'[p][s], m, b)
            /\ \A t \in Slots \ {s} : zeta'[p][t] = NullSession
            /\ zeta'[Remote(p)] = zeta[Remote(p)]
            /\ b2' = [b2 EXCEPT ![p] = @ \ {b}] /\ fresh' = fresh
            /\ net' = net \cup {Control("C1", p, zeta'[p][s].cur)}
<1> DEFINE z == [NullSession EXCEPT
                    !.beta = "S1", !.was_bob = TRUE, !.origin = b.kex, !.ratchet_state1 = b.kex,
                    !.cur = [recv |-> b.kid_recv, send |-> b.kid_send, kex |-> b.kex]]
           f(s) == [t \in Slots |-> IF t = s THEN z ELSE NullSession]
<1>1. PICK s \in Slots : zeta' = [zeta EXCEPT ![p] = f(s)]
    BY DEF ReceivedX3
<1>2. /\ m.type = "X3" /\ m.kex = b.kex /\ fresh' = fresh
      /\ b2' = [b2 EXCEPT ![p] = @ \ {b}] /\ net' = net \cup {Control("C1", p, z.cur)}
    BY DEF ReceivedX3, HandshakeOfX3, RemoveB2
<1>3. /\ z.beta = "S1" /\ z.was_bob = TRUE /\ z.origin = b.kex /\ z.eph = None /\ z.nxt = NoKey
      /\ z.cur = [recv |-> b.kid_recv, send |-> b.kid_send, kex |-> b.kex]
    BY DEF NullSession
<1> HIDE DEF z
<1>4. f(s)[s] = z /\ \A t \in Slots \ {s} : f(s)[t] = NullSession
    OBVIOUS
<1> HIDE DEF f
<1>5. zeta'[p] = f(s) /\ zeta'[Remote(p)] = zeta[Remote(p)]
    BY <1>1, RemoteFacts DEF IInv, TypeOK
<1>6. QED BY <1>2, <1>3, <1>4, <1>5 DEF Accepts

LEMMA ReceivedC1Writes ==
    ASSUME IInv, NEW p \in Peers, NEW s \in Slots, NEW m \in net, ReceivedC1(p, s, m)
    PROVE  /\ Differ(zeta, zeta', p, s) /\ Confirms(zeta[p][s], zeta'[p][s], p, m)
           /\ net' = (net \ {m}) \cup {Control("C2", p, zeta'[p][s].cur)}
           /\ b2' = b2 /\ fresh' = fresh
<1> DEFINE z == zeta[p][s]
           y == Confirmed(z)
<1>1. z \in Session
    BY SessionFacts
<1>2. /\ y.beta = "S2" /\ y.was_bob = z.was_bob /\ y.origin = z.origin /\ y.eph = None
      /\ y.cur = z.nxt /\ y.nxt = z.cur
    BY <1>1 DEF Confirmed, Flip, Session
<1>3. /\ m.type = "C1" /\ m.dst = p /\ z.beta \in {"A3", "R2"} /\ m.kex = z.nxt.kex
      /\ zeta' = [zeta EXCEPT ![p][s] = y] /\ b2' = b2 /\ fresh' = fresh
      /\ net' = (net \ {m}) \cup {Control("C2", p, y.cur)}
    BY DEF ReceivedC1, ConfirmsKey, Routed, Consume
<1> HIDE DEF z, y
<1>4. Differ(zeta, zeta', p, s) /\ zeta'[p][s] = y
    <2>1. zeta' = [zeta EXCEPT ![p][s] = y]
        BY <1>3
    <2>2. QED BY <2>1, Written
<1>5. QED BY <1>2, <1>3, <1>4 DEF Confirms, Pends, z

LEMMA ReceivedC2Writes ==
    ASSUME IInv, NEW p \in Peers, NEW s \in Slots, NEW m \in net, ReceivedC2(p, s, m)
    PROVE  /\ Differ(zeta, zeta', p, s) /\ Acknowledges(zeta[p][s], zeta'[p][s], p, m)
           /\ net' = net \ {m} /\ b2' = b2 /\ fresh' = fresh
<1> DEFINE z == zeta[p][s]
           y == [z EXCEPT !.beta = "S2"]
<1>1. z \in Session
    BY SessionFacts
<1>2. /\ y.beta = "S2" /\ y.was_bob = z.was_bob /\ y.origin = z.origin /\ y.eph = z.eph
      /\ y.cur = z.cur /\ y.nxt = z.nxt
    BY <1>1 DEF Session
<1>3. zeta' = [zeta EXCEPT ![p][s] = y]
    BY DEF ReceivedC2, IInv, TypeOK
<1>4. /\ m.type = "C2" /\ m.dst = p /\ z.beta = "S1" /\ m.kex = z.cur.kex
      /\ b2' = b2 /\ fresh' = fresh /\ net' = net \ {m}
    BY DEF ReceivedC2, Routed, Consume
<1> HIDE DEF z, y
<1>5. Differ(zeta, zeta', p, s) /\ zeta'[p][s] = y
    BY <1>3, Written
<1>6. QED BY <1>2, <1>4, <1>5 DEF Acknowledges, z

LEMMA ReceivedK1Writes ==
    ASSUME IInv, NEW p \in Peers, NEW s \in Slots, NEW m \in net, ReceivedK1(p, s, m)
    PROVE  /\ Differ(zeta, zeta', p, s) /\ Answers(zeta[p][s], zeta'[p][s], p, m, fresh)
           /\ net' = (net \ {m}) \cup {K2(p, zeta'[p][s])}
           /\ b2' = b2 /\ fresh' = fresh + 1
<1> DEFINE z == zeta[p][s]
           y(kid) == [z EXCEPT !.beta = "R2", !.eph = m.eph,
                               !.nxt = [recv |-> kid, send |-> m.kid, kex |-> fresh + 1],
                               !.ratchet_state1 = fresh + 1, !.ratchet_state2 = z.ratchet_state1]
<1>1. z \in Session
    BY SessionFacts
<1>2. PICK kid : zeta' = [zeta EXCEPT ![p][s] = y(kid)] /\ net' = (net \ {m}) \cup {K2(p, y(kid))}
    BY DEF ReceivedK1, Consume
<1>3. /\ m.type = "K1" /\ m.dst = p /\ m.kex = z.cur.kex
      /\ z.beta = "S2" \/ (z.beta = "R1" /\ z.was_bob)
      /\ b2' = b2 /\ fresh' = fresh + 1
    BY DEF ReceivedK1, AnswersK1, Routed
<1>4. /\ y(kid).beta = "R2" /\ y(kid).was_bob = z.was_bob /\ y(kid).origin = z.origin
      /\ y(kid).eph = m.eph /\ y(kid).cur = z.cur
      /\ y(kid).nxt.kex = fresh + 1 /\ y(kid).nxt.send = m.kid
    BY <1>1 DEF Session
<1>5. fresh + 1 \in Secrets
    BY DEF ReceivedK1, IInv, TypeOK, Secrets
<1> HIDE DEF z, y
<1>6. Differ(zeta, zeta', p, s) /\ zeta'[p][s] = y(kid)
    BY <1>2, Written
<1>7. QED BY <1>2, <1>3, <1>4, <1>5, <1>6 DEF Answers, z

LEMMA ReceivedK2Writes ==
    ASSUME IInv, NEW p \in Peers, NEW s \in Slots, NEW m \in net, ReceivedK2(p, s, m)
    PROVE  /\ Differ(zeta, zeta', p, s) /\ Switches(zeta[p][s], zeta'[p][s], p, m)
           /\ net' = (net \ {m}) \cup {Control("C1", p, zeta'[p][s].cur)}
           /\ b2' = b2 /\ fresh' = fresh
<1> DEFINE z == zeta[p][s]
           r == [z EXCEPT !.nxt.send = m.kid, !.nxt.kex = m.newkex]
           y == [Flip(r) EXCEPT !.beta = "S1", !.ratchet_state1 = m.newkex, !.eph = None]
<1>1. z \in Session /\ z.nxt \in DuplexKey
    BY SessionFacts
<1>2. /\ m.type = "K2" /\ m.dst = p /\ m.kex = z.cur.kex /\ z.beta = "R1" /\ z.eph = m.eph
      /\ zeta' = [zeta EXCEPT ![p][s] = y] /\ b2' = b2 /\ fresh' = fresh
      /\ net' = (net \ {m}) \cup {Control("C1", p, y.cur)}
    BY DEF ReceivedK2, AwaitsK2, Routed, Consume
<1>3. m.kid \in Kids /\ m.newkex \in Secrets
    BY <1>2, PacketFields DEF IInv, TypeOK
<1>4. /\ r \in Session /\ r.cur = z.cur /\ r.was_bob = z.was_bob /\ r.origin = z.origin
      /\ r.nxt = [recv |-> z.nxt.recv, send |-> m.kid, kex |-> m.newkex]
    BY <1>1, <1>3 DEF Session, DuplexKey
<1> HIDE DEF z, r
<1>5. /\ y.beta = "S1" /\ y.was_bob = z.was_bob /\ y.origin = z.origin /\ y.eph = None
      /\ y.nxt = z.cur /\ y.cur = [recv |-> z.nxt.recv, send |-> m.kid, kex |-> m.newkex]
    BY <1>4 DEF Flip, Session
<1> HIDE DEF y
<1>6. Differ(zeta, zeta', p, s) /\ zeta'[p][s] = y
    <2>1. zeta' = [zeta EXCEPT ![p][s] = y]
        BY <1>2
    <2>2. QED BY <2>1, Written
<1>7. QED BY <1>2, <1>5, <1>6 DEF Switches, z

LEMMA TimeoutRekeyWrites ==
    ASSUME IInv, NEW p \in Peers, NEW s \in Slots, TimeoutRekey(p, s)
    PROVE  /\ Differ(zeta, zeta', p, s) /\ Proposes(zeta[p][s], zeta'[p][s], fresh)
           /\ net' = net \cup {K1(p, zeta'[p][s])}
           /\ b2' = b2 /\ fresh' = fresh + 1
<1> DEFINE z == zeta[p][s]
           y(kid) == [z EXCEPT !.beta = "R1", !.eph = fresh + 1, !.nxt.recv = kid]
<1>1. z \in Session /\ z.nxt \in DuplexKey
    BY SessionFacts
<1>2. PICK kid : zeta' = [zeta EXCEPT ![p][s] = y(kid)] /\ net' = net \cup {K1(p, y(kid))}
    BY DEF TimeoutRekey
<1>3. z.beta = "S2" /\ b2' = b2 /\ fresh' = fresh + 1
    BY DEF TimeoutRekey
<1>4. /\ y(kid).beta = "R1" /\ y(kid).was_bob = z.was_bob /\ y(kid).origin = z.origin
      /\ y(kid).eph = fresh + 1 /\ y(kid).cur = z.cur /\ y(kid).nxt.kex = z.nxt.kex
    BY <1>1 DEF Session, DuplexKey
<1> HIDE DEF z, y
<1>5. Differ(zeta, zeta', p, s) /\ zeta'[p][s] = y(kid)
    BY <1>2, Written
<1>6. QED BY <1>2, <1>3, <1>4, <1>5 DEF Proposes, z

-----------------------------------------------------------------------------
(* Every step keeps the invariant *)

\* What every step of a handler starts from.
LEMMA Before ==
    ASSUME IInv, Inv, IInv'
    PROVE  /\ Typed(zeta, net, b2, fresh) /\ AInv(zeta, net, b2, fresh)
           /\ Shaped(zeta') /\ net \subseteq Packet
BY TypedState, TypedNext DEF Inv, Typed

LEMMA BeginsInv ==
    ASSUME IInv, Inv, IInv', NEW p \in Peers, NEW s \in Slots,
           Differ(zeta, zeta', p, s),
           Begins(zeta'[p][s], fresh),
           net' = net \cup {X1(p, zeta'[p][s])}, b2' = b2, fresh' = fresh + 1
    PROVE  Inv'
<1>1. AInv(zeta', net, b2', fresh')
    BY Before, Begin
<1>2. Says(p, zeta'[p][s], X1(p, zeta'[p][s]))
    BY DEF Says, ResendOf, Begins
<1>3. X1(p, zeta'[p][s]).type # "X2"
    BY DEF X1
<1>4. QED BY <1>1, <1>2, <1>3, Replied

LEMMA ReceivedX1Inv ==
    ASSUME IInv, Inv, IInv', NEW p \in Peers, NEW m \in net, ReceivedX1(p, m)
    PROVE  Inv'
<1> DEFINE b(kid) == [ratchet_state |-> IF HelloRatchet(p, m) = None THEN Empty ELSE HelloRatchet(p, m),
                      kid_send |-> m.kid, kid_recv |-> kid, eph |-> m.eph, kex |-> fresh + 1]
<1>1. PICK kid \in Kids : InsertB2(p, b(kid)) /\ net' = net \cup {X2(p, b(kid))}
    BY DEF ReceivedX1, GenKid
<1>2. m.kid \in Kids /\ m.eph \in Secrets /\ m.rf1 \in Ratchets /\ m.eph <= fresh
    BY PacketFields DEF ReceivedX1, IInv, TypeOK, Inv, AInv, DrawnPackets
<1>3. HelloRatchet(p, m) \in Ratchets \cup {None}
    BY <1>2 DEF HelloRatchet, RestoreByFingerprint
<1>4. fresh + 1 \in Secrets /\ fresh' = fresh + 1 /\ zeta' = zeta
    BY DEF ReceivedX1, IInv, TypeOK, Secrets
<1>5. b(kid) \in StateB2 /\ b(kid).kex = fresh + 1 /\ b(kid).eph <= fresh
    BY <1>2, <1>3, <1>4 DEF StateB2, Ratchets, Empty
<1> HIDE DEF b
<1>6. \A q \in Peers : b2'[q] \subseteq b2[q] \cup (IF q = p THEN {b(kid)} ELSE {})
    BY <1>1 DEF InsertB2, IInv, TypeOK
<1>7. AInv(zeta, net \cup {X2(p, b(kid))}, b2', fresh + 1)
    BY <1>4, <1>5, <1>6, Before, Reply
<1>8. QED BY <1>1, <1>4, <1>7 DEF Inv

LEMMA ReceivedX2Inv ==
    ASSUME IInv, Inv, IInv', NEW p \in Peers, NEW s \in Slots, NEW m \in net, ReceivedX2(p, s, m)
    PROVE  Inv' /\ Untouched(zeta, net, m.kex)
<1>1. AInv(zeta', net, b2', fresh') /\ Untouched(zeta, net, m.kex)
    BY ReceivedX2Writes, Before, Complete
<1>2. Says(p, zeta'[p][s], X3(p, zeta'[p][s]))
    <2>1. Completes(zeta[p][s], zeta'[p][s], p, m)
        BY ReceivedX2Writes
    <2>2. zeta'[p][s].beta = "A3"
        BY <2>1 DEF Completes
    <2>3. QED BY <2>2 DEF Says, ResendOf
<1>3. X3(p, zeta'[p][s]).type # "X2"
    BY DEF X3
<1>4. QED BY <1>1, <1>2, <1>3, ReceivedX2Writes, Replied

LEMMA ReceivedX3Inv ==
    ASSUME IInv, Inv, IInv', NEW p \in Peers, NEW m \in net, NEW b \in b2[p], ReceivedX3(p, m, b)
    PROVE  Inv'
<1>1. PICK s \in Slots :
            /\ Accepts(zeta'[p][s], m, b)
            /\ \A t \in Slots \ {s} : zeta'[p][t] = NullSession
            /\ zeta'[Remote(p)] = zeta[Remote(p)]
            /\ b2' = [b2 EXCEPT ![p] = @ \ {b}] /\ fresh' = fresh
            /\ net' = net \cup {Control("C1", p, zeta'[p][s].cur)}
    BY ReceivedX3Writes
<1> DEFINE Z == [q \in Peers |-> IF q = p THEN [t \in Slots |-> NullSession] ELSE zeta[q]]
<1>2. \A t \in Slots : Z[p][t] = NullSession
    OBVIOUS
<1>3. \A q \in Peers, t \in Slots : Z[q][t] \in {zeta[q][t], NullSession}
    OBVIOUS
<1>4. Shaped(Z)
    BY NullSessionType, Before DEF Shaped, Typed
<1>5. \A q \in Peers \ {p} : Z[q] = zeta[q]
    OBVIOUS
<1> HIDE DEF Z
<1>6. AInv(Z, net, b2, fresh)
    BY <1>3, Before, End DEF Typed
<1>7. Typed(Z, net, b2, fresh)
    BY <1>4, Before DEF Typed
<1>8. Differ(Z, zeta', p, s)
    BY <1>1, <1>2, <1>5, RemoteFacts DEF Differ
<1>9. AInv(zeta', net, b2', fresh)
    <2>1. Shaped(zeta')
        BY Before
    <2>2. QED BY <1>1, <1>2, <1>6, <1>7, <1>8, <2>1, Accept
<1>10. Says(p, zeta'[p][s], Control("C1", p, zeta'[p][s].cur))
    BY <1>1 DEF Says, ResendOf, Accepts
<1>11. Control("C1", p, zeta'[p][s].cur).type # "X2"
    BY DEF Control
<1>12. QED BY <1>1, <1>9, <1>10, <1>11, Replied

LEMMA ReceivedC1Inv ==
    ASSUME IInv, Inv, IInv', NEW p \in Peers, NEW s \in Slots, NEW m \in net, ReceivedC1(p, s, m)
    PROVE  /\ Inv'
           /\ \A t \in Slots : Mates(zeta[p][s], zeta[Remote(p)][t]) =>
                zeta[Remote(p)][t].beta = "S1" /\ zeta[Remote(p)][t].cur.kex = m.kex
<1>1. /\ AInv(zeta', net, b2', fresh')
      /\ \A t \in Slots : Mates(zeta[p][s], zeta[Remote(p)][t]) =>
            zeta[Remote(p)][t].beta = "S1" /\ zeta[Remote(p)][t].cur.kex = m.kex
    BY ReceivedC1Writes, Before, Confirm
<1>2. zeta'[p][s].cur.kex # None
    BY ReceivedC1Writes, PacketFields, Before DEF Secrets, Confirms
<1>3. Says(p, zeta'[p][s], Control("C2", p, zeta'[p][s].cur))
    BY <1>2 DEF Says
<1>4. m.type # "X2"
    BY ReceivedC1Writes DEF Confirms
<1>5. QED BY <1>1, <1>3, <1>4, ReceivedC1Writes, Replied

LEMMA ReceivedC2Inv ==
    ASSUME IInv, Inv, IInv', NEW p \in Peers, NEW s \in Slots, NEW m \in net, ReceivedC2(p, s, m)
    PROVE  Inv'
<1>1. AInv(zeta', net, b2', fresh')
    BY ReceivedC2Writes, Before, Acknowledge
<1>2. m.type # "X2"
    BY ReceivedC2Writes DEF Acknowledges
<1>3. QED BY <1>1, <1>2, ReceivedC2Writes, Silent

LEMMA ReceivedK1Inv ==
    ASSUME IInv, Inv, IInv', NEW p \in Peers, NEW s \in Slots, NEW m \in net, ReceivedK1(p, s, m)
    PROVE  /\ Inv'
           /\ \A t \in Slots : Mates(zeta[p][s], zeta[Remote(p)][t]) =>
                zeta[Remote(p)][t].beta = "R1" /\ zeta[Remote(p)][t].cur.kex = m.kex
<1>1. /\ AInv(zeta', net, b2', fresh')
      /\ \A t \in Slots : Mates(zeta[p][s], zeta[Remote(p)][t]) =>
            zeta[Remote(p)][t].beta = "R1" /\ zeta[Remote(p)][t].cur.kex = m.kex
    BY ReceivedK1Writes, Before, Answer
<1>2. Says(p, zeta'[p][s], K2(p, zeta'[p][s]))
    BY ReceivedK1Writes DEF Says, ResendOf, Answers
<1>3. m.type # "X2"
    BY ReceivedK1Writes DEF Answers
<1>4. QED BY <1>1, <1>2, <1>3, ReceivedK1Writes, Replied

LEMMA ReceivedK2Inv ==
    ASSUME IInv, Inv, IInv', NEW p \in Peers, NEW s \in Slots, NEW m \in net, ReceivedK2(p, s, m)
    PROVE  /\ Inv'
           /\ m.newkex > m.kex
           /\ \A t \in Slots : Mates(zeta[p][s], zeta[Remote(p)][t]) =>
                zeta[Remote(p)][t].beta = "R2" /\ zeta[Remote(p)][t].nxt.kex = m.newkex
<1>1. /\ AInv(zeta', net, b2', fresh')
      /\ m.newkex > m.kex
      /\ \A t \in Slots : Mates(zeta[p][s], zeta[Remote(p)][t]) =>
            zeta[Remote(p)][t].beta = "R2" /\ zeta[Remote(p)][t].nxt.kex = m.newkex
    BY ReceivedK2Writes, Before, Switch
<1>2. Says(p, zeta'[p][s], Control("C1", p, zeta'[p][s].cur))
    <2>1. Switches(zeta[p][s], zeta'[p][s], p, m)
        BY ReceivedK2Writes
    <2>2. zeta'[p][s].beta = "S1"
        BY <2>1 DEF Switches
    <2>3. QED BY <2>2 DEF Says, ResendOf
<1>3. m.type # "X2"
    BY ReceivedK2Writes DEF Switches
<1>4. QED BY <1>1, <1>2, <1>3, ReceivedK2Writes, Replied

LEMMA TimeoutRekeyInv ==
    ASSUME IInv, Inv, IInv', NEW p \in Peers, NEW s \in Slots, TimeoutRekey(p, s)
    PROVE  Inv'
<1>1. AInv(zeta', net, b2', fresh')
    BY TimeoutRekeyWrites, Before, Propose
<1>2. Says(p, zeta'[p][s], K1(p, zeta'[p][s]))
    BY TimeoutRekeyWrites DEF Says, ResendOf, Proposes
<1>3. K1(p, zeta'[p][s]).type # "X2"
    BY DEF K1
<1>4. QED BY <1>1, <1>2, <1>3, TimeoutRekeyWrites, Replied

\* The sessions, the cache and the secrets stay as they are: Resend and AcknowledgedC1.
LEMMA RepeatsInv ==
    ASSUME IInv, Inv, IInv', NEW p \in Peers, NEW s \in Slots,
           Resend(p, s) \/ \E m \in net : AcknowledgedC1(p, s, m)
    PROVE  Inv'
<1>1. zeta' = zeta /\ AInv(zeta', net, b2', fresh')
    BY DEF Inv, Resend, AcknowledgedC1
<1>2. CASE Resend(p, s)
    <2>1. PICK m : ResendOf(p, zeta[p][s]) = {m}
        BY <1>2 DEF Resend, ResendOf
    <2>2. Says(p, zeta'[p][s], m) /\ net' = net \cup {m}
        BY <1>1, <1>2, <2>1 DEF Says, Resend
    <2>3. m \in net => m.type # "X2"
        BY <1>2, <2>1, SMTT(30) DEF Resend, ResendOf, X1, X3, Control, K1, K2
    <2>4. QED BY <1>1, <2>2, <2>3, Replied
<1>3. ASSUME NEW m \in net, AcknowledgedC1(p, s, m)
      PROVE  Inv'
    <2>1. m.type # "X2"
        BY <1>3 DEF AcknowledgedC1
    <2>2. CASE zeta[p][s].cur.kex # None
        <3>1. Says(p, zeta'[p][s], Control("C2", p, zeta[p][s].cur))
            BY <1>1, <2>2 DEF Says
        <3>2. net' = (net \ {m}) \cup {Control("C2", p, zeta[p][s].cur)}
            BY <1>3, <2>2 DEF AcknowledgedC1, Consume
        <3>3. QED BY <1>1, <2>1, <3>1, <3>2, Replied
    <2>3. CASE zeta[p][s].cur.kex = None
        <3>1. net' = net \ {m}
            BY <1>3, <2>3 DEF AcknowledgedC1, Consume
        <3>2. QED BY <1>1, <2>1, <3>1, Silent
    <2>4. QED BY <2>2, <2>3
<1>4. QED BY <1>2, <1>3

\* The steps that only end sessions.
EndsOnly == \A q \in Peers, t \in Slots : zeta'[q][t] \in {zeta[q][t], NullSession}

LEMMA ExpireEnds ==
    ASSUME IInv, NEW p \in Peers, NEW s \in Slots, NEW map, ExpireInto(p, s, map)
    PROVE  EndsOnly /\ \A q \in Peers : q # p => zeta'[q] = zeta[q]
<1>1. zeta' = [zeta EXCEPT ![p][s] = NullSession]
    BY DEF ExpireInto
<1>2. Differ(zeta, zeta', p, s) /\ zeta'[p][s] = NullSession
    BY <1>1, Written
<1>3. \A q \in Peers : q # p => zeta'[q] = zeta[q]
    BY <1>1 DEF IInv, TypeOK
<1>4. QED BY <1>2, <1>3 DEF Differ, EndsOnly

LEMMA ResetEnds ==
    ASSUME IInv, NEW p \in Peers, zeta' = [zeta EXCEPT ![p] = [t \in Slots |-> NullSession]]
    PROVE  EndsOnly /\ \A q \in Peers : q # p => zeta'[q] = zeta[q]
BY DEF IInv, TypeOK, EndsOnly

\* The handlers that end sessions, drop handshakes or lose a packet.
Endings(p) ==
    \/ ExpireB2(p) \/ Restart(p)
    \/ \E m \in net : \E b \in b2[p] : RefusedX3(p, m, b) \/ DroppedX3(p, m, b)
    \/ \E s \in Slots :
        \/ \E m \in net : \/ StaleC1(p, s, m) \/ ReceivedD(p, s, m)
                          \/ FaultyK1(p, s, m) \/ UnsavedK1(p, s, m) \/ FaultyK2(p, s, m)
        \/ TimeoutExpire(p, s) \/ Expire(p, s)

LEMMA EndingsEnd ==
    ASSUME IInv, NEW p \in Peers, Endings(p)
    PROVE  /\ EndsOnly /\ \A q \in Peers : q # p => zeta'[q] = zeta[q]
           /\ \A q \in Peers : b2'[q] \subseteq b2[q]
           /\ fresh' = fresh
           /\ \/ \E b : MaybeReject(p, b)
              \/ \E m : (m \in net => m.type # "X2") /\ (net' = net \ {m} \/ net' = net)
<1>1. CASE ExpireB2(p)
    BY <1>1 DEF ExpireB2, EndsOnly, MaybeReject, IInv, TypeOK
<1>2. CASE Restart(p)
    <2>1. EndsOnly /\ \A q \in Peers : q # p => zeta'[q] = zeta[q]
        BY <1>2, ResetEnds DEF Restart
    <2>2. QED BY <1>2, <2>1 DEF Restart, MaybeReject, IInv, TypeOK
<1>3. ASSUME NEW m \in net, NEW b \in b2[p], RefusedX3(p, m, b)
      PROVE  /\ EndsOnly /\ \A q \in Peers : q # p => zeta'[q] = zeta[q]
             /\ \A q \in Peers : b2'[q] \subseteq b2[q]
             /\ fresh' = fresh /\ MaybeReject(p, b)
    <2>1. EndsOnly /\ \A q \in Peers : q # p => zeta'[q] = zeta[q]
        BY <1>3, ResetEnds DEF RefusedX3
    <2>2. QED BY <1>3, <2>1 DEF RefusedX3, RemoveB2, MaybeReject, IInv, TypeOK
<1>4. ASSUME NEW m \in net, NEW b \in b2[p], DroppedX3(p, m, b)
      PROVE  /\ EndsOnly /\ \A q \in Peers : q # p => zeta'[q] = zeta[q]
             /\ \A q \in Peers : b2'[q] \subseteq b2[q]
             /\ fresh' = fresh /\ MaybeReject(p, b)
    BY <1>4 DEF DroppedX3, RemoveB2, MaybeReject, EndsOnly, IInv, TypeOK
<1>5. ASSUME NEW s \in Slots, NEW m \in net,
             \/ StaleC1(p, s, m) \/ ReceivedD(p, s, m) \/ FaultyK1(p, s, m)
             \/ UnsavedK1(p, s, m) \/ FaultyK2(p, s, m)
      PROVE  /\ EndsOnly /\ \A q \in Peers : q # p => zeta'[q] = zeta[q]
             /\ b2' = b2 /\ fresh' = fresh /\ m.type # "X2" /\ net' = net \ {m}
    <2>1. CASE UnsavedK1(p, s, m)
        BY <2>1 DEF UnsavedK1, AnswersK1, Consume, EndsOnly
    <2>2. CASE StaleC1(p, s, m)
        BY <2>2, ExpireEnds DEF StaleC1, ConfirmsKey, Consume
    <2>3. CASE ReceivedD(p, s, m)
        BY <2>3, ExpireEnds DEF ReceivedD, Consume
    <2>4. CASE FaultyK1(p, s, m)
        BY <2>4, ExpireEnds DEF FaultyK1, AnswersK1, Consume
    <2>5. CASE FaultyK2(p, s, m)
        BY <2>5, ExpireEnds DEF FaultyK2, AwaitsK2, Consume
    <2>6. QED BY <1>5, <2>1, <2>2, <2>3, <2>4, <2>5
<1>6. ASSUME NEW s \in Slots, TimeoutExpire(p, s) \/ Expire(p, s)
      PROVE  /\ EndsOnly /\ \A q \in Peers : q # p => zeta'[q] = zeta[q]
             /\ b2' = b2 /\ fresh' = fresh /\ net' = net
    BY <1>6, ExpireEnds DEF TimeoutExpire, Expire
<1>7. net' = net => MaybeReject(p, {})
    BY DEF MaybeReject
<1>8. QED BY <1>1, <1>2, <1>3, <1>4, <1>5, <1>6, <1>7 DEF Endings

LEMMA EndingsInv ==
    ASSUME IInv, Inv, IInv', NEW p \in Peers, Endings(p)
    PROVE  Inv'
<1>1. AInv(zeta', net, b2', fresh')
    BY EndingsEnd, Ended DEF EndsOnly
<1>2. CASE \E b : MaybeReject(p, b)
    BY <1>1, <1>2, Rejected
<1>3. CASE \E m : (m \in net => m.type # "X2") /\ (net' = net \ {m} \/ net' = net)
    BY <1>1, <1>3, Silent
<1>4. QED BY <1>2, <1>3, EndingsEnd

\* Every step is one of those above.
StepAt(p, s) ==
    \/ /\ zeta[p][s].beta = "A1" \/ (zeta[p][s].beta = "A3" /\ GivenUp(p, zeta[p][s]))
       /\ RestartHandshake(p, s)
    \/ \E m \in net : \/ ReceivedX2(p, s, m) \/ ReceivedC1(p, s, m)
                      \/ ReceivedC2(p, s, m) \/ ReceivedK1(p, s, m)
                      \/ ReceivedK2(p, s, m) \/ AcknowledgedC1(p, s, m)
    \/ TimeoutRekey(p, s) \/ Resend(p, s)

StepOf(p) ==
    \/ Open(p) \/ Endings(p)
    \/ \E m \in net : ReceivedX1(p, m) \/ \E b \in b2[p] : ReceivedX3(p, m, b)
    \/ \E s \in Slots : StepAt(p, s)

LEMMA Steps ==
    ASSUME Next
    PROVE  \E p \in Peers : StepOf(p)
<1>1. PICK p \in Peers :
        \/ Open(p) \/ ReceiveHandshake(p) \/ ExpireB2(p) \/ Restart(p)
        \/ \E s \in Slots : ReceiveSession(p, s) \/ Service(p, s) \/ Expire(p, s)
    BY DEF Next
<1>2. CASE Open(p) \/ ReceiveHandshake(p) \/ ExpireB2(p) \/ Restart(p)
    BY <1>2 DEF ReceiveHandshake, Endings, StepOf
<1>3. ASSUME NEW s \in Slots, ReceiveSession(p, s) \/ Service(p, s) \/ Expire(p, s)
      PROVE  StepOf(p)
    <2>1. \A m \in net : FaultyX2(p, s, m) => zeta[p][s].beta = "A1" /\ RestartHandshake(p, s)
        BY DEF FaultyX2, AwaitsX2
    <2>2. TimeoutHandshake(p, s) =>
            /\ zeta[p][s].beta = "A1" \/ (zeta[p][s].beta = "A3" /\ GivenUp(p, zeta[p][s]))
            /\ RestartHandshake(p, s)
        BY DEF TimeoutHandshake
    <2>3. QED BY <1>3, <2>1, <2>2 DEF ReceiveSession, Service, Endings, StepAt, StepOf
<1>4. QED BY <1>1, <1>2, <1>3

LEMMA InvNext ==
    ASSUME IInv, Inv, [Next]_vars
    PROVE  Inv'
<1>1. CASE UNCHANGED vars
    BY <1>1 DEF vars, Inv
<1>2. CASE Next
    <2>1. IInv'
        BY <1>2, IInvNext
    <2>2. PICK p \in Peers : StepOf(p)
        BY <1>2, Steps
    <2>3. CASE Open(p)
        BY <2>1, <2>3, OpenWrites, BeginsInv DEF Open
    <2>4. ASSUME NEW s \in Slots, zeta[p][s].beta \in {"A1", "A3"}, RestartHandshake(p, s)
          PROVE  Inv'
        BY <2>1, <2>4, RestartHandshakeWrites, BeginsInv DEF RestartHandshake
    <2>5. QED BY <2>1, <2>2, <2>3, <2>4, EndingsInv, ReceivedX1Inv, ReceivedX3Inv, ReceivedX2Inv,
                 ReceivedC1Inv, ReceivedC2Inv, ReceivedK1Inv, ReceivedK2Inv, TimeoutRekeyInv, RepeatsInv
                 DEF StepOf, StepAt
<1>3. QED BY <1>1, <1>2

LEMMA InvInit == Init => Inv
<1> SUFFICES ASSUME Init PROVE Inv
    OBVIOUS
<1>1. \A p \in Peers, s \in Slots : zeta[p][s] = NullSession
    BY DEF Init
<1>2. net = {} /\ \A p \in Peers : b2[p] = {}
    BY DEF Init
<1>3. Roles(zeta) /\ DrawnSessions(zeta, fresh) /\ DrawnPackets(net, fresh)
    BY <1>1, <1>2, NullFacts DEF Roles, DrawnSessions, DrawnBy, DrawnPackets
<1>4. EphsUnique(zeta) /\ KeysUnique(zeta) /\ EndsAgree(zeta)
    BY <1>1, NullFacts, RemoteFacts DEF EphsUnique, KeysUnique, EndsAgree, Mates
<1>5. AnswersUnique(zeta, net) /\ AnswersFresh(zeta, net)
    BY <1>1, <1>2, NullFacts DEF AnswersUnique, AnswersFresh, Answered
<1>6. PendingUnused(zeta, net) /\ OffersCurrent(zeta, net) /\ AnswersCurrent(zeta, net)
    BY <1>2 DEF PendingUnused, OffersCurrent, AnswersCurrent
<1>7. CacheUnused(zeta, net, b2)
    BY <1>2 DEF CacheUnused
<1>8. QED BY <1>3, <1>4, <1>5, <1>6, <1>7 DEF Inv, AInv

-----------------------------------------------------------------------------
(* The safety properties of Zeta *)

LEMMA Invariance == Spec => [](IInv /\ Inv)
<1>1. Init => IInv /\ Inv
    BY IInvInit, InvInit
<1>2. IInv /\ Inv /\ [Next]_vars => IInv' /\ Inv'
    BY IInvNext, InvNext
<1>3. QED BY <1>1, <1>2, PTL DEF Spec

\* Whatever a session sends under its current key, its peer can open right now, through every
\* loss, repetition and reordering of packets and through restarts of either side.
THEOREM SendKeyKnownHolds == Spec => []SendKeyKnown
<1>1. IInv /\ Inv => SendKeyKnown
    <2> SUFFICES ASSUME IInv, Inv, NEW p \in Peers, NEW s \in Slots, NEW t \in Slots,
                        Paired(p, s, t), zeta[p][s].beta \in {"S1", "S2", "R1", "R2"}
                 PROVE  \E k \in {zeta[Remote(p)][t].cur, zeta[Remote(p)][t].nxt} :
                            k.kex = zeta[p][s].cur.kex /\ k.recv = zeta[p][s].cur.send
        BY DEF SendKeyKnown
    <2>1. Agree(zeta[p][s], zeta[Remote(p)][t]) \/ Agree(zeta[Remote(p)][t], zeta[p][s])
        BY DEF Paired, Inv, AInv, EndsAgree, Mates
    <2>2. QED BY <2>1 DEF Agree, Match
<1>2. QED BY <1>1, Invariance, PTL

\* Only one side of a session answers a rekey; the other is the one that asked, also when both
\* asked at once (received_k1_trans lets only the original responder give up its own offer).
THEOREM RekeyRolesHold == Spec => []RekeyRoles
<1>1. IInv /\ Inv => RekeyRoles
    <2> SUFFICES ASSUME IInv, Inv, NEW p \in Peers, NEW s \in Slots, NEW t \in Slots,
                        Paired(p, s, t), zeta[p][s].beta = "R2"
                 PROVE  \/ /\ zeta[Remote(p)][t].beta = "R1" /\ zeta[Remote(p)][t].eph = zeta[p][s].eph
                           /\ zeta[Remote(p)][t].cur.kex = zeta[p][s].cur.kex
                        \/ /\ zeta[Remote(p)][t].beta = "S1"
                           /\ zeta[Remote(p)][t].cur.kex = zeta[p][s].nxt.kex
        BY DEF RekeyRoles
    <2>1. Agree(zeta[p][s], zeta[Remote(p)][t]) \/ Agree(zeta[Remote(p)][t], zeta[p][s])
        BY DEF Paired, Inv, AInv, EndsAgree, Mates
    <2>2. QED BY <2>1 DEF Agree, Match
<1>2. QED BY <1>1, Invariance, PTL

\* No handshake is accepted twice: once a session has come of it, it is out of the cache.
THEOREM HandshakeConsumedHolds == Spec => []HandshakeConsumed
<1>1. IInv /\ Inv => HandshakeConsumed
    BY DEF Inv, AInv, CacheUnused, HandshakeConsumed
<1>2. QED BY <1>1, Invariance, PTL

-----------------------------------------------------------------------------
(* Storage never goes back *)

\* Storage holds drawn ratchet states, the older one second.
StatesOrdered(states, F) ==
    states.state1 <= F /\ (states.state2 # None => states.state2 < states.state1)

\* A handshake is newer than the ratchet state it was keyed with.
HelloOrdered(N) == \A m \in N : m.type = "X2" => m.psk < m.kex

RatchetsOrdered == (\A p \in Peers : StatesOrdered(store[p], fresh)) /\ HelloOrdered(net)

\* Neither application allows a downgrade to the empty ratchet state.
NoDowngrade == ResponderDisallowsDowngrade /\ InitiatorDisallowsDowngrade

\* What a step may write to storage.
Supersedes(old, new) == StatesOrdered(new, fresh') /\ Oldest(new) >= Oldest(old)

LEMMA StoreTypes ==
    ASSUME IInv, NEW p \in Peers
    PROVE  store[p].state1 \in Nat /\ (store[p].state2 = None \/ store[p].state2 \in Nat) /\ fresh \in Nat
<1>1. store[p] \in RatchetStates /\ fresh \in 0 .. MaxFresh
    BY DEF IInv, TypeOK
<1>2. QED BY <1>1 DEF RatchetStates, Ratchets

\* Completing a handshake: what is kept beside the new ratchet state is the one Bob chose.
LEMMA ReceivedX2Supersedes ==
    ASSUME IInv, Inv, RatchetsOrdered, NoDowngrade,
           NEW p \in Peers, NEW s \in Slots, NEW m \in net, ReceivedX2(p, s, m)
    PROVE  \E new : store' = [store EXCEPT ![p] = new] /\ Supersedes(store[p], new)
<1> DEFINE z == zeta[p][s]
           keep == RatchetToPreserve(z, m)
           new == States(m.kex, keep)
<1>1. /\ m.type = "X2" /\ store[p].state1 = z.ratchet_state1 /\ store[p].state2 = z.ratchet_state2
      /\ RatchetI(z, m) # 0 /\ store' = [store EXCEPT ![p] = new] /\ fresh' = fresh
    BY DEF ReceivedX2, AwaitsX2, X2IsAuth, InStorage, Memory, States
<1>2. m.psk \in Nat /\ m.kex \in Nat /\ m.psk < m.kex /\ m.kex <= fresh
    <2>1. m \in Packet
        BY DEF IInv, TypeOK
    <2>2. QED BY <1>1, <2>1, PacketFields DEF RatchetsOrdered, HelloOrdered, Inv, AInv, DrawnPackets, Ratchets, Secrets
<1>3. /\ store[p].state1 \in Nat /\ (store[p].state2 = None \/ store[p].state2 \in Nat)
      /\ fresh \in Nat /\ StatesOrdered(store[p], fresh)
    BY StoreTypes DEF RatchetsOrdered
<1>4. \/ m.psk = store[p].state1 /\ keep = m.psk
      \/ m.psk = store[p].state2 /\ keep = m.psk
    BY <1>1 DEF RatchetI, RatchetToPreserve, NoDowngrade
<1>5. new.state1 = m.kex /\ new.state2 = keep
    BY DEF States
<1> HIDE DEF new, keep
<1>6. Supersedes(store[p], new)
    BY <1>1, <1>2, <1>3, <1>4, <1>5 DEF Supersedes, StatesOrdered, Oldest
<1>7. QED BY <1>1, <1>6

\* Accepting a handshake: it was keyed with a ratchet state that storage has.
LEMMA ReceivedX3Supersedes ==
    ASSUME IInv, Inv, RatchetsOrdered, NoDowngrade,
           NEW p \in Peers, NEW m \in net, NEW b \in b2[p], ReceivedX3(p, m, b)
    PROVE  \E new : store' = [store EXCEPT ![p] = new] /\ Supersedes(store[p], new)
<1> DEFINE new == States(b.kex, None)
<1>1. /\ store' = [store EXCEPT ![p] = new] /\ fresh' = fresh
      /\ \/ b.ratchet_state = store[p].state1 \/ b.ratchet_state = store[p].state2
    BY DEF ReceivedX3, RatchetAcceptable, NoDowngrade
<1>2. X2(p, b) \in net
    BY DEF Inv, AInv, CacheUnused
<1>3. b.ratchet_state < b.kex /\ b.kex <= fresh
    BY <1>2 DEF X2, RatchetsOrdered, HelloOrdered, Inv, AInv, DrawnPackets
<1>4. b.ratchet_state \in Nat /\ b.kex \in Nat
    BY DEF IInv, TypeOK, StateB2, Ratchets, Secrets
<1>5. /\ store[p].state1 \in Nat /\ (store[p].state2 = None \/ store[p].state2 \in Nat)
      /\ fresh \in Nat /\ StatesOrdered(store[p], fresh)
    BY StoreTypes DEF RatchetsOrdered
<1>6. new.state1 = b.kex /\ new.state2 = None
    BY DEF States
<1> HIDE DEF new
<1>7. Supersedes(store[p], new)
    BY <1>1, <1>3, <1>4, <1>5, <1>6 DEF Supersedes, StatesOrdered, Oldest
<1>8. QED BY <1>1, <1>7

\* Confirming a key gives up the older ratchet state.
LEMMA ReceivedC1Supersedes ==
    ASSUME IInv, RatchetsOrdered, NoDowngrade,
           NEW p \in Peers, NEW s \in Slots, NEW m \in net, ReceivedC1(p, s, m)
    PROVE  \E new : store' = [store EXCEPT ![p] = new] /\ Supersedes(store[p], new)
<1> DEFINE z == zeta[p][s]
           new == IF z.ratchet_state2 = None THEN store[p] ELSE States(z.ratchet_state1, None)
<1>1. store' = [store EXCEPT ![p] = new] /\ fresh' = fresh
    BY DEF ReceivedC1
<1>2. /\ store[p].state1 \in Nat /\ (store[p].state2 = None \/ store[p].state2 \in Nat)
      /\ fresh \in Nat /\ StatesOrdered(store[p], fresh)
    BY StoreTypes DEF RatchetsOrdered
<1>3. \/ new = store[p]
      \/ store[p].state2 # None /\ new.state1 = store[p].state1 /\ new.state2 = None
    BY DEF ReceivedC1, InStorage, Memory, States
<1> HIDE DEF new
<1>4. Supersedes(store[p], new)
    BY <1>1, <1>2, <1>3 DEF Supersedes, StatesOrdered, Oldest
<1>5. QED BY <1>1, <1>4

\* Answering a rekey keeps the newest ratchet state as the older one.
LEMMA ReceivedK1Supersedes ==
    ASSUME IInv, RatchetsOrdered, NoDowngrade,
           NEW p \in Peers, NEW s \in Slots, NEW m \in net, ReceivedK1(p, s, m)
    PROVE  \E new : store' = [store EXCEPT ![p] = new] /\ Supersedes(store[p], new)
<1> DEFINE z == zeta[p][s]
           new == States(fresh + 1, z.ratchet_state1)
<1>1. store' = [store EXCEPT ![p] = new] /\ fresh' = fresh + 1 /\ store[p].state1 = z.ratchet_state1
    BY DEF ReceivedK1, InStorage, Memory, States
<1>2. /\ store[p].state1 \in Nat /\ (store[p].state2 = None \/ store[p].state2 \in Nat)
      /\ fresh \in Nat /\ StatesOrdered(store[p], fresh)
    BY StoreTypes DEF RatchetsOrdered
<1>3. new.state1 = fresh + 1 /\ new.state2 = store[p].state1
    BY <1>1 DEF States
<1> HIDE DEF new
<1>4. Supersedes(store[p], new)
    BY <1>1, <1>2, <1>3 DEF Supersedes, StatesOrdered, Oldest
<1>5. QED BY <1>1, <1>4

\* The new key of a rekey is newer than the one it replaces, which is the newest in storage.
LEMMA ReceivedK2Supersedes ==
    ASSUME IInv, Inv, IInv', RatchetsOrdered, NoDowngrade,
           NEW p \in Peers, NEW s \in Slots, NEW m \in net, ReceivedK2(p, s, m)
    PROVE  \E new : store' = [store EXCEPT ![p] = new] /\ Supersedes(store[p], new)
<1> DEFINE z == zeta[p][s]
           new == States(m.newkex, None)
<1>1. /\ store' = [store EXCEPT ![p] = new] /\ fresh' = fresh /\ store[p].state1 = z.ratchet_state1
      /\ m.type = "K2" /\ z.beta = "R1" /\ m.kex = z.cur.kex
    BY DEF ReceivedK2, AwaitsK2, InStorage, Memory, States
<1>2. m.newkex > store[p].state1
    <2>1. ShapeOf(z)
        BY SessionFacts
    <2>2. z.cur.kex = z.ratchet_state1
        BY <1>1, <2>1 DEF ShapeOf
    <2>3. QED BY <1>1, <2>2, ReceivedK2Inv
<1>3. m.newkex \in Nat /\ m.newkex <= fresh
    <2>1. m \in Packet
        BY DEF IInv, TypeOK
    <2>2. QED BY <1>1, <2>1, PacketFields DEF Inv, AInv, DrawnPackets, Secrets
<1>4. /\ store[p].state1 \in Nat /\ (store[p].state2 = None \/ store[p].state2 \in Nat)
      /\ fresh \in Nat /\ StatesOrdered(store[p], fresh)
    BY StoreTypes DEF RatchetsOrdered
<1>5. new.state1 = m.newkex /\ new.state2 = None
    BY DEF States
<1> HIDE DEF new
<1>6. Supersedes(store[p], new)
    BY <1>1, <1>2, <1>3, <1>4, <1>5 DEF Supersedes, StatesOrdered, Oldest
<1>7. QED BY <1>1, <1>6

\* The other steps leave storage alone.
LEMMA StoreKept ==
    ASSUME NEW p \in Peers,
           \/ Open(p) \/ Endings(p)
           \/ \E m \in net : ReceivedX1(p, m)
           \/ \E s \in Slots :
                \/ RestartHandshake(p, s) \/ TimeoutRekey(p, s) \/ Resend(p, s)
                \/ \E m \in net : ReceivedC2(p, s, m) \/ AcknowledgedC1(p, s, m)
    PROVE  store' = store
BY DEF Open, Endings, ReceivedX1, RestartHandshake, TimeoutRekey, Resend, ReceivedC2, AcknowledgedC1,
       ExpireB2, Restart, RefusedX3, DroppedX3, StaleC1, ReceivedD, FaultyK1, UnsavedK1, FaultyK2,
       TimeoutExpire, Expire

LEMMA StoreStep ==
    ASSUME IInv, Inv, RatchetsOrdered, NoDowngrade, Next
    PROVE  \/ store' = store
           \/ \E p \in Peers : \E new : store' = [store EXCEPT ![p] = new] /\ Supersedes(store[p], new)
<1>1. IInv'
    BY IInvNext
<1>2. PICK p \in Peers : StepOf(p)
    BY Steps
<1>3. CASE \E s \in Slots, m \in net : ReceivedX2(p, s, m)
    BY <1>3, ReceivedX2Supersedes
<1>4. CASE \E m \in net : \E b \in b2[p] : ReceivedX3(p, m, b)
    BY <1>4, ReceivedX3Supersedes
<1>5. CASE \E s \in Slots, m \in net : ReceivedC1(p, s, m)
    BY <1>5, ReceivedC1Supersedes
<1>6. CASE \E s \in Slots, m \in net : ReceivedK1(p, s, m)
    BY <1>6, ReceivedK1Supersedes
<1>7. CASE \E s \in Slots, m \in net : ReceivedK2(p, s, m)
    BY <1>1, <1>7, ReceivedK2Supersedes
<1>8. QED BY <1>2, <1>3, <1>4, <1>5, <1>6, <1>7, StoreKept DEF StepOf, StepAt

\* X2 is sent in answer to a Hello and repeated by nobody.
LEMMA HelloStep ==
    ASSUME IInv, Inv, RatchetsOrdered, NoDowngrade, Next
    PROVE  HelloOrdered(net') /\ fresh' >= fresh
<1>1. PICK p \in Peers : StepOf(p)
    BY Steps
<1>2. fresh \in Nat
    BY DEF IInv, TypeOK
<1>3. SUFFICES fresh' >= fresh /\ \A m \in net' : m \in net \/ m.type # "X2" \/ m.psk < m.kex
    BY DEF HelloOrdered, RatchetsOrdered
<1>4. ASSUME NEW m \in net, ReceivedX1(p, m)
      PROVE  fresh' >= fresh /\ \A n \in net' : n \in net \/ n.type # "X2" \/ n.psk < n.kex
    <2>1. PICK kid :
            LET b == [ratchet_state |-> IF HelloRatchet(p, m) = None THEN Empty ELSE HelloRatchet(p, m),
                      kid_send |-> m.kid, kid_recv |-> kid, eph |-> m.eph, kex |-> fresh + 1]
            IN net' = net \cup {X2(p, b)}
        BY <1>4 DEF ReceivedX1
    <2> DEFINE r == IF HelloRatchet(p, m) = None THEN Empty ELSE HelloRatchet(p, m)
               n == X2(p, [ratchet_state |-> r, kid_send |-> m.kid, kid_recv |-> kid,
                           eph |-> m.eph, kex |-> fresh + 1])
    <2>2. net' = net \cup {n} /\ n.kex = fresh + 1 /\ n.psk = r
        BY <2>1 DEF X2
    <2> HIDE DEF n
    <2>3. HelloRatchet(p, m) \in {None, store[p].state1, store[p].state2}
        BY DEF HelloRatchet, RestoreByFingerprint
    <2>4. /\ store[p].state1 \in Nat /\ (store[p].state2 = None \/ store[p].state2 \in Nat)
          /\ StatesOrdered(store[p], fresh)
        BY StoreTypes DEF RatchetsOrdered
    <2>5. n.psk < n.kex
        BY <1>2, <2>2, <2>3, <2>4 DEF StatesOrdered, Empty
    <2>6. fresh' = fresh + 1
        BY <1>4 DEF ReceivedX1
    <2>7. QED BY <1>2, <2>2, <2>5, <2>6
<1>5. CASE Open(p)
    BY <1>2, <1>5 DEF Open, X1
<1>6. CASE Endings(p)
    <2>1. /\ fresh' = fresh
          /\ \/ \E b : MaybeReject(p, b)
             \/ \E m : net' = net \ {m} \/ net' = net
        BY <1>6, EndingsEnd
    <2>2. QED BY <1>2, <2>1 DEF MaybeReject, Control
<1>7. ASSUME NEW s \in Slots, RestartHandshake(p, s)
      PROVE  fresh' >= fresh /\ \A n \in net' : n \in net \/ n.type # "X2"
    BY <1>2, <1>7 DEF RestartHandshake, X1
<1>8. ASSUME NEW s \in Slots, TimeoutRekey(p, s) \/ Resend(p, s)
      PROVE  fresh' >= fresh /\ \A n \in net' : n \in net \/ n.type # "X2"
    <2>1. CASE TimeoutRekey(p, s)
        BY <1>2, <2>1, TimeoutRekeyWrites DEF K1
    <2>2. CASE Resend(p, s)
        <3>1. net' = net \cup ResendOf(p, zeta[p][s]) /\ fresh' = fresh
            BY <2>2 DEF Resend
        <3>2. \A n \in ResendOf(p, zeta[p][s]) : n.type # "X2"
            BY DEF ResendOf, K1, K2, X1, X3, Control
        <3>3. QED BY <1>2, <3>1, <3>2
    <2>3. QED BY <1>8, <2>1, <2>2
<1>9. ASSUME NEW m \in net, \E b \in b2[p] : ReceivedX3(p, m, b)
      PROVE  fresh' >= fresh /\ \A n \in net' : n \in net \/ n.type # "X2"
    BY <1>2, <1>9 DEF ReceivedX3, Control
<1>10. ASSUME NEW s \in Slots, NEW m \in net, ReceivedX2(p, s, m)
       PROVE  fresh' >= fresh /\ \A n \in net' : n \in net \/ n.type # "X2"
    BY <1>2, <1>10, ReceivedX2Writes DEF X3
<1>11. ASSUME NEW s \in Slots, NEW m \in net,
              ReceivedC1(p, s, m) \/ ReceivedC2(p, s, m) \/ AcknowledgedC1(p, s, m)
       PROVE  fresh' >= fresh /\ \A n \in net' : n \in net \/ n.type # "X2"
    BY <1>2, <1>11 DEF ReceivedC1, ReceivedC2, AcknowledgedC1, Consume, Control
<1>12. ASSUME NEW s \in Slots, NEW m \in net, ReceivedK1(p, s, m)
       PROVE  fresh' >= fresh /\ \A n \in net' : n \in net \/ n.type # "X2"
    BY <1>2, <1>12, ReceivedK1Writes DEF K2
<1>13. ASSUME NEW s \in Slots, NEW m \in net, ReceivedK2(p, s, m)
       PROVE  fresh' >= fresh /\ \A n \in net' : n \in net \/ n.type # "X2"
    BY <1>2, <1>13, ReceivedK2Writes DEF Control
<1>14. QED BY <1>1, <1>4, <1>5, <1>6, <1>7, <1>8, <1>9, <1>10, <1>11, <1>12, <1>13 DEF StepOf, StepAt

LEMMA RatchetsOrderedNext ==
    ASSUME IInv, Inv, RatchetsOrdered, NoDowngrade, [Next]_vars
    PROVE  /\ RatchetsOrdered'
           /\ \A p \in Peers : Oldest(store'[p]) >= Oldest(store[p])
<1>1. \A p \in Peers : Oldest(store[p]) \in Nat
    BY StoreTypes DEF Oldest
<1>2. CASE UNCHANGED vars
    BY <1>1, <1>2 DEF vars, RatchetsOrdered
<1>3. CASE Next
    <2>1. HelloOrdered(net') /\ fresh' >= fresh
        BY <1>3, HelloStep
    <2>2. fresh' \in Nat /\ DOMAIN store = Peers
        <3>1. IInv'
            BY <1>3, IInvNext
        <3>2. QED BY <3>1 DEF IInv, TypeOK
    <2>3. \A p \in Peers : StatesOrdered(store[p], fresh')
        BY <2>1, <2>2, StoreTypes DEF RatchetsOrdered, StatesOrdered
    <2>4. CASE store' = store
        BY <1>1, <2>1, <2>3, <2>4 DEF RatchetsOrdered
    <2>5. ASSUME NEW p \in Peers, NEW new, store' = [store EXCEPT ![p] = new], Supersedes(store[p], new)
          PROVE  /\ \A q \in Peers : StatesOrdered(store'[q], fresh')
                 /\ \A q \in Peers : Oldest(store'[q]) >= Oldest(store[q])
        <3>1. \A q \in Peers : store'[q] = IF q = p THEN new ELSE store[q]
            BY <2>2, <2>5
        <3>2. QED BY <1>1, <2>3, <2>5, <3>1 DEF Supersedes
    <2>6. QED BY <1>3, <2>1, <2>4, <2>5, StoreStep DEF RatchetsOrdered
<1>4. QED BY <1>2, <1>3

\* When neither application allows a downgrade, no peer goes back behind a ratchet state it has
\* given up: the compare-and-swap of save_ratchet_state against what the session remembers is
\* enough, through restarts, expirations and any number of competing handshakes and rekeys.
THEOREM StoreAdvancesHolds == Spec => StoreAdvances
<1>1. Init => (NoDowngrade => RatchetsOrdered)
    BY DEF Init, RatchetsOrdered, StatesOrdered, HelloOrdered, States, Empty
<1>2. IInv /\ Inv /\ (NoDowngrade => RatchetsOrdered) /\ [Next]_vars =>
        (NoDowngrade => RatchetsOrdered)'
    BY RatchetsOrderedNext DEF NoDowngrade
<1>3. IInv /\ Inv /\ (NoDowngrade => RatchetsOrdered) /\ [Next]_vars =>
        [ResponderDisallowsDowngrade /\ InitiatorDisallowsDowngrade =>
            \A p \in Peers : Oldest(store'[p]) >= Oldest(store[p])]_vars
    BY RatchetsOrderedNext DEF NoDowngrade
<1>4. QED BY <1>1, <1>2, <1>3, Invariance, PTL DEF Spec, StoreAdvances

-----------------------------------------------------------------------------
(* What a peer with room for one session remembers.  Two sessions of a peer compete for the    *)
(* ratchet states in its storage; one session has them to itself.                              *)

OneSession == \A s, t \in Slots : s = t

\* Storage has what the session remembers, up to the older ratchet state in A3.
AtRest(states, z) ==
    /\ z.beta \in {"S1", "S2", "R1", "R2"} => states = Memory(z)
    /\ z.beta = "A3" => states.state1 = z.ratchet_state1

InMemory == \A p \in Peers, s \in Slots : AtRest(store[p], zeta[p][s])

\* The ratchet states a handler leaves in memory and in storage.
LEMMA RestartHandshakeRatchets ==
    ASSUME IInv, NEW p \in Peers, NEW s \in Slots, RestartHandshake(p, s)
    PROVE  /\ zeta'[p][s].ratchet_state1 = zeta[p][s].ratchet_state1
           /\ zeta'[p][s].ratchet_state2 = zeta[p][s].ratchet_state2
<1> DEFINE z == zeta[p][s]
<1>1. z \in Session
    BY SessionFacts
<1>2. PICK kid \in Kids : zeta' = [zeta EXCEPT ![p][s] = ToA1(z, kid)]
    BY DEF RestartHandshake, GenKid
<1>3. /\ ToA1(z, kid).ratchet_state1 = z.ratchet_state1
      /\ ToA1(z, kid).ratchet_state2 = z.ratchet_state2
    BY <1>1 DEF ToA1, Session
<1>4. zeta'[p][s] = ToA1(z, kid)
    <2> HIDE DEF z
    <2>1. QED BY <1>2, Written
<1>5. QED BY <1>3, <1>4

LEMMA OpenRatchets ==
    ASSUME IInv, NEW p \in Peers, Open(p)
    PROVE  \E s \in Slots :
            /\ zeta[p][s].beta = "Null" /\ Differ(zeta, zeta', p, s) /\ Begins(zeta'[p][s], fresh)
            /\ zeta'[p][s].ratchet_state1 = store[p].state1
            /\ zeta'[p][s].ratchet_state2 = store[p].state2
            /\ net' = net \cup {X1(p, zeta'[p][s])}
<1> DEFINE y == [NullSession EXCEPT !.ratchet_state1 = store[p].state1,
                                    !.ratchet_state2 = store[p].state2]
<1>1. PICK s \in Slots, kid \in Kids : /\ zeta[p][s].beta = "Null"
                                       /\ zeta' = [zeta EXCEPT ![p][s] = ToA1(y, kid)]
                                       /\ net' = net \cup {X1(p, ToA1(y, kid))}
    BY DEF Open, GenKid, Live
<1>2. /\ ToA1(y, kid).beta = "A1" /\ ~ToA1(y, kid).was_bob
      /\ ToA1(y, kid).origin = None /\ ToA1(y, kid).eph = fresh + 1
      /\ ToA1(y, kid).ratchet_state1 = store[p].state1
      /\ ToA1(y, kid).ratchet_state2 = store[p].state2
    BY DEF ToA1, NullSession
<1> HIDE DEF y
<1>3. Differ(zeta, zeta', p, s) /\ zeta'[p][s] = ToA1(y, kid)
    BY <1>1, Written
<1>4. QED BY <1>1, <1>2, <1>3 DEF Begins

LEMMA ReceivedX2Ratchets ==
    ASSUME IInv, NEW p \in Peers, NEW s \in Slots, NEW m \in net, ReceivedX2(p, s, m)
    PROVE  /\ zeta'[p][s].ratchet_state1 = m.kex
           /\ zeta'[p][s].ratchet_state2 = zeta[p][s].ratchet_state1
           /\ store' = [store EXCEPT ![p] = States(m.kex, RatchetToPreserve(zeta[p][s], m))]
           /\ InStorage(p, zeta[p][s]) /\ RatchetI(zeta[p][s], m) # 0
<1> DEFINE z == zeta[p][s]
           a3 == [z EXCEPT !.beta = "A3", !.origin = m.kex,
                           !.nxt = [recv |-> m.to, send |-> m.kid, kex |-> m.kex],
                           !.ratchet_state1 = m.kex, !.ratchet_state2 = z.ratchet_state1]
<1>1. z \in Session
    BY SessionFacts
<1>2. /\ zeta' = [zeta EXCEPT ![p][s] = a3]
      /\ store' = [store EXCEPT ![p] = States(m.kex, RatchetToPreserve(zeta[p][s], m))]
      /\ InStorage(p, zeta[p][s]) /\ RatchetI(zeta[p][s], m) # 0
    BY DEF ReceivedX2, X2IsAuth
<1>3. a3.ratchet_state1 = m.kex /\ a3.ratchet_state2 = z.ratchet_state1
    BY <1>1 DEF Session
<1>4. zeta'[p][s] = a3
    <2> HIDE DEF a3
    <2>1. zeta' = [zeta EXCEPT ![p][s] = a3]
        BY <1>2
    <2>2. QED BY <2>1, Written
<1>5. QED BY <1>2, <1>3, <1>4

LEMMA ReceivedX3Ratchets ==
    ASSUME IInv, NEW p \in Peers, NEW m \in net, NEW b \in b2[p], ReceivedX3(p, m, b)
    PROVE  \E s \in Slots :
            /\ Accepts(zeta'[p][s], m, b)
            /\ zeta'[p][s].ratchet_state1 = b.kex /\ zeta'[p][s].ratchet_state2 = None
            /\ \A t \in Slots \ {s} : zeta'[p][t] = NullSession
            /\ zeta'[Remote(p)] = zeta[Remote(p)]
            /\ b2' = [b2 EXCEPT ![p] = @ \ {b}] /\ fresh' = fresh
            /\ net' = net \cup {Control("C1", p, zeta'[p][s].cur)}
            /\ store' = [store EXCEPT ![p] = States(b.kex, None)]
<1>1. PICK s \in Slots :
            /\ Accepts(zeta'[p][s], m, b)
            /\ \A t \in Slots \ {s} : zeta'[p][t] = NullSession
            /\ zeta'[Remote(p)] = zeta[Remote(p)]
            /\ b2' = [b2 EXCEPT ![p] = @ \ {b}] /\ fresh' = fresh
            /\ net' = net \cup {Control("C1", p, zeta'[p][s].cur)}
    BY ReceivedX3Writes
<1> DEFINE z == [NullSession EXCEPT
                    !.beta = "S1", !.was_bob = TRUE, !.origin = b.kex, !.ratchet_state1 = b.kex,
                    !.cur = [recv |-> b.kid_recv, send |-> b.kid_send, kex |-> b.kex]]
<1>2. PICK u \in Slots : zeta' = [zeta EXCEPT ![p] = [t \in Slots |-> IF t = u THEN z ELSE NullSession]]
    BY DEF ReceivedX3
<1>3. store' = [store EXCEPT ![p] = States(b.kex, None)]
    BY DEF ReceivedX3
<1>4. z.ratchet_state1 = b.kex /\ z.ratchet_state2 = None
    BY DEF NullSession
<1> HIDE DEF z
<1>5. zeta'[p] = [t \in Slots |-> IF t = u THEN z ELSE NullSession]
    BY <1>2 DEF IInv, TypeOK
<1>6. u = s
    <2>1. zeta'[p][s].beta = "S1"
        BY <1>1 DEF Accepts
    <2>2. QED BY <1>5, <2>1, NullFacts
<1>7. zeta'[p][s] = z
    BY <1>5, <1>6
<1>8. zeta'[p][s].ratchet_state1 = b.kex /\ zeta'[p][s].ratchet_state2 = None
    BY <1>4, <1>7
<1>9. QED BY <1>1, <1>3, <1>8

LEMMA ReceivedC1Ratchets ==
    ASSUME IInv, NEW p \in Peers, NEW s \in Slots, NEW m \in net, ReceivedC1(p, s, m)
    PROVE  /\ zeta'[p][s].ratchet_state1 = zeta[p][s].ratchet_state1
           /\ zeta'[p][s].ratchet_state2 = None
           /\ InStorage(p, zeta[p][s])
           /\ store' = [store EXCEPT ![p] = States(zeta[p][s].ratchet_state1, None)]
<1> DEFINE z == zeta[p][s]
           y == Confirmed(z)
<1>1. z \in Session /\ ShapeOf(z)
    BY SessionFacts
<1>2. /\ z.beta \in {"A3", "R2"} /\ zeta' = [zeta EXCEPT ![p][s] = y]
      /\ z.ratchet_state2 = None \/ InStorage(p, z)
      /\ store' = [store EXCEPT ![p] = IF z.ratchet_state2 = None THEN @
                                       ELSE States(z.ratchet_state1, None)]
    BY DEF ReceivedC1, ConfirmsKey
<1>3. z.ratchet_state2 # None
    BY <1>1, <1>2 DEF ShapeOf
<1>4. y.ratchet_state1 = z.ratchet_state1 /\ y.ratchet_state2 = None
    BY <1>1 DEF Confirmed, Flip, Session
<1>5. zeta'[p][s] = y
    <2> HIDE DEF y
    <2>1. zeta' = [zeta EXCEPT ![p][s] = y]
        BY <1>2
    <2>2. QED BY <2>1, Written
<1>6. QED BY <1>2, <1>3, <1>4, <1>5

LEMMA ReceivedC2Ratchets ==
    ASSUME IInv, NEW p \in Peers, NEW s \in Slots, NEW m \in net, ReceivedC2(p, s, m)
    PROVE  /\ zeta'[p][s].ratchet_state1 = zeta[p][s].ratchet_state1
           /\ zeta'[p][s].ratchet_state2 = zeta[p][s].ratchet_state2
<1> DEFINE z == zeta[p][s]
           y == [z EXCEPT !.beta = "S2"]
<1>1. z \in Session
    BY SessionFacts
<1>2. y.ratchet_state1 = z.ratchet_state1 /\ y.ratchet_state2 = z.ratchet_state2
    BY <1>1 DEF Session
<1>3. zeta' = [zeta EXCEPT ![p][s] = y]
    BY DEF ReceivedC2, IInv, TypeOK
<1> HIDE DEF y
<1>4. zeta'[p][s] = y
    BY <1>3, Written
<1>5. QED BY <1>2, <1>4

LEMMA TimeoutRekeyRatchets ==
    ASSUME IInv, NEW p \in Peers, NEW s \in Slots, TimeoutRekey(p, s)
    PROVE  /\ zeta'[p][s].ratchet_state1 = zeta[p][s].ratchet_state1
           /\ zeta'[p][s].ratchet_state2 = zeta[p][s].ratchet_state2
<1> DEFINE z == zeta[p][s]
           y(kid) == [z EXCEPT !.beta = "R1", !.eph = fresh + 1, !.nxt.recv = kid]
<1>1. z \in Session
    BY SessionFacts
<1>2. PICK kid : zeta' = [zeta EXCEPT ![p][s] = y(kid)]
    BY DEF TimeoutRekey
<1>3. y(kid).ratchet_state1 = z.ratchet_state1 /\ y(kid).ratchet_state2 = z.ratchet_state2
    BY <1>1 DEF Session
<1> HIDE DEF y
<1>4. zeta'[p][s] = y(kid)
    BY <1>2, Written
<1>5. QED BY <1>3, <1>4

LEMMA ReceivedK1Ratchets ==
    ASSUME IInv, NEW p \in Peers, NEW s \in Slots, NEW m \in net, ReceivedK1(p, s, m)
    PROVE  /\ zeta'[p][s].ratchet_state1 = fresh + 1
           /\ zeta'[p][s].ratchet_state2 = zeta[p][s].ratchet_state1
           /\ InStorage(p, zeta[p][s]) /\ m.psk = zeta[p][s].ratchet_state1
           /\ store' = [store EXCEPT ![p] = States(fresh + 1, zeta[p][s].ratchet_state1)]
<1> DEFINE z == zeta[p][s]
           y(kid) == [z EXCEPT !.beta = "R2", !.eph = m.eph,
                               !.nxt = [recv |-> kid, send |-> m.kid, kex |-> fresh + 1],
                               !.ratchet_state1 = fresh + 1, !.ratchet_state2 = z.ratchet_state1]
<1>1. z \in Session
    BY SessionFacts
<1>2. PICK kid : zeta' = [zeta EXCEPT ![p][s] = y(kid)]
    BY DEF ReceivedK1
<1>3. y(kid).ratchet_state1 = fresh + 1 /\ y(kid).ratchet_state2 = z.ratchet_state1
    BY <1>1 DEF Session
<1> HIDE DEF y
<1>4. zeta'[p][s] = y(kid)
    BY <1>2, Written
<1>5. QED BY <1>3, <1>4 DEF ReceivedK1

LEMMA ReceivedK2Ratchets ==
    ASSUME IInv, NEW p \in Peers, NEW s \in Slots, NEW m \in net, ReceivedK2(p, s, m)
    PROVE  /\ zeta'[p][s].ratchet_state1 = m.newkex
           /\ zeta'[p][s].ratchet_state2 = None
           /\ InStorage(p, zeta[p][s])
           /\ store' = [store EXCEPT ![p] = States(m.newkex, None)]
<1> DEFINE z == zeta[p][s]
           r == [z EXCEPT !.nxt.send = m.kid, !.nxt.kex = m.newkex]
           y == [Flip(r) EXCEPT !.beta = "S1", !.ratchet_state1 = m.newkex, !.eph = None]
<1>1. z \in Session /\ z.nxt \in DuplexKey /\ ShapeOf(z)
    BY SessionFacts
<1>2. /\ m.type = "K2" /\ z.beta = "R1" /\ zeta' = [zeta EXCEPT ![p][s] = y]
      /\ InStorage(p, z) /\ store' = [store EXCEPT ![p] = States(m.newkex, None)]
    BY DEF ReceivedK2, AwaitsK2
<1>3. m.kid \in Kids /\ m.newkex \in Secrets
    BY <1>2, PacketFields DEF IInv, TypeOK
<1>4. r \in Session /\ r.ratchet_state2 = z.ratchet_state2
    BY <1>1, <1>3 DEF Session, DuplexKey
<1>5. z.ratchet_state2 = None
    BY <1>1, <1>2 DEF ShapeOf
<1> HIDE DEF r
<1>6. y.ratchet_state1 = m.newkex /\ y.ratchet_state2 = z.ratchet_state2
    BY <1>4 DEF Flip, Session
<1>7. zeta'[p][s] = y
    <2> HIDE DEF y
    <2>1. zeta' = [zeta EXCEPT ![p][s] = y]
        BY <1>2
    <2>2. QED BY <2>1, Written
<1>8. QED BY <1>2, <1>5, <1>6, <1>7

-----------------------------------------------------------------------------
\* A peer's only session and its storage are written together.
LEMMA Remembered ==
    ASSUME OneSession, IInv, InMemory, NEW p \in Peers, NEW s \in Slots,
           Differ(zeta, zeta', p, s), \A q \in Peers : q # p => store'[q] = store[q],
           AtRest(store'[p], zeta'[p][s])
    PROVE  InMemory'
<1>1. ASSUME NEW q \in Peers, NEW t \in Slots
      PROVE  AtRest(store'[q], zeta'[q][t])
    <2>1. CASE q = p
        BY <2>1 DEF OneSession
    <2>2. CASE q # p
        BY <2>2 DEF Differ, InMemory
    <2>3. QED BY <2>1, <2>2
<1>2. QED BY <1>1 DEF InMemory

LEMMA InMemoryNext ==
    ASSUME OneSession, IInv, Inv, InMemory, [Next]_vars
    PROVE  InMemory'
<1>1. CASE UNCHANGED vars
    BY <1>1 DEF vars, InMemory
<1>2. CASE Next
    <2>1. PICK p \in Peers : StepOf(p)
        BY <1>2, Steps
    <2>2. DOMAIN store = Peers
        BY DEF IInv, TypeOK
    <2>3. CASE Open(p)
        <3>1. PICK s \in Slots : Differ(zeta, zeta', p, s) /\ Begins(zeta'[p][s], fresh)
            BY <2>3, OpenWrites
        <3>2. QED BY <2>3, <3>1, StoreKept, Remembered DEF Begins, AtRest
    <2>4. CASE Endings(p)
        <3>1. store' = store /\ EndsOnly
            BY <2>4, StoreKept, EndingsEnd
        <3>2. \A states : AtRest(states, NullSession)
            BY NullFacts DEF AtRest
        <3>3. QED BY <3>1, <3>2 DEF EndsOnly, InMemory
    <2>5. ASSUME NEW m \in net, ReceivedX1(p, m)
          PROVE  InMemory'
        BY <2>5 DEF ReceivedX1, InMemory
    <2>6. ASSUME NEW m \in net, NEW b \in b2[p], ReceivedX3(p, m, b)
          PROVE  InMemory'
        <3>1. PICK s \in Slots :
                /\ Accepts(zeta'[p][s], m, b)
                /\ zeta'[p][s].ratchet_state1 = b.kex /\ zeta'[p][s].ratchet_state2 = None
                /\ zeta'[Remote(p)] = zeta[Remote(p)]
                /\ store' = [store EXCEPT ![p] = States(b.kex, None)]
            BY <2>6, ReceivedX3Ratchets
        <3>2. Differ(zeta, zeta', p, s)
            BY <3>1, RemoteFacts DEF Differ, OneSession
        <3>3. AtRest(store'[p], zeta'[p][s])
            BY <2>2, <3>1 DEF AtRest, Accepts, Memory
        <3>4. QED BY <3>1, <3>2, <3>3, Remembered
    <2>7. ASSUME NEW s \in Slots, zeta[p][s].beta \in {"A1", "A3"}, RestartHandshake(p, s)
          PROVE  InMemory'
        BY <2>7, RestartHandshakeWrites, StoreKept, Remembered DEF Begins, AtRest
    <2>8. ASSUME NEW s \in Slots, NEW m \in net, ReceivedX2(p, s, m)
          PROVE  InMemory'
        <3>1. Differ(zeta, zeta', p, s) /\ zeta'[p][s].beta = "A3"
            <4>1. Differ(zeta, zeta', p, s) /\ Completes(zeta[p][s], zeta'[p][s], p, m)
                BY <2>8, ReceivedX2Writes
            <4>2. QED BY <4>1 DEF Completes
        <3>2. AtRest(store'[p], zeta'[p][s]) /\ \A q \in Peers : q # p => store'[q] = store[q]
            BY <2>2, <2>8, <3>1, ReceivedX2Ratchets DEF AtRest, States
        <3>3. QED BY <3>1, <3>2, Remembered
    <2>9. ASSUME NEW s \in Slots, NEW m \in net, ReceivedC1(p, s, m)
          PROVE  InMemory'
        <3>1. Differ(zeta, zeta', p, s) /\ zeta'[p][s].beta = "S2"
            BY <2>9, ReceivedC1Writes DEF Confirms
        <3>2. AtRest(store'[p], zeta'[p][s]) /\ \A q \in Peers : q # p => store'[q] = store[q]
            BY <2>2, <2>9, <3>1, ReceivedC1Ratchets DEF AtRest, Memory
        <3>3. QED BY <3>1, <3>2, Remembered
    <2>10. ASSUME NEW s \in Slots, NEW m \in net, ReceivedC2(p, s, m)
           PROVE  InMemory'
        <3>1. Differ(zeta, zeta', p, s) /\ zeta'[p][s].beta = "S2" /\ zeta[p][s].beta = "S1"
            BY <2>10, ReceivedC2Writes DEF Acknowledges
        <3>2. store' = store
            BY <2>10, StoreKept
        <3>3. AtRest(store'[p], zeta'[p][s])
            BY <2>10, <3>1, <3>2, ReceivedC2Ratchets DEF AtRest, Memory, InMemory
        <3>4. QED BY <3>1, <3>2, <3>3, Remembered
    <2>11. ASSUME NEW s \in Slots, TimeoutRekey(p, s)
           PROVE  InMemory'
        <3>1. Differ(zeta, zeta', p, s) /\ zeta'[p][s].beta = "R1" /\ zeta[p][s].beta = "S2"
            BY <2>11, TimeoutRekeyWrites DEF Proposes
        <3>2. store' = store
            BY <2>11, StoreKept
        <3>3. AtRest(store'[p], zeta'[p][s])
            BY <2>11, <3>1, <3>2, TimeoutRekeyRatchets DEF AtRest, Memory, InMemory
        <3>4. QED BY <3>1, <3>2, <3>3, Remembered
    <2>12. ASSUME NEW s \in Slots, NEW m \in net, ReceivedK1(p, s, m)
           PROVE  InMemory'
        <3>1. Differ(zeta, zeta', p, s) /\ zeta'[p][s].beta = "R2"
            BY <2>12, ReceivedK1Writes DEF Answers
        <3>2. AtRest(store'[p], zeta'[p][s]) /\ \A q \in Peers : q # p => store'[q] = store[q]
            BY <2>2, <2>12, <3>1, ReceivedK1Ratchets DEF AtRest, Memory
        <3>3. QED BY <3>1, <3>2, Remembered
    <2>13. ASSUME NEW s \in Slots, NEW m \in net, ReceivedK2(p, s, m)
           PROVE  InMemory'
        <3>1. Differ(zeta, zeta', p, s) /\ zeta'[p][s].beta = "S1"
            <4>1. Differ(zeta, zeta', p, s) /\ Switches(zeta[p][s], zeta'[p][s], p, m)
                BY <2>13, ReceivedK2Writes
            <4>2. QED BY <4>1 DEF Switches
        <3>2. AtRest(store'[p], zeta'[p][s]) /\ \A q \in Peers : q # p => store'[q] = store[q]
            BY <2>2, <2>13, <3>1, ReceivedK2Ratchets DEF AtRest, Memory
        <3>3. QED BY <3>1, <3>2, Remembered
    <2>14. ASSUME NEW s \in Slots, Resend(p, s) \/ \E m \in net : AcknowledgedC1(p, s, m)
           PROVE  InMemory'
        BY <2>14 DEF Resend, AcknowledgedC1, InMemory
    <2>15. QED BY <2>1, <2>3, <2>4, <2>5, <2>6, <2>7, <2>8, <2>9, <2>10, <2>11, <2>12, <2>13, <2>14
              DEF StepAt, StepOf
<1>3. QED BY <1>1, <1>2


-----------------------------------------------------------------------------
(* No key id outlives its session *)

\* What the session map leads to, for one peer.
Owned(map, z) == \A k \in Kids : map[k] # None => k \in RecvKids(z[map[k]])

\* Only peer p is concerned.
LEMMA OwnedAt ==
    ASSUME NoLeakedKids, NEW p \in Peers,
           \A q \in Peers : q # p => zeta'[q] = zeta[q] /\ session_map'[q] = session_map[q],
           Owned(session_map'[p], zeta'[p])
    PROVE  NoLeakedKids'
<1>1. ASSUME NEW q \in Peers, NEW k \in Kids, session_map'[q][k] # None
      PROVE  k \in RecvKids(zeta'[q][session_map'[q][k]])
    <2>1. CASE q = p
        BY <1>1, <2>1 DEF Owned
    <2>2. CASE q # p
        <3>1. zeta'[q] = zeta[q] /\ session_map'[q] = session_map[q]
            BY <2>2
        <3>2. QED BY <1>1, <3>1 DEF NoLeakedKids
    <2>3. QED BY <2>1, <2>2
<1>2. QED BY <1>1 DEF NoLeakedKids

\* A session keeps its key ids, in either order.
LEMMA SameKidsOwned ==
    ASSUME IInv, NoLeakedKids, NEW p \in Peers, NEW s \in Slots, NEW z,
           zeta' = [zeta EXCEPT ![p][s] = z], session_map' = session_map,
           RecvKids(zeta[p][s]) \subseteq RecvKids(z)
    PROVE  NoLeakedKids'
<1>1. \A q \in Peers : q # p => zeta'[q] = zeta[q] /\ session_map'[q] = session_map[q]
    BY DEF IInv, TypeOK
<1>2. Differ(zeta, zeta', p, s) /\ zeta'[p][s] = z
    BY Written
<1>3. session_map[p] \in Maps
    BY SessionFacts
<1>4. Owned(session_map'[p], zeta'[p])
    BY <1>2, <1>3 DEF Owned, NoLeakedKids, Differ, Maps
<1>5. QED BY <1>1, <1>4, OwnedAt

\* remap: the session listens on the new key id and on its current one.
LEMMA RemapOwned ==
    ASSUME IInv, RInv, NoLeakedKids, NEW p \in Peers, NEW s \in Slots, NEW z,
           NEW kid \in GenKid(Unmapped(session_map[p], zeta[p][s])),
           zeta' = [zeta EXCEPT ![p][s] = z],
           session_map' = [session_map EXCEPT ![p] = Remapped(@, s, zeta[p][s], kid)],
           z.cur.recv = zeta[p][s].cur.recv, z.nxt.recv = kid
    PROVE  NoLeakedKids'
<1> DEFINE y == zeta[p][s]
           map == session_map[p]
<1>1. y \in Session /\ map \in Maps
    BY SessionFacts
<1>2. kid \in Kids
    BY DEF GenKid
<1>3. y.nxt.recv # None => map[y.nxt.recv] = s
    BY DEF RInv, KidsRouted, RecvKids
<1>4. ASSUME NEW k \in Kids
      PROVE  session_map'[p][k] = IF k = kid THEN s ELSE IF k = y.nxt.recv THEN None ELSE map[k]
    <2>1. session_map'[p] = Remapped(map, s, y, kid)
        BY DEF IInv, TypeOK
    <2>2. QED BY <1>1, <1>2, <1>3, <2>1, RemappedAt
<1>5. Differ(zeta, zeta', p, s) /\ zeta'[p][s] = z
    BY Written
<1>6. ASSUME NEW k \in Kids, session_map'[p][k] # None
      PROVE  k \in RecvKids(zeta'[p][session_map'[p][k]])
    <2>1. CASE k = kid
        <3>1. session_map'[p][k] = s /\ zeta'[p][s].nxt.recv = k /\ k # None
            BY <1>2, <1>4, <1>5, <2>1
        <3>2. QED BY <3>1 DEF RecvKids
    <2>2. CASE k # kid
        <3>1. k # y.nxt.recv /\ session_map'[p][k] = map[k] /\ map[k] # None
            BY <1>4, <1>6, <2>2
        <3>2. k \in RecvKids(zeta[p][map[k]]) /\ map[k] \in Slots
            BY <1>1, <3>1 DEF NoLeakedKids, Maps
        <3>3. CASE map[k] = s
            BY <1>5, <3>1, <3>2, <3>3 DEF RecvKids
        <3>4. CASE map[k] # s
            BY <1>5, <3>1, <3>2, <3>4 DEF Differ
        <3>5. QED BY <3>3, <3>4
    <2>3. QED BY <2>1, <2>2
<1>7. \A q \in Peers : q # p => zeta'[q] = zeta[q] /\ session_map'[q] = session_map[q]
    BY DEF IInv, TypeOK
<1>8. Owned(session_map'[p], zeta'[p])
    BY <1>6 DEF Owned
<1>9. QED BY <1>7, <1>8, OwnedAt

\* expire_inner takes the key ids of the session out of the map.
LEMMA ExpireOwned ==
    ASSUME IInv, NoLeakedKids, NEW p \in Peers, NEW s \in Slots, ExpireInto(p, s, session_map[p])
    PROVE  NoLeakedKids'
<1> DEFINE map == session_map[p]
           ks == RecvKids(zeta[p][s])
<1>1. map \in Maps
    BY SessionFacts
<1>2. zeta' = [zeta EXCEPT ![p][s] = NullSession] /\ session_map' = [session_map EXCEPT ![p] = Without(map, ks)]
    BY DEF ExpireInto
<1>3. Differ(zeta, zeta', p, s)
    BY <1>2, Written
<1>4. \A q \in Peers : q # p => zeta'[q] = zeta[q] /\ session_map'[q] = session_map[q]
    BY <1>2 DEF IInv, TypeOK
<1>5. ASSUME NEW k \in Kids, session_map'[p][k] # None
      PROVE  k \in RecvKids(zeta'[p][session_map'[p][k]])
    <2>1. session_map'[p] = Without(map, ks)
        BY <1>2 DEF IInv, TypeOK
    <2>2. k \notin ks /\ session_map'[p][k] = map[k] /\ map[k] # None
        BY <1>5, <2>1 DEF Without
    <2>3. k \in RecvKids(zeta[p][map[k]]) /\ map[k] \in Slots
        BY <1>1, <2>2 DEF NoLeakedKids, Maps
    <2>4. map[k] # s
        BY <2>2, <2>3
    <2>5. QED BY <1>3, <2>2, <2>3, <2>4 DEF Differ
<1>6. Owned(session_map'[p], zeta'[p])
    BY <1>5 DEF Owned
<1>7. QED BY <1>4, <1>6, OwnedAt

\* Once all sessions of a peer are expired none of its key ids is routed.
LEMMA NothingRouted ==
    ASSUME IInv, NoLeakedKids, NEW p \in Peers, NEW k \in Kids
    PROVE  Without(session_map[p], AllSessionKids(p))[k] = None
<1>1. session_map[p] \in Maps
    BY DEF IInv, TypeOK, Maps
<1>2. CASE session_map[p][k] = None
    BY <1>2 DEF Without
<1>3. CASE session_map[p][k] # None
    <2>1. session_map[p][k] \in Slots /\ k \in RecvKids(zeta[p][session_map[p][k]])
        BY <1>1, <1>3 DEF NoLeakedKids, Maps
    <2>2. k \in AllSessionKids(p)
        BY <2>1 DEF AllSessionKids
    <2>3. QED BY <2>2 DEF Without
<1>4. QED BY <1>2, <1>3

LEMMA HandshakeOwned ==
    ASSUME IInv, NoLeakedKids, NEW p \in Peers, NEW m \in net, NEW b \in b2[p],
           ReceivedX3(p, m, b) \/ RefusedX3(p, m, b)
    PROVE  NoLeakedKids'
<1> DEFINE rest == Without(session_map[p], AllSessionKids(p))
<1>1. \A k \in Kids : rest[k] = None
    BY NothingRouted
<1>2. DOMAIN rest = Kids
    BY DEF Without
<1> HIDE DEF rest
<1>3. b.kid_recv \in Kids
    BY DEF IInv, TypeOK, StateB2
<1>4. CASE RefusedX3(p, m, b)
    <2>1. \A q \in Peers : q # p => zeta'[q] = zeta[q] /\ session_map'[q] = session_map[q]
        BY <1>4 DEF RefusedX3, IInv, TypeOK
    <2>2. session_map'[p] = rest
        BY <1>4 DEF RefusedX3, IInv, TypeOK, rest
    <2>3. Owned(session_map'[p], zeta'[p])
        BY <1>1, <2>2 DEF Owned
    <2>4. QED BY <2>1, <2>3, OwnedAt
<1>5. CASE ReceivedX3(p, m, b)
    <2> DEFINE z == [NullSession EXCEPT
                        !.beta = "S1", !.was_bob = TRUE, !.origin = b.kex, !.ratchet_state1 = b.kex,
                        !.cur = [recv |-> b.kid_recv, send |-> b.kid_send, kex |-> b.kex]]
    <2>1. PICK s \in Slots :
            /\ zeta' = [zeta EXCEPT ![p] = [t \in Slots |-> IF t = s THEN z ELSE NullSession]]
            /\ session_map' = [session_map EXCEPT
                    ![p] = [Without(@, AllSessionKids(p)) EXCEPT ![b.kid_recv] = s]]
        BY <1>5 DEF ReceivedX3
    <2>2. z.cur.recv = b.kid_recv
        BY DEF NullSession
    <2> HIDE DEF z
    <2>3. \A q \in Peers : q # p => zeta'[q] = zeta[q] /\ session_map'[q] = session_map[q]
        BY <2>1 DEF IInv, TypeOK
    <2>4. zeta'[p][s] = z /\ session_map'[p] = [rest EXCEPT ![b.kid_recv] = s]
        <3>1. zeta'[p] = [t \in Slots |-> IF t = s THEN z ELSE NullSession]
            BY <2>1 DEF IInv, TypeOK
        <3>2. session_map'[p] = [rest EXCEPT ![b.kid_recv] = s]
            BY <2>1 DEF IInv, TypeOK, rest
        <3>3. QED BY <3>1, <3>2
    <2>5. b.kid_recv \in RecvKids(zeta'[p][s])
        BY <1>3, <2>2, <2>4 DEF RecvKids
    <2>6. \A k \in Kids : session_map'[p][k] = IF k = b.kid_recv THEN s ELSE None
        BY <1>1, <1>2, <1>3, <2>4
    <2>7. Owned(session_map'[p], zeta'[p])
        BY <2>5, <2>6 DEF Owned
    <2>8. QED BY <2>3, <2>7, OwnedAt
<1>6. QED BY <1>4, <1>5

LEMMA OpenOwned ==
    ASSUME IInv, NoLeakedKids, NEW p \in Peers, Open(p)
    PROVE  NoLeakedKids'
<1> DEFINE y == [NullSession EXCEPT !.ratchet_state1 = store[p].state1,
                                    !.ratchet_state2 = store[p].state2]
<1>1. PICK s \in Slots, kid \in Kids :
        /\ ~Live(zeta[p][s])
        /\ zeta' = [zeta EXCEPT ![p][s] = ToA1(y, kid)]
        /\ session_map' = [session_map EXCEPT ![p][kid] = s]
    BY DEF Open, GenKid
<1>2. ToA1(y, kid).nxt.recv = kid
    BY DEF ToA1, NullSession, NoKey
<1> HIDE DEF y
<1>3. Differ(zeta, zeta', p, s) /\ zeta'[p][s] = ToA1(y, kid)
    BY <1>1, Written
<1>4. \A q \in Peers : q # p => zeta'[q] = zeta[q] /\ session_map'[q] = session_map[q]
    BY <1>1 DEF IInv, TypeOK
<1>5. \A k \in Kids : session_map'[p][k] = IF k = kid THEN s ELSE session_map[p][k]
    BY <1>1 DEF IInv, TypeOK
<1>6. RecvKids(zeta[p][s]) = {}
    BY <1>1, SessionFacts DEF Live, ShapeOf, RecvKids, NoKey
<1>7. session_map[p] \in Maps
    BY SessionFacts
<1>8. ASSUME NEW k \in Kids, session_map'[p][k] # None
      PROVE  k \in RecvKids(zeta'[p][session_map'[p][k]])
    <2>1. CASE k = kid
        <3>1. session_map'[p][k] = s /\ zeta'[p][s].nxt.recv = k /\ k # None
            BY <1>2, <1>3, <1>5, <2>1
        <3>2. QED BY <3>1 DEF RecvKids
    <2>2. CASE k # kid
        <3>1. session_map'[p][k] = session_map[p][k] /\ session_map[p][k] \in Slots
            BY <1>5, <1>7, <1>8, <2>2 DEF Maps
        <3>2. k \in RecvKids(zeta[p][session_map[p][k]])
            BY <1>8, <3>1 DEF NoLeakedKids
        <3>3. QED BY <1>3, <1>6, <3>1, <3>2 DEF Differ
    <2>3. QED BY <2>1, <2>2
<1>9. Owned(session_map'[p], zeta'[p])
    BY <1>8 DEF Owned
<1>10. QED BY <1>4, <1>9, OwnedAt

LEMMA EndingsOwned ==
    ASSUME ~StorageErrors, IInv, InMemory, NoLeakedKids, NEW p \in Peers, Endings(p)
    PROVE  NoLeakedKids'
<1>1. CASE ExpireB2(p) \/ \E m \in net : \E b \in b2[p] : DroppedX3(p, m, b)
    BY <1>1 DEF ExpireB2, DroppedX3, NoLeakedKids
<1>2. CASE Restart(p)
    <2>1. \A q \in Peers : q # p => zeta'[q] = zeta[q] /\ session_map'[q] = session_map[q]
        BY <1>2 DEF Restart, IInv, TypeOK
    <2>2. session_map'[p] = [kid \in Kids |-> None]
        BY <1>2 DEF Restart, IInv, TypeOK
    <2>3. QED BY <2>1, <2>2, OwnedAt DEF Owned
<1>3. CASE \E m \in net : \E b \in b2[p] : RefusedX3(p, m, b)
    BY <1>3, HandshakeOwned
<1>4. ASSUME NEW s \in Slots, NEW m \in net,
             \/ StaleC1(p, s, m) \/ ReceivedD(p, s, m) \/ FaultyK1(p, s, m)
             \/ UnsavedK1(p, s, m) \/ FaultyK2(p, s, m)
      PROVE  NoLeakedKids'
    <2>1. ~UnsavedK1(p, s, m)
        BY DEF UnsavedK1
    <2>2. CASE FaultyK1(p, s, m)
        <3>1. InStorage(p, zeta[p][s])
            BY <2>2 DEF FaultyK1, AnswersK1, InMemory, AtRest, InStorage
        <3>2. ExpireInto(p, s, session_map[p])
            BY <2>2, <3>1 DEF FaultyK1
        <3>3. QED BY <3>2, ExpireOwned
    <2>3. CASE StaleC1(p, s, m) \/ ReceivedD(p, s, m) \/ FaultyK2(p, s, m)
        BY <2>3, ExpireOwned DEF StaleC1, ReceivedD, FaultyK2
    <2>4. QED BY <1>4, <2>1, <2>2, <2>3
<1>5. ASSUME NEW s \in Slots, TimeoutExpire(p, s) \/ Expire(p, s)
      PROVE  NoLeakedKids'
    BY <1>5, ExpireOwned DEF TimeoutExpire, Expire
<1>6. QED BY <1>1, <1>2, <1>3, <1>4, <1>5 DEF Endings

LEMMA RemapsOwned ==
    ASSUME IInv, RInv, NoLeakedKids, NEW p \in Peers, NEW s \in Slots,
           \/ zeta[p][s].beta \in {"A1", "A3"} /\ RestartHandshake(p, s)
           \/ TimeoutRekey(p, s)
           \/ \E m \in net : ReceivedK1(p, s, m)
    PROVE  NoLeakedKids'
<1> DEFINE z == zeta[p][s]
<1>1. z \in Session /\ z.nxt \in DuplexKey /\ ShapeOf(z)
    BY SessionFacts
<1>2. CASE RestartHandshake(p, s)
    <2>1. PICK kid \in GenKid(Unmapped(session_map[p], z)) :
            /\ zeta' = [zeta EXCEPT ![p][s] = ToA1(z, kid)]
            /\ session_map' = [session_map EXCEPT ![p] = Remapped(@, s, z, kid)]
        BY <1>2 DEF RestartHandshake
    <2>2. ToA1(z, kid).cur.recv = z.cur.recv /\ ToA1(z, kid).nxt.recv = kid
        BY <1>1 DEF ToA1, Session, NoKey
    <2>3. QED BY <2>1, <2>2, RemapOwned
<1>3. CASE TimeoutRekey(p, s)
    <2> DEFINE r1(kid) == [z EXCEPT !.beta = "R1", !.eph = fresh + 1, !.nxt.recv = kid]
    <2>1. PICK kid \in GenKid(Unmapped(session_map[p], z)) :
            /\ zeta' = [zeta EXCEPT ![p][s] = r1(kid)]
            /\ session_map' = [session_map EXCEPT ![p] = Remapped(@, s, z, kid)]
        BY <1>3 DEF TimeoutRekey
    <2>2. r1(kid).cur.recv = z.cur.recv /\ r1(kid).nxt.recv = kid
        BY <1>1 DEF Session, DuplexKey
    <2> HIDE DEF r1
    <2>3. QED BY <2>1, <2>2, RemapOwned
<1>4. ASSUME NEW m \in net, ReceivedK1(p, s, m)
      PROVE  NoLeakedKids'
    <2> DEFINE r2(kid) == [z EXCEPT !.beta = "R2", !.eph = m.eph,
                                    !.nxt = [recv |-> kid, send |-> m.kid, kex |-> fresh + 1],
                                    !.ratchet_state1 = fresh + 1, !.ratchet_state2 = z.ratchet_state1]
    <2>1. PICK kid \in GenKid(Unmapped(session_map[p], z)) :
            /\ zeta' = [zeta EXCEPT ![p][s] = r2(kid)]
            /\ session_map' = [session_map EXCEPT ![p] = Remapped(@, s, z, kid)]
        BY <1>4 DEF ReceivedK1
    <2>2. r2(kid).cur.recv = z.cur.recv /\ r2(kid).nxt.recv = kid
        BY <1>1 DEF Session
    <2> HIDE DEF r2
    <2>3. QED BY <2>1, <2>2, RemapOwned
<1>5. QED BY <1>2, <1>3, <1>4

LEMMA KeepsOwned ==
    ASSUME IInv, NoLeakedKids, NEW p \in Peers, NEW s \in Slots, NEW y,
           zeta' = [zeta EXCEPT ![p][s] = y], session_map' = session_map,
           \/ y.cur.recv = zeta[p][s].cur.recv /\ y.nxt.recv = zeta[p][s].nxt.recv
           \/ y.cur.recv = zeta[p][s].nxt.recv /\ y.nxt.recv = zeta[p][s].cur.recv
    PROVE  NoLeakedKids'
<1>1. RecvKids(zeta[p][s]) \subseteq RecvKids(y)
    BY DEF RecvKids
<1>2. QED BY <1>1, SameKidsOwned

LEMMA SwitchesOwned ==
    ASSUME IInv, Inv, NoLeakedKids, NEW p \in Peers, NEW s \in Slots, NEW m \in net,
           \/ ReceivedX2(p, s, m) \/ ReceivedC1(p, s, m) \/ ReceivedC2(p, s, m) \/ ReceivedK2(p, s, m)
    PROVE  NoLeakedKids'
<1> DEFINE z == zeta[p][s]
<1>1. session_map' = session_map
    BY DEF ReceivedX2, ReceivedC1, ReceivedC2, ReceivedK2
<1>2. PICK y : zeta' = [zeta EXCEPT ![p][s] = y]
    <2>1. ReceivedC2(p, s, m) => zeta' = [zeta EXCEPT ![p][s] = [z EXCEPT !.beta = "S2"]]
        BY DEF ReceivedC2, IInv, TypeOK
    <2>2. QED BY <2>1 DEF ReceivedX2, ReceivedC1, ReceivedK2
<1>3. y = zeta'[p][s]
    BY <1>2, Written
<1>4. z.beta = "A1" => z.cur = NoKey
    BY SessionFacts DEF ShapeOf
<1>5. CASE ReceivedX2(p, s, m)
    <2>1. y.beta = "A3" /\ z.beta = "A1" /\ y.nxt.recv = z.nxt.recv
        <3>1. Completes(z, y, p, m)
            BY <1>3, <1>5, ReceivedX2Writes
        <3>2. QED BY <3>1 DEF Completes
    <2>2. y.cur = NoKey
        <3>1. SessionShape'
            BY <1>5, ReceivedX2Step DEF IInv
        <3>2. ShapeOf(y)
            BY <1>3, <3>1 DEF SessionShape
        <3>3. QED BY <2>1, <3>2 DEF ShapeOf
    <2>3. QED BY <1>1, <1>2, <1>4, <2>1, <2>2, KeepsOwned
<1>6. CASE ReceivedC1(p, s, m)
    <2>1. y.cur = z.nxt /\ y.nxt = z.cur
        BY <1>3, <1>6, ReceivedC1Writes DEF Confirms
    <2>2. QED BY <1>1, <1>2, <2>1, KeepsOwned
<1>7. CASE ReceivedC2(p, s, m)
    <2>1. y.cur = z.cur /\ y.nxt = z.nxt
        BY <1>3, <1>7, ReceivedC2Writes DEF Acknowledges
    <2>2. QED BY <1>1, <1>2, <2>1, KeepsOwned
<1>8. CASE ReceivedK2(p, s, m)
    <2>1. y.nxt = z.cur /\ y.cur.recv = z.nxt.recv
        <3>1. Switches(z, y, p, m)
            BY <1>3, <1>8, ReceivedK2Writes
        <3>2. QED BY <3>1 DEF Switches
    <2>2. QED BY <1>1, <1>2, <2>1, KeepsOwned
<1>9. QED BY <1>5, <1>6, <1>7, <1>8

LEMMA OwnedNext ==
    ASSUME ~StorageErrors, IInv, Inv, RInv, InMemory, NoLeakedKids, [Next]_vars
    PROVE  NoLeakedKids'
<1>1. CASE UNCHANGED vars
    BY <1>1 DEF vars, NoLeakedKids
<1>2. CASE Next
    <2>1. PICK p \in Peers : StepOf(p)
        BY <1>2, Steps
    <2>2. ASSUME NEW m \in net, ReceivedX1(p, m)
          PROVE  NoLeakedKids'
        BY <2>2 DEF ReceivedX1, NoLeakedKids
    <2>3. ASSUME NEW s \in Slots, Resend(p, s) \/ \E m \in net : AcknowledgedC1(p, s, m)
          PROVE  NoLeakedKids'
        BY <2>3 DEF Resend, AcknowledgedC1, NoLeakedKids
    <2>4. QED BY <2>1, <2>2, <2>3, OpenOwned, EndingsOwned, HandshakeOwned, RemapsOwned, SwitchesOwned
             DEF StepAt, StepOf
<1>3. QED BY <1>1, <1>2

\* A peer that has one session at a time, on storage that reports no errors, leaks no key id: the
\* comment "should be unreachable" in receive_payload_in_place is right there.  Two sessions with
\* the same peer compete for its ratchet states, and one whose storage has moved on is expired
\* after remap and before it has noted the new key id.
THEOREM NoLeakedKidsHolds ==
    ASSUME ~StorageErrors, OneSession
    PROVE  Spec => []NoLeakedKids
<1>1. Init => RInv /\ InMemory /\ NoLeakedKids
    <2>1. Init => RInv
        BY DEF Init, RInv, KidsRouted, KidsDistinct, RecvKids, NullSession, NoKey
    <2>2. Init => InMemory
        BY NullFacts DEF Init, InMemory, AtRest
    <2>3. Init => NoLeakedKids
        BY DEF Init, NoLeakedKids
    <2>4. QED BY <2>1, <2>2, <2>3
<1>2. IInv /\ Inv /\ RInv /\ InMemory /\ NoLeakedKids /\ [Next]_vars => RInv' /\ InMemory' /\ NoLeakedKids'
    BY RoutesNext, InMemoryNext, OwnedNext
<1>3. QED BY <1>1, <1>2, Invariance, PTL DEF Spec

-----------------------------------------------------------------------------
(* What the two peers have saved.  A ratchet state a peer remembers, or a packet of its mentions, *)
(* is one that it has saved before: that is what makes it safe for the other one to rely on it.   *)

\* What a handler's packet says of the session that sent it.
LEMMA Repeated ==
    ASSUME NEW p \in Peers, NEW z, NEW m \in ResendOf(p, z)
    PROVE  /\ m.dst = Remote(p) /\ m.type \in {"X1", "X3", "C1", "K1", "K2"}
           /\ m.type = "X1" => z.beta = "A1" /\ m.eph = z.eph /\ m.rf1 = z.ratchet_state1
           /\ m.type = "X3" => z.beta = "A3" /\ m.kex = z.nxt.kex
           /\ m.type = "C1" => z.beta = "S1" /\ m.kex = z.cur.kex
           /\ m.type = "K1" => m.psk = z.ratchet_state1
           /\ m.type = "K2" => z.beta = "R2" /\ m.eph = z.eph /\ m.newkex = z.nxt.kex
<1>1. CASE z.beta = "A1"
    BY <1>1 DEF ResendOf, X1
<1>2. CASE z.beta = "A3"
    BY <1>2 DEF ResendOf, X3
<1>3. CASE z.beta = "S1"
    BY <1>3 DEF ResendOf, Control
<1>4. CASE z.beta = "R1"
    BY <1>4 DEF ResendOf, K1
<1>5. CASE z.beta = "R2"
    BY <1>5 DEF ResendOf, K2
<1>6. CASE z.beta \notin {"A1", "A3", "S1", "R1", "R2"}
    BY <1>6 DEF ResendOf
<1>7. QED BY <1>1, <1>2, <1>3, <1>4, <1>5, <1>6

\* The packets a step may add: one its session repeats, C2, an answer to a Hello, or a rejection.
Replies(m, p, n) ==
    /\ ReceivedX1(p, n) /\ m.type = "X2" /\ m.dst = Remote(p) /\ m.eph = n.eph
    /\ m.psk = IF HelloRatchet(p, n) = None THEN Empty ELSE HelloRatchet(p, n)

Rejects(m, p, b) ==
    m.type = "D" /\ m.kex = b.kex /\ b2' = RemoveB2(p, b)

Sends(m) ==
    \/ \E p \in Peers, s \in Slots : m \in ResendOf(p, zeta'[p][s])
    \/ m.type = "C2"
    \/ \E p \in Peers, n \in net : Replies(m, p, n)
    \/ \E p \in Peers : \E b \in b2[p] : Rejects(m, p, b)

LEMMA Sent ==
    ASSUME IInv, Inv, Next, NEW m \in net', m \notin net
    PROVE  Sends(m)
<1>1. PICK p \in Peers : StepOf(p)
    BY Steps
<1>2. ASSUME NEW s \in Slots, m = X1(p, zeta'[p][s]), zeta'[p][s].beta = "A1"
      PROVE  Sends(m)
    BY <1>2 DEF Sends, ResendOf
<1>3. CASE Open(p)
    <2>1. PICK s \in Slots : /\ Begins(zeta'[p][s], fresh)
                             /\ net' = net \cup {X1(p, zeta'[p][s])}
        BY <1>3, OpenWrites
    <2>2. QED BY <1>2, <2>1 DEF Begins
<1>4. CASE Endings(p)
    <2>1. CASE \E n \in net : \E b \in b2[p] : RefusedX3(p, n, b) \/ DroppedX3(p, n, b)
        <3>1. PICK b \in b2[p] : b2' = RemoveB2(p, b) /\ (net' = net \/ MaybeReject(p, b))
            BY <2>1 DEF RefusedX3, DroppedX3
        <3>2. m = Control("D", p, [recv |-> b.kid_recv, send |-> b.kid_send, kex |-> b.kex])
            BY <3>1 DEF MaybeReject
        <3>3. Rejects(m, p, b)
            BY <3>1, <3>2 DEF Rejects, Control
        <3>4. QED BY <3>3 DEF Sends
    <2>2. CASE ~\E n \in net : \E b \in b2[p] : RefusedX3(p, n, b) \/ DroppedX3(p, n, b)
        <3>1. net' \subseteq net
            BY <1>4, <2>2 DEF Endings, ExpireB2, Restart, StaleC1, ReceivedD, FaultyK1, UnsavedK1,
                              FaultyK2, TimeoutExpire, Expire, Consume
        <3>2. QED BY <3>1
    <2>3. QED BY <2>1, <2>2
<1>5. ASSUME NEW n \in net, ReceivedX1(p, n)
      PROVE  Sends(m)
    <2> DEFINE r == IF HelloRatchet(p, n) = None THEN Empty ELSE HelloRatchet(p, n)
               b(kid) == [ratchet_state |-> r, kid_send |-> n.kid, kid_recv |-> kid,
                          eph |-> n.eph, kex |-> fresh + 1]
    <2>1. PICK kid : net' = net \cup {X2(p, b(kid))}
        BY <1>5 DEF ReceivedX1
    <2>2. m = X2(p, b(kid))
        BY <2>1
    <2>3. Replies(m, p, n)
        BY <1>5, <2>2 DEF Replies, X2
    <2>4. QED BY <2>3 DEF Sends
<1>6. ASSUME NEW n \in net, NEW b \in b2[p], ReceivedX3(p, n, b)
      PROVE  Sends(m)
    <2>1. PICK s \in Slots : /\ Accepts(zeta'[p][s], n, b)
                             /\ net' = net \cup {Control("C1", p, zeta'[p][s].cur)}
        BY <1>6, ReceivedX3Writes
    <2>2. zeta'[p][s].beta = "S1" /\ m = Control("C1", p, zeta'[p][s].cur)
        BY <2>1 DEF Accepts
    <2>3. QED BY <2>2 DEF Sends, ResendOf
<1>7. ASSUME NEW s \in Slots, zeta[p][s].beta \in {"A1", "A3"}, RestartHandshake(p, s)
      PROVE  Sends(m)
    BY <1>2, <1>7, RestartHandshakeWrites DEF Begins
<1>8. ASSUME NEW s \in Slots, NEW n \in net, ReceivedX2(p, s, n)
      PROVE  Sends(m)
    <2>1. Completes(zeta[p][s], zeta'[p][s], p, n) /\ net' = net \cup {X3(p, zeta'[p][s])}
        BY <1>8, ReceivedX2Writes
    <2>2. zeta'[p][s].beta = "A3" /\ m = X3(p, zeta'[p][s])
        BY <2>1 DEF Completes
    <2>3. QED BY <2>2 DEF Sends, ResendOf
<1>9. ASSUME NEW s \in Slots, NEW n \in net,
             ReceivedC1(p, s, n) \/ ReceivedC2(p, s, n) \/ AcknowledgedC1(p, s, n)
      PROVE  Sends(m)
    <2>1. m.type = "C2"
        BY <1>9 DEF ReceivedC1, ReceivedC2, AcknowledgedC1, Consume, Control
    <2>2. QED BY <2>1 DEF Sends
<1>10. ASSUME NEW s \in Slots, NEW n \in net, ReceivedK1(p, s, n)
       PROVE  Sends(m)
    <2>1. Answers(zeta[p][s], zeta'[p][s], p, n, fresh) /\ net' = (net \ {n}) \cup {K2(p, zeta'[p][s])}
        BY <1>10, ReceivedK1Writes
    <2>2. zeta'[p][s].beta = "R2" /\ m = K2(p, zeta'[p][s])
        BY <2>1 DEF Answers
    <2>3. QED BY <2>2 DEF Sends, ResendOf
<1>11. ASSUME NEW s \in Slots, NEW n \in net, ReceivedK2(p, s, n)
       PROVE  Sends(m)
    <2>1. /\ Switches(zeta[p][s], zeta'[p][s], p, n)
          /\ net' = (net \ {n}) \cup {Control("C1", p, zeta'[p][s].cur)}
        BY <1>11, ReceivedK2Writes
    <2>2. zeta'[p][s].beta = "S1" /\ m = Control("C1", p, zeta'[p][s].cur)
        BY <2>1 DEF Switches
    <2>3. QED BY <2>2 DEF Sends, ResendOf
<1>12. ASSUME NEW s \in Slots, TimeoutRekey(p, s)
       PROVE  Sends(m)
    <2>1. Proposes(zeta[p][s], zeta'[p][s], fresh) /\ net' = net \cup {K1(p, zeta'[p][s])}
        BY <1>12, TimeoutRekeyWrites
    <2>2. zeta'[p][s].beta = "R1" /\ m = K1(p, zeta'[p][s])
        BY <2>1 DEF Proposes
    <2>3. QED BY <2>2 DEF Sends, ResendOf
<1>13. ASSUME NEW s \in Slots, Resend(p, s)
       PROVE  Sends(m)
    BY <1>13 DEF Resend, Sends
<1>14. QED BY <1>1, <1>3, <1>4, <1>5, <1>6, <1>7, <1>8, <1>9, <1>10, <1>11, <1>12, <1>13 DEF StepAt, StepOf

\* The ratchet states in memory, in storage and in packets.
MemorySaved ==
    \A p \in Peers, s \in Slots : /\ zeta[p][s].ratchet_state1 \in saved[p]
                                  /\ zeta[p][s].ratchet_state2 \in saved[p] \cup {None}

StoreSaved ==
    \A p \in Peers : /\ Empty \in saved[p] /\ store[p].state1 \in saved[p]
                     /\ store[p].state2 \in saved[p] \cup {None}

PacketSaved(m, S) ==
    /\ m.type = "X2" => m.psk \in S
    /\ m.type = "X3" => m.kex \in S
    /\ m.type = "C1" => m.kex \in S
    /\ m.type = "K1" => m.psk \in S
    /\ m.type = "K2" => m.newkex \in S

NetSaved == \A m \in net : PacketSaved(m, saved[Remote(m.dst)])

SavedInv == MemorySaved /\ StoreSaved /\ NetSaved /\ KeepsPeersRatchet

\* Where the ratchet states of a session come from.
Inherits(q, z, y) ==
    /\ y.ratchet_state1 \in {z.ratchet_state1, store[q].state1, store'[q].state1, Empty}
    /\ y.ratchet_state2 \in {z.ratchet_state1, z.ratchet_state2, store[q].state2, None}

LEMMA Inherited ==
    ASSUME IInv, Inv, Next, NEW q \in Peers, NEW t \in Slots
    PROVE  Inherits(q, zeta[q][t], zeta'[q][t])
<1>1. PICK p \in Peers : StepOf(p)
    BY Steps
<1>2. DOMAIN store = Peers
    BY DEF IInv, TypeOK
<1>3. Inherits(q, zeta[q][t], zeta[q][t]) /\ Inherits(q, zeta[q][t], NullSession)
    BY DEF Inherits, NullSession
<1>4. ASSUME NEW s \in Slots, Differ(zeta, zeta', p, s), Inherits(p, zeta[p][s], zeta'[p][s])
      PROVE  Inherits(q, zeta[q][t], zeta'[q][t])
    BY <1>3, <1>4 DEF Differ
<1>5. CASE Open(p)
    <2>1. PICK s \in Slots : /\ Differ(zeta, zeta', p, s)
                             /\ zeta'[p][s].ratchet_state1 = store[p].state1
                             /\ zeta'[p][s].ratchet_state2 = store[p].state2
        BY <1>5, OpenRatchets
    <2>2. QED BY <1>4, <2>1 DEF Inherits
<1>6. CASE Endings(p)
    BY <1>3, <1>6, EndingsEnd DEF EndsOnly
<1>7. ASSUME NEW m \in net, ReceivedX1(p, m)
      PROVE  Inherits(q, zeta[q][t], zeta'[q][t])
    BY <1>3, <1>7 DEF ReceivedX1
<1>8. ASSUME NEW m \in net, NEW b \in b2[p], ReceivedX3(p, m, b)
      PROVE  Inherits(q, zeta[q][t], zeta'[q][t])
    <2>1. PICK s \in Slots :
            /\ zeta'[p][s].ratchet_state1 = b.kex /\ zeta'[p][s].ratchet_state2 = None
            /\ \A u \in Slots \ {s} : zeta'[p][u] = NullSession
            /\ zeta'[Remote(p)] = zeta[Remote(p)]
            /\ store' = [store EXCEPT ![p] = States(b.kex, None)]
        BY <1>8, ReceivedX3Ratchets
    <2>2. store'[p].state1 = b.kex
        BY <1>2, <2>1 DEF States
    <2>3. CASE q = p
        BY <1>3, <2>1, <2>2, <2>3 DEF Inherits
    <2>4. CASE q # p
        <3>1. q = Remote(p)
            BY <2>4 DEF Peers, Remote
        <3>2. QED BY <1>3, <2>1, <3>1
    <2>5. QED BY <2>3, <2>4
<1>9. ASSUME NEW s \in Slots, zeta[p][s].beta \in {"A1", "A3"}, RestartHandshake(p, s)
      PROVE  Inherits(q, zeta[q][t], zeta'[q][t])
    <2>1. Differ(zeta, zeta', p, s)
        BY <1>9, RestartHandshakeWrites
    <2>2. QED BY <1>4, <1>9, <2>1, RestartHandshakeRatchets DEF Inherits
<1>10. ASSUME NEW s \in Slots, NEW m \in net, ReceivedX2(p, s, m)
       PROVE  Inherits(q, zeta[q][t], zeta'[q][t])
    <2>1. Differ(zeta, zeta', p, s)
        BY <1>10, ReceivedX2Writes
    <2>2. /\ zeta'[p][s].ratchet_state1 = m.kex /\ zeta'[p][s].ratchet_state2 = zeta[p][s].ratchet_state1
          /\ store' = [store EXCEPT ![p] = States(m.kex, RatchetToPreserve(zeta[p][s], m))]
        BY <1>10, ReceivedX2Ratchets
    <2>3. store'[p].state1 = m.kex
        BY <1>2, <2>2 DEF States
    <2>4. QED BY <1>4, <2>1, <2>2, <2>3 DEF Inherits
<1>11. ASSUME NEW s \in Slots, NEW m \in net, ReceivedC1(p, s, m)
       PROVE  Inherits(q, zeta[q][t], zeta'[q][t])
    <2>1. Differ(zeta, zeta', p, s)
        BY <1>11, ReceivedC1Writes
    <2>2. QED BY <1>4, <1>11, <2>1, ReceivedC1Ratchets DEF Inherits
<1>12. ASSUME NEW s \in Slots, NEW m \in net, ReceivedC2(p, s, m)
       PROVE  Inherits(q, zeta[q][t], zeta'[q][t])
    <2>1. Differ(zeta, zeta', p, s)
        BY <1>12, ReceivedC2Writes
    <2>2. QED BY <1>4, <1>12, <2>1, ReceivedC2Ratchets DEF Inherits
<1>13. ASSUME NEW s \in Slots, NEW m \in net, ReceivedK1(p, s, m)
       PROVE  Inherits(q, zeta[q][t], zeta'[q][t])
    <2>1. Differ(zeta, zeta', p, s)
        BY <1>13, ReceivedK1Writes
    <2>2. /\ zeta'[p][s].ratchet_state1 = fresh + 1 /\ zeta'[p][s].ratchet_state2 = zeta[p][s].ratchet_state1
          /\ store' = [store EXCEPT ![p] = States(fresh + 1, zeta[p][s].ratchet_state1)]
        BY <1>13, ReceivedK1Ratchets
    <2>3. store'[p].state1 = fresh + 1
        BY <1>2, <2>2 DEF States
    <2>4. QED BY <1>4, <2>1, <2>2, <2>3 DEF Inherits
<1>14. ASSUME NEW s \in Slots, NEW m \in net, ReceivedK2(p, s, m)
       PROVE  Inherits(q, zeta[q][t], zeta'[q][t])
    <2>1. Differ(zeta, zeta', p, s)
        BY <1>14, ReceivedK2Writes
    <2>2. /\ zeta'[p][s].ratchet_state1 = m.newkex /\ zeta'[p][s].ratchet_state2 = None
          /\ store' = [store EXCEPT ![p] = States(m.newkex, None)]
        BY <1>14, ReceivedK2Ratchets
    <2>3. store'[p].state1 = m.newkex
        BY <1>2, <2>2 DEF States
    <2>4. QED BY <1>4, <2>1, <2>2, <2>3 DEF Inherits
<1>15. ASSUME NEW s \in Slots, TimeoutRekey(p, s)
       PROVE  Inherits(q, zeta[q][t], zeta'[q][t])
    <2>1. Differ(zeta, zeta', p, s)
        BY <1>15, TimeoutRekeyWrites
    <2>2. QED BY <1>4, <1>15, <2>1, TimeoutRekeyRatchets DEF Inherits
<1>16. ASSUME NEW s \in Slots, Resend(p, s) \/ \E m \in net : AcknowledgedC1(p, s, m)
       PROVE  Inherits(q, zeta[q][t], zeta'[q][t])
    BY <1>3, <1>16 DEF Resend, AcknowledgedC1
<1>17. QED BY <1>1, <1>5, <1>6, <1>7, <1>8, <1>9, <1>10, <1>11, <1>12, <1>13, <1>14, <1>15, <1>16 DEF StepAt, StepOf

\* A save leaves one state in storage that the packet which caused it shows the other peer to have.
HasOf(states, S) == \E r \in {states.state1, states.state2} \ {None} : r \in S

LEMMA SavesShared ==
    ASSUME IInv, Inv, NetSaved, Next, InitiatorDisallowsDowngrade, NEW q \in Peers, store'[q] # store[q]
    PROVE  HasOf(store'[q], saved[Remote(q)])
<1>1. PICK p \in Peers : StepOf(p)
    BY Steps
<1>2. DOMAIN store = Peers /\ \A m \in net : m \in Packet
    BY DEF IInv, TypeOK
<1>3. ASSUME NEW r1, NEW r2, store' = [store EXCEPT ![p] = States(r1, r2)],
             (r1 # None /\ r1 \in saved[Remote(p)]) \/ (r2 # None /\ r2 \in saved[Remote(p)])
      PROVE  HasOf(store'[q], saved[Remote(q)])
    <2>1. q = p /\ store'[p] = States(r1, r2)
        BY <1>2, <1>3
    <2>2. store'[p].state1 = r1 /\ store'[p].state2 = r2
        BY <2>1 DEF States
    <2>3. QED BY <1>3, <2>1, <2>2 DEF HasOf
<1>4. ASSUME NEW m \in net
      PROVE  PacketSaved(m, saved[Remote(m.dst)])
    BY DEF NetSaved
<1>5. ASSUME NEW s \in Slots, NEW m \in net, ReceivedX2(p, s, m)
      PROVE  HasOf(store'[q], saved[Remote(q)])
    <2>1. /\ store' = [store EXCEPT ![p] = States(m.kex, RatchetToPreserve(zeta[p][s], m))]
          /\ RatchetI(zeta[p][s], m) # 0
        BY <1>5, ReceivedX2Ratchets
    <2>2. m.type = "X2" /\ m.dst = p
        BY <1>5 DEF ReceivedX2, AwaitsX2, Routed
    <2>3. m.psk # None /\ m.psk \in saved[Remote(p)]
        BY <1>2, <1>4, <2>2, PacketFields DEF PacketSaved, Ratchets
    <2>4. RatchetToPreserve(zeta[p][s], m) = m.psk
        BY <2>1 DEF RatchetToPreserve, RatchetI
    <2>5. QED BY <1>3, <2>1, <2>3, <2>4
<1>6. ASSUME NEW m \in net, NEW b \in b2[p], ReceivedX3(p, m, b)
      PROVE  HasOf(store'[q], saved[Remote(q)])
    <2>1. /\ store' = [store EXCEPT ![p] = States(b.kex, None)]
          /\ m.type = "X3" /\ m.dst = p /\ m.kex = b.kex
        BY <1>6 DEF ReceivedX3, HandshakeOfX3
    <2>2. m.kex # None /\ m.kex \in saved[Remote(p)]
        BY <1>2, <1>4, <2>1, PacketFields DEF PacketSaved, Secrets
    <2>3. QED BY <1>3, <2>1, <2>2
<1>7. ASSUME NEW s \in Slots, NEW m \in net, ReceivedC1(p, s, m)
      PROVE  HasOf(store'[q], saved[Remote(q)])
    <2>1. store' = [store EXCEPT ![p] = States(zeta[p][s].ratchet_state1, None)]
        BY <1>7, ReceivedC1Ratchets
    <2>2. m.type = "C1" /\ m.dst = p /\ m.kex = zeta[p][s].nxt.kex /\ zeta[p][s].beta \in {"A3", "R2"}
        BY <1>7 DEF ReceivedC1, ConfirmsKey, Routed
    <2>3. zeta[p][s].nxt.kex = zeta[p][s].ratchet_state1
        BY <2>2, SessionFacts DEF ShapeOf
    <2>4. m.kex # None /\ m.kex \in saved[Remote(p)]
        BY <1>2, <1>4, <2>2, PacketFields DEF PacketSaved, Secrets
    <2>5. QED BY <1>3, <2>1, <2>2, <2>3, <2>4
<1>8. ASSUME NEW s \in Slots, NEW m \in net, ReceivedK1(p, s, m)
      PROVE  HasOf(store'[q], saved[Remote(q)])
    <2>1. /\ store' = [store EXCEPT ![p] = States(fresh + 1, zeta[p][s].ratchet_state1)]
          /\ m.psk = zeta[p][s].ratchet_state1
        BY <1>8, ReceivedK1Ratchets
    <2>2. m.type = "K1" /\ m.dst = p
        BY <1>8 DEF ReceivedK1, AnswersK1, Routed
    <2>3. m.psk # None /\ m.psk \in saved[Remote(p)]
        BY <1>2, <1>4, <2>2, PacketFields DEF PacketSaved, Ratchets
    <2>4. QED BY <1>3, <2>1, <2>3
<1>9. ASSUME NEW s \in Slots, NEW m \in net, ReceivedK2(p, s, m)
      PROVE  HasOf(store'[q], saved[Remote(q)])
    <2>1. store' = [store EXCEPT ![p] = States(m.newkex, None)]
        BY <1>9, ReceivedK2Ratchets
    <2>2. m.type = "K2" /\ m.dst = p
        BY <1>9 DEF ReceivedK2, AwaitsK2, Routed
    <2>3. m.newkex # None /\ m.newkex \in saved[Remote(p)]
        BY <1>2, <1>4, <2>2, PacketFields DEF PacketSaved, Secrets
    <2>4. QED BY <1>3, <2>1, <2>3
<1>10. QED BY <1>1, <1>5, <1>6, <1>7, <1>8, <1>9, StoreKept DEF StepOf, StepAt

\* What a step adds to the history.
LEMMA History ==
    ASSUME StorageNext, NEW p \in Peers
    PROVE  saved'[p] = saved[p] \cup Held(p)' /\ saved[p] \subseteq saved'[p]
BY DEF StorageNext

LEMMA StoreSavedNext ==
    ASSUME IInv', StoreSaved, StorageNext
    PROVE  StoreSaved'
<1>1. ASSUME NEW p \in Peers
      PROVE  /\ Empty \in saved'[p] /\ store'[p].state1 \in saved'[p]
             /\ store'[p].state2 \in saved'[p] \cup {None}
    <2>1. store'[p].state1 # None
        <3>1. store'[p] \in RatchetStates
            BY DEF IInv, TypeOK
        <3>2. QED BY <3>1 DEF RatchetStates, Ratchets
    <2>2. Held(p)' = {store'[p].state1, store'[p].state2} \ {None}
        BY DEF Held
    <2>3. QED BY <2>1, <2>2, History DEF StoreSaved
<1>2. QED BY <1>1 DEF StoreSaved

LEMMA MemorySavedNext ==
    ASSUME IInv, Inv, MemorySaved, StoreSaved, StoreSaved', StorageNext
    PROVE  MemorySaved'
<1>1. ASSUME NEW p \in Peers, NEW s \in Slots
      PROVE  /\ zeta'[p][s].ratchet_state1 \in saved'[p]
             /\ zeta'[p][s].ratchet_state2 \in saved'[p] \cup {None}
    <2>1. Inherits(p, zeta[p][s], zeta'[p][s])
        BY Inherited DEF StorageNext
    <2>2. zeta[p][s].ratchet_state1 \in saved[p] /\ zeta[p][s].ratchet_state2 \in saved[p] \cup {None}
        BY DEF MemorySaved
    <2>3. /\ Empty \in saved[p] /\ store[p].state1 \in saved[p] /\ store[p].state2 \in saved[p] \cup {None}
          /\ store'[p].state1 \in saved'[p]
        BY DEF StoreSaved
    <2>4. saved[p] \subseteq saved'[p]
        BY History
    <2>5. QED BY <2>1, <2>2, <2>3, <2>4 DEF Inherits
<1>2. QED BY <1>1 DEF MemorySaved

LEMMA NetSavedNext ==
    ASSUME IInv, Inv, IInv', StoreSaved, NetSaved, MemorySaved', StorageNext
    PROVE  NetSaved'
<1>1. ASSUME NEW m \in net'
      PROVE  PacketSaved(m, saved'[Remote(m.dst)])
    <2>1. m \in Packet /\ m.dst \in Peers /\ Remote(m.dst) \in Peers
        BY PacketFields, RemoteFacts DEF IInv, TypeOK
    <2>2. CASE m \in net
        <3>1. PacketSaved(m, saved[Remote(m.dst)])
            BY <2>2 DEF NetSaved
        <3>2. saved[Remote(m.dst)] \subseteq saved'[Remote(m.dst)]
            BY <2>1, History
        <3>3. QED BY <3>1, <3>2 DEF PacketSaved
    <2>3. CASE m \notin net
        <3>1. Sends(m)
            BY <2>3, Sent DEF StorageNext
        <3>2. ASSUME NEW p \in Peers, NEW s \in Slots, m \in ResendOf(p, zeta'[p][s])
              PROVE  PacketSaved(m, saved'[Remote(m.dst)])
            <4> DEFINE z == zeta'[p][s]
            <4>1. /\ m.dst = Remote(p) /\ m.type \in {"X1", "X3", "C1", "K1", "K2"}
                  /\ m.type = "X3" => z.beta = "A3" /\ m.kex = z.nxt.kex
                  /\ m.type = "C1" => z.beta = "S1" /\ m.kex = z.cur.kex
                  /\ m.type = "K1" => m.psk = z.ratchet_state1
                  /\ m.type = "K2" => z.beta = "R2" /\ m.newkex = z.nxt.kex
                BY <3>2, Repeated
            <4>2. ShapeOf(z) /\ z.ratchet_state1 \in saved'[p]
                BY DEF IInv, SessionShape, MemorySaved
            <4>3. Remote(m.dst) = p
                BY <4>1, RemoteFacts
            <4> HIDE DEF z
            <4>4. QED BY <4>1, <4>2, <4>3 DEF PacketSaved, ShapeOf
        <3>3. CASE m.type = "C2"
            BY <3>3 DEF PacketSaved
        <3>4. ASSUME NEW p \in Peers, NEW n \in net, Replies(m, p, n)
              PROVE  PacketSaved(m, saved'[Remote(m.dst)])
            <4>1. m.type = "X2" /\ Remote(m.dst) = p
                BY <3>4, RemoteFacts DEF Replies
            <4>2. m.psk \in saved[p]
                <5>1. HelloRatchet(p, n) \in {store[p].state1, store[p].state2, None}
                    BY DEF HelloRatchet, RestoreByFingerprint
                <5>2. m.psk = Empty \/ (m.psk = HelloRatchet(p, n) /\ m.psk # None)
                    BY <3>4 DEF Replies
                <5>3. QED BY <5>1, <5>2 DEF StoreSaved
            <4>3. QED BY <4>1, <4>2, History DEF PacketSaved
        <3>5. CASE m.type = "D"
            BY <3>5 DEF PacketSaved
        <3>6. QED BY <3>1, <3>2, <3>3, <3>4, <3>5 DEF Sends, Rejects
    <2>4. QED BY <2>2, <2>3
<1>2. QED BY <1>1 DEF NetSaved

LEMMA KeepsNext ==
    ASSUME IInv, Inv, NetSaved, KeepsPeersRatchet, StorageNext
    PROVE  KeepsPeersRatchet'
<1> SUFFICES ASSUME InitiatorDisallowsDowngrade, NEW p \in Peers
             PROVE  HasOf(store'[p], saved'[Remote(p)])
    BY DEF KeepsPeersRatchet, Held, HasOf
<1>1. saved[Remote(p)] \subseteq saved'[Remote(p)]
    BY RemoteFacts, History
<1>2. HasOf(store'[p], saved[Remote(p)])
    <2>1. CASE store'[p] = store[p]
        BY <2>1 DEF KeepsPeersRatchet, Held, HasOf
    <2>2. CASE store'[p] # store[p]
        BY <2>2, SavesShared DEF StorageNext
    <2>3. QED BY <2>1, <2>2
<1>3. QED BY <1>1, <1>2 DEF HasOf

LEMMA SavedInit == StorageInit => SavedInv
<1> SUFFICES ASSUME StorageInit PROVE SavedInv
    OBVIOUS
<1>1. \A p \in Peers : saved[p] = {Empty} /\ store[p] = States(Empty, None) /\ Remote(p) \in Peers
    BY RemoteFacts DEF StorageInit, Init
<1>2. \A p \in Peers, s \in Slots : zeta[p][s] = NullSession
    BY DEF StorageInit, Init
<1>3. MemorySaved
    BY <1>1, <1>2 DEF MemorySaved, NullSession
<1>4. StoreSaved
    BY <1>1 DEF StoreSaved, States
<1>5. NetSaved
    BY DEF NetSaved, StorageInit, Init
<1>6. KeepsPeersRatchet
    BY <1>1 DEF KeepsPeersRatchet, Held, States, Empty
<1>7. QED BY <1>3, <1>4, <1>5, <1>6 DEF SavedInv

\* However restarts, early timeouts, competing handshakes and failing saves interleave, each peer's
\* storage holds a ratchet state that the other one has saved, unless a downgrade is allowed: no
\* handler replaces the last of them by states the other peer may never have derived.
THEOREM KeepsPeersRatchetHolds == StorageSpec => []KeepsPeersRatchet
<1>1. StorageSpec => Spec
    <2>1. StorageInit => Init
        BY DEF StorageInit
    <2>2. [StorageNext]_storageVars => [Next]_vars
        BY DEF StorageNext, storageVars
    <2>3. QED BY <2>1, <2>2, PTL DEF StorageSpec, Spec
<1>2. IInv /\ Inv /\ IInv' /\ SavedInv /\ [StorageNext]_storageVars => SavedInv'
    <2>1. CASE StorageNext
        BY <2>1, StoreSavedNext, MemorySavedNext, NetSavedNext, KeepsNext DEF SavedInv
    <2>2. CASE UNCHANGED storageVars
        BY <2>2 DEF storageVars, vars, SavedInv, MemorySaved, StoreSaved, NetSaved, KeepsPeersRatchet, Held
    <2>3. QED BY <2>1, <2>2
<1>3. SavedInv => KeepsPeersRatchet
    BY DEF SavedInv
<1>4. QED BY <1>1, <1>2, <1>3, SavedInit, Invariance, PTL DEF StorageSpec

-----------------------------------------------------------------------------
(* Zeta implements KeyAgreement *)

\* SessionOf, KeyOf and PendingOf for any sessions Z.
SessionIn(Z, p, o) ==
    IF \E s \in Slots : Live(Z[p][s]) /\ Z[p][s].origin = o
    THEN Z[p][CHOOSE s \in Slots : Live(Z[p][s]) /\ Z[p][s].origin = o]
    ELSE NullSession
KeyIn(Z, p, o) == SessionIn(Z, p, o).cur.kex
PendingIn(Z, p, o) ==
    IF SessionIn(Z, p, o).beta \in {"A3", "R2"} THEN SessionIn(Z, p, o).nxt.kex ELSE None

\* The session that handshake o established is the only one of its origin.
LEMMA Found ==
    ASSUME NEW Z, NEW N, NEW B, NEW F, AInv(Z, N, B, F), NEW p \in Peers, NEW s \in Slots,
           NEW o \in Secrets, Z[p][s].origin = o
    PROVE  /\ KeyIn(Z, p, o) = Z[p][s].cur.kex
           /\ PendingIn(Z, p, o) = IF Pends(Z[p][s]) THEN Z[p][s].nxt.kex ELSE None
<1>1. o # None
    BY DEF Secrets
<1>2. Live(Z[p][s])
    BY <1>1 DEF AInv, Roles, Live
<1>3. \A t \in Slots : Live(Z[p][t]) /\ Z[p][t].origin = o => t = s
    BY <1>1 DEF AInv, KeysUnique
<1>4. SessionIn(Z, p, o) = Z[p][s]
    <2> DEFINE P(t) == Live(Z[p][t]) /\ Z[p][t].origin = o
    <2>1. P(s) /\ \A t \in Slots : P(t) => t = s
        BY <1>2, <1>3
    <2> HIDE DEF P
    <2>2. (CHOOSE t \in Slots : P(t)) = s
        BY <2>1
    <2>3. QED BY <2>1, <2>2 DEF SessionIn, P
<1>5. QED BY <1>4 DEF KeyIn, PendingIn, Pends

LEMMA NotFound ==
    ASSUME NEW Z, NEW p \in Peers, NEW o \in Secrets, \A s \in Slots : Z[p][s].origin # o
    PROVE  KeyIn(Z, p, o) = None /\ PendingIn(Z, p, o) = None
<1>1. SessionIn(Z, p, o) = NullSession
    BY DEF SessionIn
<1>2. QED BY <1>1, NullFacts DEF KeyIn, PendingIn

\* The actions of KeyAgreement for any two sets of sessions.
IsAbsent(Z, p, o) == KeyIn(Z, p, o) = None /\ PendingIn(Z, p, o) = None
IsNewer(Z, p, o, k) == KeyIn(Z, p, o) = None \/ k > KeyIn(Z, p, o)
StaysIn(Z, Y, p, o) == KeyIn(Y, p, o) = KeyIn(Z, p, o) /\ PendingIn(Y, p, o) = PendingIn(Z, p, o)
LeavesIn(Y, p, o) == KeyIn(Y, p, o) = None /\ PendingIn(Y, p, o) = None

OffersIn(Z, Y, p, o, k) ==
    /\ IsAbsent(Z, Remote(p), o) \/ (KeyIn(Z, Remote(p), o) = KeyIn(Z, p, o)
                                     /\ PendingIn(Z, Remote(p), o) = None)
    /\ PendingIn(Z, p, o) = None /\ IsNewer(Z, p, o, k)
    /\ PendingIn(Y, p, o) = k /\ KeyIn(Y, p, o) = KeyIn(Z, p, o)

AdoptsIn(Z, Y, p, o, k) ==
    /\ IsAbsent(Z, Remote(p), o) \/ PendingIn(Z, Remote(p), o) = k
    /\ PendingIn(Z, p, o) = None /\ IsNewer(Z, p, o, k)
    /\ KeyIn(Y, p, o) = k /\ PendingIn(Y, p, o) = None

FollowsIn(Z, Y, p, o) ==
    /\ PendingIn(Z, p, o) # None
    /\ IsAbsent(Z, Remote(p), o) \/ KeyIn(Z, Remote(p), o) = PendingIn(Z, p, o)
    /\ KeyIn(Y, p, o) = PendingIn(Z, p, o) /\ PendingIn(Y, p, o) = None

MovesIn(Z, Y, p, o) ==
    \/ StaysIn(Z, Y, p, o) \/ FollowsIn(Z, Y, p, o) \/ LeavesIn(Y, p, o)
    \/ \E k \in Secrets : OffersIn(Z, Y, p, o, k) \/ AdoptsIn(Z, Y, p, o, k)

LEMMA Mapped ==
    ASSUME NEW o \in Secrets, NEW p \in Peers
    PROVE  /\ KeyOf(o, p) = KeyIn(zeta, p, o) /\ PendingOf(o, p) = PendingIn(zeta, p, o)
           /\ KeyOf(o, p)' = KeyIn(zeta', p, o) /\ PendingOf(o, p)' = PendingIn(zeta', p, o)
BY DEF KeyOf, PendingOf, SessionOf, KeyIn, PendingIn, SessionIn

LEMMA OtherRemote ==
    ASSUME NEW p \in Peers
    PROVE  Agreement!Other(p) = Remote(p)
<1>1. Remote(p) \in Peers /\ Remote(p) # p /\ \A q \in Peers : q # p => q = Remote(p)
    BY RemoteFacts
<1>2. QED BY <1>1 DEF Agreement!Other

\* The peer that acts moves every one of its sessions as KeyAgreement says; the other is still.
LEMMA Mapping ==
    ASSUME NEW p \in Peers, zeta'[Remote(p)] = zeta[Remote(p)],
           \A o \in Secrets : MovesIn(zeta, zeta', p, o)
    PROVE  Agreement!AgreementNext
<1> SUFFICES ASSUME NEW o \in Secrets
             PROVE  /\ Agreement!Stays(o, Agreement!Other(p))
                    /\ \/ Agreement!Stays(o, p) \/ Agreement!Follow(o, p) \/ Agreement!Leave(o, p)
                       \/ \E k \in Secrets : Agreement!Offer(o, p, k) \/ Agreement!Adopt(o, p, k)
    BY DEF Agreement!AgreementNext
<1>1. Agreement!Other(p) = Remote(p) /\ Remote(p) \in Peers
    BY OtherRemote, RemoteFacts
<1>2. Agreement!Stays(o, Agreement!Other(p))
    <2>1. SessionIn(zeta', Remote(p), o) = SessionIn(zeta, Remote(p), o)
        BY DEF SessionIn
    <2>2. QED BY <1>1, <2>1, Mapped DEF Agreement!Stays, KeyIn, PendingIn
<1>3. CASE StaysIn(zeta, zeta', p, o)
    BY <1>2, <1>3, Mapped DEF Agreement!Stays, StaysIn
<1>4. CASE LeavesIn(zeta', p, o)
    BY <1>2, <1>4, Mapped DEF Agreement!Leave, LeavesIn
<1>5. CASE FollowsIn(zeta, zeta', p, o)
    BY <1>1, <1>2, <1>5, Mapped DEF Agreement!Follow, Agreement!Absent, FollowsIn, IsAbsent
<1>6. ASSUME NEW k \in Secrets, OffersIn(zeta, zeta', p, o, k)
      PROVE  Agreement!Offer(o, p, k)
    BY <1>1, <1>6, Mapped DEF Agreement!Offer, Agreement!Absent, Agreement!Newer, OffersIn, IsAbsent, IsNewer
<1>7. ASSUME NEW k \in Secrets, AdoptsIn(zeta, zeta', p, o, k)
      PROVE  Agreement!Adopt(o, p, k)
    BY <1>1, <1>7, Mapped DEF Agreement!Adopt, Agreement!Absent, Agreement!Newer, AdoptsIn, IsAbsent, IsNewer
<1>8. QED BY <1>2, <1>3, <1>4, <1>5, <1>6, <1>7 DEF MovesIn

\* The handshakes that did not establish the session which changes are not concerned.
LEMMA Elsewhere ==
    ASSUME NEW Z, NEW N, NEW B, NEW F, AInv(Z, N, B, F),
           NEW Y, NEW M, NEW C, NEW G, AInv(Y, M, C, G),
           NEW p \in Peers, NEW s \in Slots, Differ(Z, Y, p, s), NEW o \in Secrets,
           Z[p][s].origin # o, Y[p][s].origin # o
    PROVE  MovesIn(Z, Y, p, o)
<1>1. ASSUME NEW t \in Slots, Z[p][t].origin = o
      PROVE  StaysIn(Z, Y, p, o)
    <2>1. Y[p][t] = Z[p][t]
        BY <1>1 DEF Differ
    <2>2. KeyIn(Z, p, o) = Z[p][t].cur.kex
          /\ PendingIn(Z, p, o) = IF Pends(Z[p][t]) THEN Z[p][t].nxt.kex ELSE None
        BY <1>1, Found
    <2>3. KeyIn(Y, p, o) = Y[p][t].cur.kex
          /\ PendingIn(Y, p, o) = IF Pends(Y[p][t]) THEN Y[p][t].nxt.kex ELSE None
        BY <1>1, <2>1, Found
    <2>4. QED BY <2>1, <2>2, <2>3 DEF StaysIn
<1>2. CASE \A t \in Slots : Z[p][t].origin # o
    <2>1. \A t \in Slots : Y[p][t].origin # o
        BY <1>2 DEF Differ
    <2>2. QED BY <1>2, <2>1, NotFound DEF StaysIn, MovesIn
<1>3. QED BY <1>1, <1>2 DEF MovesIn

\* Sessions that keep their origin and keys.
LEMMA QuietMoves ==
    ASSUME NEW Z, NEW N, NEW B, NEW F, AInv(Z, N, B, F),
           NEW Y, NEW M, NEW C, NEW G, AInv(Y, M, C, G),
           NEW p \in Peers, NEW s \in Slots, Differ(Z, Y, p, s), NEW o \in Secrets,
           Y[p][s].origin = Z[p][s].origin, Y[p][s].cur.kex = Z[p][s].cur.kex,
           ~Pends(Y[p][s]), ~Pends(Z[p][s])
    PROVE  MovesIn(Z, Y, p, o)
<1>1. CASE Z[p][s].origin # o
    BY <1>1, Elsewhere
<1>2. CASE Z[p][s].origin = o
    <2>1. KeyIn(Z, p, o) = Z[p][s].cur.kex /\ PendingIn(Z, p, o) = None
        BY <1>2, Found
    <2>2. KeyIn(Y, p, o) = Y[p][s].cur.kex /\ PendingIn(Y, p, o) = None
        BY <1>2, Found
    <2>3. QED BY <2>1, <2>2 DEF StaysIn, MovesIn
<1>3. QED BY <1>1, <1>2

\* Sessions of peer p that end or stay as they are.
LEMMA EndMoves ==
    ASSUME NEW Z, NEW N, NEW B, NEW F, AInv(Z, N, B, F),
           NEW Y, NEW M, NEW C, NEW G, AInv(Y, M, C, G),
           NEW p \in Peers, NEW o \in Secrets,
           \A t \in Slots : Y[p][t] = Z[p][t] \/ Y[p][t].origin = None
    PROVE  MovesIn(Z, Y, p, o)
<1>1. o # None
    BY DEF Secrets
<1>2. ASSUME NEW t \in Slots, Y[p][t].origin = o
      PROVE  StaysIn(Z, Y, p, o)
    <2>1. Y[p][t] = Z[p][t]
        BY <1>1, <1>2
    <2>2. KeyIn(Z, p, o) = Z[p][t].cur.kex
          /\ PendingIn(Z, p, o) = IF Pends(Z[p][t]) THEN Z[p][t].nxt.kex ELSE None
        BY <1>2, <2>1, Found
    <2>3. KeyIn(Y, p, o) = Y[p][t].cur.kex
          /\ PendingIn(Y, p, o) = IF Pends(Y[p][t]) THEN Y[p][t].nxt.kex ELSE None
        BY <1>2, Found
    <2>4. QED BY <2>1, <2>2, <2>3 DEF StaysIn
<1>3. CASE \A t \in Slots : Y[p][t].origin # o
    BY <1>3, NotFound DEF LeavesIn, MovesIn
<1>4. QED BY <1>2, <1>3 DEF MovesIn

\* A3: the initiator holds the key of a new session before anybody else has anything of it.
LEMMA CompleteMoves ==
    ASSUME NEW Z, NEW N, NEW B, NEW F, Typed(Z, N, B, F), AInv(Z, N, B, F),
           NEW Y, NEW M, NEW C, NEW G, AInv(Y, M, C, G), Shaped(Y),
           NEW p \in Peers, NEW s \in Slots, Differ(Z, Y, p, s), NEW o \in Secrets,
           NEW m \in N, Completes(Z[p][s], Y[p][s], p, m), Untouched(Z, N, m.kex)
    PROVE  MovesIn(Z, Y, p, o)
<1>1. Z[p][s].origin = None /\ Y[p][s].origin = m.kex /\ Pends(Y[p][s]) /\ o # None
      /\ Y[p][s].nxt.kex = m.kex /\ Y[p][s].cur.kex = None
    <2>1. Z[p][s].origin = None
        BY DEF Completes, AInv, Roles
    <2>2. Y[p][s].origin = m.kex /\ Y[p][s].beta = "A3" /\ Y[p][s].nxt.kex = m.kex
        BY DEF Completes
    <2>3. Y[p][s].cur = NoKey
        BY <2>2, FieldTypes DEF ShapeOf
    <2>4. QED BY <2>1, <2>2, <2>3 DEF Pends, Secrets, NoKey
<1>2. CASE m.kex # o
    BY <1>1, <1>2, Elsewhere
<1>3. CASE m.kex = o
    <2>1. KeyIn(Z, p, o) = None /\ PendingIn(Z, p, o) = None
        BY <1>3, NotFound DEF Untouched
    <2>2. IsAbsent(Z, Remote(p), o)
        BY <1>3, NotFound, RemoteFacts DEF Untouched, IsAbsent
    <2>3. KeyIn(Y, p, o) = None /\ PendingIn(Y, p, o) = o
        BY <1>1, <1>3, Found
    <2>4. OffersIn(Z, Y, p, o, o)
        BY <2>1, <2>2, <2>3 DEF OffersIn, IsNewer
    <2>5. QED BY <2>4 DEF MovesIn
<1>4. QED BY <1>2, <1>3

\* S1: Bob switches to the key the initiator holds, and leaves his other sessions.
LEMMA AcceptMoves ==
    ASSUME NEW Z, NEW N, NEW B, NEW F, Typed(Z, N, B, F), AInv(Z, N, B, F),
           NEW Y, NEW M, NEW C, NEW G, AInv(Y, M, C, G),
           NEW p \in Peers, NEW s \in Slots, NEW o \in Secrets,
           NEW m, NEW b \in B[p], Accepts(Y[p][s], m, b),
           \A t \in Slots \ {s} : Y[p][t] = NullSession
    PROVE  MovesIn(Z, Y, p, o)
<1>1. Y[p][s].origin = b.kex /\ Y[p][s].cur.kex = b.kex /\ ~Pends(Y[p][s]) /\ o # None
    BY DEF Accepts, Pends, Secrets
<1>2. CASE b.kex # o
    <2>1. \A t \in Slots : Y[p][t].origin # o
        BY <1>1, <1>2, NullFacts
    <2>2. QED BY <2>1, NotFound DEF LeavesIn, MovesIn
<1>3. CASE b.kex = o
    <2>1. KeyIn(Z, p, o) = None /\ PendingIn(Z, p, o) = None
        BY <1>3, NotFound DEF AInv, CacheUnused
    <2>2. KeyIn(Y, p, o) = o /\ PendingIn(Y, p, o) = None
        BY <1>1, <1>3, Found
    <2>3. ASSUME NEW t \in Slots, Z[Remote(p)][t].origin = o
          PROVE  PendingIn(Z, Remote(p), o) = o
        <3>1. Z[Remote(p)][t].beta = "A3" /\ Z[Remote(p)][t].nxt = KeyOfB2(b)
            BY <1>3, <2>3 DEF AInv, CacheUnused
        <3>2. Pends(Z[Remote(p)][t]) /\ Z[Remote(p)][t].nxt.kex = o
            BY <1>3, <3>1 DEF KeyOfB2, Pends
        <3>3. QED BY <2>3, <3>2, Found, RemoteFacts
    <2>4. IsAbsent(Z, Remote(p), o) \/ PendingIn(Z, Remote(p), o) = o
        <3>1. CASE \A t \in Slots : Z[Remote(p)][t].origin # o
            BY <3>1, NotFound, RemoteFacts DEF IsAbsent
        <3>2. QED BY <2>3, <3>1
    <2>5. AdoptsIn(Z, Y, p, o, o)
        BY <2>1, <2>2, <2>4 DEF AdoptsIn, IsNewer
    <2>6. QED BY <2>5 DEF MovesIn
<1>4. QED BY <1>2, <1>3

\* S2: the key that was pending is switched to when the other end has done so.
LEMMA ConfirmMoves ==
    ASSUME NEW Z, NEW N, NEW B, NEW F, Typed(Z, N, B, F), AInv(Z, N, B, F),
           NEW Y, NEW M, NEW C, NEW G, AInv(Y, M, C, G),
           NEW p \in Peers, NEW s \in Slots, Differ(Z, Y, p, s), NEW o \in Secrets,
           NEW m \in N, Confirms(Z[p][s], Y[p][s], p, m),
           \A t \in Slots : Mates(Z[p][s], Z[Remote(p)][t]) =>
                Z[Remote(p)][t].beta = "S1" /\ Z[Remote(p)][t].cur.kex = m.kex
    PROVE  MovesIn(Z, Y, p, o)
<1>1. /\ Y[p][s].origin = Z[p][s].origin /\ Y[p][s].cur.kex = m.kex /\ ~Pends(Y[p][s])
      /\ Pends(Z[p][s]) /\ Z[p][s].nxt.kex = m.kex /\ m.kex # None /\ o # None
    BY PacketFields DEF Confirms, Pends, Secrets, Typed
<1>2. CASE Z[p][s].origin # o
    BY <1>1, <1>2, Elsewhere
<1>3. CASE Z[p][s].origin = o
    <2>1. PendingIn(Z, p, o) = m.kex
        BY <1>1, <1>3, Found
    <2>2. KeyIn(Y, p, o) = m.kex /\ PendingIn(Y, p, o) = None
        BY <1>1, <1>3, Found
    <2>3. IsAbsent(Z, Remote(p), o) \/ (KeyIn(Z, Remote(p), o) = m.kex /\ PendingIn(Z, Remote(p), o) = None)
        <3>1. ASSUME NEW t \in Slots, Z[Remote(p)][t].origin = o
              PROVE  KeyIn(Z, Remote(p), o) = m.kex /\ PendingIn(Z, Remote(p), o) = None
            <4>1. ~Pends(Z[Remote(p)][t]) /\ Z[Remote(p)][t].cur.kex = m.kex
                BY <1>1, <1>3, <3>1 DEF Mates, Pends
            <4>2. QED BY <3>1, <4>1, Found, RemoteFacts
        <3>2. CASE \A t \in Slots : Z[Remote(p)][t].origin # o
            BY <3>2, NotFound, RemoteFacts DEF IsAbsent
        <3>3. QED BY <3>1, <3>2
    <2>4. FollowsIn(Z, Y, p, o)
        BY <1>1, <2>1, <2>2, <2>3 DEF FollowsIn
    <2>5. QED BY <2>4 DEF MovesIn
<1>4. QED BY <1>2, <1>3

\* R2: a new key is held while both ends are under the old one and no other is under way.
LEMMA AnswerMoves ==
    ASSUME NEW Z, NEW N, NEW B, NEW F, Typed(Z, N, B, F), AInv(Z, N, B, F),
           NEW Y, NEW M, NEW C, NEW G, AInv(Y, M, C, G),
           NEW p \in Peers, NEW s \in Slots, Differ(Z, Y, p, s), NEW o \in Secrets,
           NEW m \in N, Answers(Z[p][s], Y[p][s], p, m, F),
           \A t \in Slots : Mates(Z[p][s], Z[Remote(p)][t]) =>
                Z[Remote(p)][t].beta = "R1" /\ Z[Remote(p)][t].cur.kex = m.kex
    PROVE  MovesIn(Z, Y, p, o)
<1>1. /\ Y[p][s].origin = Z[p][s].origin /\ Pends(Y[p][s]) /\ Y[p][s].nxt.kex = F + 1
      /\ Y[p][s].cur.kex = m.kex /\ Z[p][s].cur.kex = m.kex /\ ~Pends(Z[p][s])
      /\ F + 1 > m.kex /\ F + 1 \in Secrets /\ o # None
    BY PacketFields DEF Answers, Pends, Secrets, Typed, AInv, DrawnPackets
<1>2. CASE Z[p][s].origin # o
    BY <1>1, <1>2, Elsewhere
<1>3. CASE Z[p][s].origin = o
    <2>1. KeyIn(Z, p, o) = m.kex /\ PendingIn(Z, p, o) = None
        BY <1>1, <1>3, Found
    <2>2. KeyIn(Y, p, o) = m.kex /\ PendingIn(Y, p, o) = F + 1
        BY <1>1, <1>3, Found
    <2>3. IsAbsent(Z, Remote(p), o) \/ (KeyIn(Z, Remote(p), o) = m.kex /\ PendingIn(Z, Remote(p), o) = None)
        <3>1. ASSUME NEW t \in Slots, Z[Remote(p)][t].origin = o
              PROVE  KeyIn(Z, Remote(p), o) = m.kex /\ PendingIn(Z, Remote(p), o) = None
            <4>1. ~Pends(Z[Remote(p)][t]) /\ Z[Remote(p)][t].cur.kex = m.kex
                BY <1>1, <1>3, <3>1 DEF Mates, Pends
            <4>2. QED BY <3>1, <4>1, Found, RemoteFacts
        <3>2. CASE \A t \in Slots : Z[Remote(p)][t].origin # o
            BY <3>2, NotFound, RemoteFacts DEF IsAbsent
        <3>3. QED BY <3>1, <3>2
    <2>4. OffersIn(Z, Y, p, o, F + 1)
        BY <1>1, <2>1, <2>2, <2>3 DEF OffersIn, IsNewer
    <2>5. QED BY <1>1, <2>4 DEF MovesIn
<1>4. QED BY <1>2, <1>3

\* S1 again: the session that asked for a new key switches to the one the other end holds.
LEMMA SwitchMoves ==
    ASSUME NEW Z, NEW N, NEW B, NEW F, Typed(Z, N, B, F), AInv(Z, N, B, F),
           NEW Y, NEW M, NEW C, NEW G, AInv(Y, M, C, G),
           NEW p \in Peers, NEW s \in Slots, Differ(Z, Y, p, s), NEW o \in Secrets,
           NEW m \in N, Switches(Z[p][s], Y[p][s], p, m), m.newkex > m.kex,
           \A t \in Slots : Mates(Z[p][s], Z[Remote(p)][t]) =>
                Z[Remote(p)][t].beta = "R2" /\ Z[Remote(p)][t].nxt.kex = m.newkex
    PROVE  MovesIn(Z, Y, p, o)
<1>1. /\ Y[p][s].origin = Z[p][s].origin /\ Y[p][s].cur.kex = m.newkex /\ ~Pends(Y[p][s])
      /\ Z[p][s].cur.kex = m.kex /\ ~Pends(Z[p][s]) /\ m.newkex \in Secrets /\ o # None
    BY PacketFields DEF Switches, Pends, Secrets, Typed
<1>2. CASE Z[p][s].origin # o
    BY <1>1, <1>2, Elsewhere
<1>3. CASE Z[p][s].origin = o
    <2>1. KeyIn(Z, p, o) = m.kex /\ PendingIn(Z, p, o) = None
        BY <1>1, <1>3, Found
    <2>2. KeyIn(Y, p, o) = m.newkex /\ PendingIn(Y, p, o) = None
        BY <1>1, <1>3, Found
    <2>3. IsAbsent(Z, Remote(p), o) \/ PendingIn(Z, Remote(p), o) = m.newkex
        <3>1. ASSUME NEW t \in Slots, Z[Remote(p)][t].origin = o
              PROVE  PendingIn(Z, Remote(p), o) = m.newkex
            <4>1. Pends(Z[Remote(p)][t]) /\ Z[Remote(p)][t].nxt.kex = m.newkex
                BY <1>1, <1>3, <3>1 DEF Mates, Pends
            <4>2. QED BY <3>1, <4>1, Found, RemoteFacts
        <3>2. CASE \A t \in Slots : Z[Remote(p)][t].origin # o
            BY <3>2, NotFound, RemoteFacts DEF IsAbsent
        <3>3. QED BY <3>1, <3>2
    <2>4. AdoptsIn(Z, Y, p, o, m.newkex)
        BY <1>1, <2>1, <2>2, <2>3 DEF AdoptsIn, IsNewer
    <2>5. QED BY <1>1, <2>4 DEF MovesIn
<1>4. QED BY <1>2, <1>3

\* Every step of Zeta is a step of KeyAgreement or changes nothing of it.
LEMMA StepAgrees ==
    ASSUME IInv, Inv, [Next]_vars
    PROVE  [Agreement!AgreementNext]_Agreement!agreementVars
<1>1. CASE UNCHANGED vars
    BY <1>1 DEF vars, Agreement!agreementVars, KeyOf, PendingOf, SessionOf
<1>2. CASE Next
    <2>1. IInv' /\ Inv'
        BY <1>2, IInvNext, InvNext
    <2>2. Typed(zeta, net, b2, fresh) /\ AInv(zeta, net, b2, fresh) /\ Shaped(zeta')
        BY <2>1, Before
    <2>3. AInv(zeta', net', b2', fresh')
        BY <2>1 DEF Inv
    <2>4. ASSUME NEW p \in Peers, NEW s \in Slots, Differ(zeta, zeta', p, s)
          PROVE  zeta'[Remote(p)] = zeta[Remote(p)]
        <3>1. Remote(p) \in Peers /\ Remote(p) # p
            BY RemoteFacts
        <3>2. zeta[Remote(p)] \in [Slots -> Session] /\ zeta'[Remote(p)] \in [Slots -> Session]
            BY <2>2, <3>1 DEF Typed, Shaped
        <3>3. \A t \in Slots : zeta'[Remote(p)][t] = zeta[Remote(p)][t]
            BY <2>4, <3>1 DEF Differ
        <3>4. QED BY <3>2, <3>3
    <2>5. PICK p \in Peers : StepOf(p)
        BY <1>2, Steps
    <2>6. SUFFICES ASSUME zeta' # zeta
                   PROVE  /\ zeta'[Remote(p)] = zeta[Remote(p)]
                          /\ \A o \in Secrets : MovesIn(zeta, zeta', p, o)
        <3>1. CASE zeta' = zeta
            BY <3>1 DEF Agreement!agreementVars, KeyOf, PendingOf, SessionOf
        <3>2. QED BY <3>1, Mapping
    <2>7. ASSUME NEW s \in Slots, Differ(zeta, zeta', p, s), Begins(zeta'[p][s], fresh)
          PROVE  /\ zeta'[Remote(p)] = zeta[Remote(p)]
                 /\ \A o \in Secrets : MovesIn(zeta, zeta', p, o)
        <3>1. \A t \in Slots : zeta'[p][t] = zeta[p][t] \/ zeta'[p][t].origin = None
            BY <2>7 DEF Differ, Begins
        <3>2. QED BY <2>2, <2>3, <2>4, <2>7, <3>1, EndMoves
    <2>8. CASE Open(p)
        BY <2>7, <2>8, OpenWrites
    <2>9. CASE Endings(p)
        <3>1. EndsOnly /\ zeta'[Remote(p)] = zeta[Remote(p)]
            BY <2>9, EndingsEnd, RemoteFacts
        <3>2. \A t \in Slots : zeta'[p][t] = zeta[p][t] \/ zeta'[p][t].origin = None
            BY <3>1, NullFacts DEF EndsOnly
        <3>3. QED BY <2>2, <2>3, <3>1, <3>2, EndMoves
    <2>10. ASSUME NEW m \in net, ReceivedX1(p, m)
           PROVE  FALSE
        BY <2>6, <2>10 DEF ReceivedX1
    <2>11. ASSUME NEW m \in net, NEW b \in b2[p], ReceivedX3(p, m, b)
           PROVE  /\ zeta'[Remote(p)] = zeta[Remote(p)]
                  /\ \A o \in Secrets : MovesIn(zeta, zeta', p, o)
        BY <2>2, <2>3, <2>11, ReceivedX3Writes, AcceptMoves
    <2>12. ASSUME NEW s \in Slots, zeta[p][s].beta \in {"A1", "A3"}, RestartHandshake(p, s)
           PROVE  /\ zeta'[Remote(p)] = zeta[Remote(p)]
                  /\ \A o \in Secrets : MovesIn(zeta, zeta', p, o)
        BY <2>7, <2>12, RestartHandshakeWrites
    <2>13. ASSUME NEW s \in Slots, NEW m \in net, ReceivedX2(p, s, m)
           PROVE  /\ zeta'[Remote(p)] = zeta[Remote(p)]
                  /\ \A o \in Secrets : MovesIn(zeta, zeta', p, o)
        BY <2>1, <2>2, <2>3, <2>4, <2>13, ReceivedX2Writes, ReceivedX2Inv, CompleteMoves
    <2>14. ASSUME NEW s \in Slots, NEW m \in net, ReceivedC1(p, s, m)
           PROVE  /\ zeta'[Remote(p)] = zeta[Remote(p)]
                  /\ \A o \in Secrets : MovesIn(zeta, zeta', p, o)
        BY <2>1, <2>2, <2>3, <2>4, <2>14, ReceivedC1Writes, ReceivedC1Inv, ConfirmMoves
    <2>15. ASSUME NEW s \in Slots, NEW m \in net, ReceivedC2(p, s, m)
           PROVE  /\ zeta'[Remote(p)] = zeta[Remote(p)]
                  /\ \A o \in Secrets : MovesIn(zeta, zeta', p, o)
        <3>1. Differ(zeta, zeta', p, s) /\ Acknowledges(zeta[p][s], zeta'[p][s], p, m)
            BY <2>15, ReceivedC2Writes
        <3>2. QED BY <2>2, <2>3, <2>4, <3>1, QuietMoves DEF Acknowledges, Pends
    <2>16. ASSUME NEW s \in Slots, NEW m \in net, ReceivedK1(p, s, m)
           PROVE  /\ zeta'[Remote(p)] = zeta[Remote(p)]
                  /\ \A o \in Secrets : MovesIn(zeta, zeta', p, o)
        BY <2>1, <2>2, <2>3, <2>4, <2>16, ReceivedK1Writes, ReceivedK1Inv, AnswerMoves
    <2>17. ASSUME NEW s \in Slots, NEW m \in net, ReceivedK2(p, s, m)
           PROVE  /\ zeta'[Remote(p)] = zeta[Remote(p)]
                  /\ \A o \in Secrets : MovesIn(zeta, zeta', p, o)
        BY <2>1, <2>2, <2>3, <2>4, <2>17, ReceivedK2Writes, ReceivedK2Inv, SwitchMoves
    <2>18. ASSUME NEW s \in Slots, TimeoutRekey(p, s)
           PROVE  /\ zeta'[Remote(p)] = zeta[Remote(p)]
                  /\ \A o \in Secrets : MovesIn(zeta, zeta', p, o)
        <3>1. Differ(zeta, zeta', p, s) /\ Proposes(zeta[p][s], zeta'[p][s], fresh)
            BY <2>18, TimeoutRekeyWrites
        <3>2. QED BY <2>2, <2>3, <2>4, <3>1, QuietMoves DEF Proposes, Pends
    <2>19. ASSUME NEW s \in Slots, Resend(p, s) \/ \E m \in net : AcknowledgedC1(p, s, m)
           PROVE  FALSE
        BY <2>6, <2>19 DEF Resend, AcknowledgedC1
    <2>20. QED BY <2>5, <2>8, <2>9, <2>10, <2>11, <2>12, <2>13, <2>14, <2>15, <2>16, <2>17, <2>18, <2>19
              DEF StepOf, StepAt
<1>3. QED BY <1>1, <1>2

\* The two ends of every session change keys as KeyAgreement says: an end switches only to a key
\* the other one has, one rekey is under way at a time, and no end goes back to an older key.
THEOREM KeysAgreedHold == Spec => KeysAgreed
<1>1. Init => Agreement!AgreementInit
    <2> SUFFICES ASSUME Init, NEW o \in Secrets, NEW p \in Peers
                 PROVE  PendingOf(o, p) = None /\ KeyOf(o, p) = KeyOf(o, Remote(p))
        BY OtherRemote, RemoteFacts DEF Agreement!AgreementInit
    <2>1. \A q \in Peers, s \in Slots : zeta[q][s].origin # o
        BY NullFacts DEF Init, Secrets
    <2>2. QED BY <2>1, NotFound, Mapped, RemoteFacts
<1>2. IInv /\ Inv /\ [Next]_vars => [Agreement!AgreementNext]_Agreement!agreementVars
    BY StepAgrees
<1>3. QED BY <1>1, <1>2, Invariance, PTL DEF Spec, KeysAgreed, Agreement!AgreementSpec

=============================================================================
