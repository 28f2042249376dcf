-------------------------- MODULE Reference_proofs --------------------------
(***************************************************************************)
(* Proofs about the reference implementation: its sessions, for every set  *)
(* of sessions and of key ids, and its buffers of fragments, for every     *)
(* length of packets, every MTU and every number of nonces and fragments.  *)
(***************************************************************************)
EXTENDS Reference, DefragBuffer, WellFoundedInduction, TLAPS

-----------------------------------------------------------------------------
(* The inductive invariant *)

Has(z, kid) == z.cur.recv = kid \/ z.nxt.recv = kid

\* The keys that each state of the automaton has.
Keyed(z) ==
    /\ z.beta \in {"S1", "S2", "R1", "R2"} => z.cur.keyed
    /\ z.beta \in {"A3", "R2"} => z.nxt.keyed

KeysThere == \A s \in Sessions : Keyed(zeta[s])

\* A place without a session has no key ids.
PlacesEmpty ==
    \A s \in Sessions : ~zeta[s].held => /\ zeta[s].beta = "Null"
                                         /\ zeta[s].cur.recv = None /\ zeta[s].nxt.recv = None

\* No two sessions, and no two keys of one, have a key id in common.
KidsExclusive ==
    /\ \A s, t \in Sessions, kid \in Kids : Has(zeta[s], kid) /\ Has(zeta[t], kid) => s = t
    /\ \A s \in Sessions : zeta[s].cur.recv # None => zeta[s].cur.recv # zeta[s].nxt.recv

\* A key id that a session has is routed to it or to none.
RoutesOwn ==
    \A s \in Sessions, kid \in Kids : Has(zeta[s], kid) => session_map[kid] \in {s, None}

\* The routes that session s needs in map when its value is z.  K2 may arrive after the route
\* of the offer it answers is lost, and then S1 has only the route of the old key.
SessionRoutes(s, z, map) ==
    LET to(kid) == kid # None /\ map[kid] = s IN
    /\ z.beta \in {"A1", "A3", "R2"} => to(z.nxt.recv)
    /\ z.beta \in {"S2", "R1", "R2"} => to(z.cur.recv)
    /\ z.beta = "R1" /\ ~z.lost => to(z.nxt.recv)
    /\ z.beta = "S1" /\ ~z.lost => to(z.cur.recv)
    /\ z.beta = "S1" => to(z.cur.recv) \/ to(z.nxt.recv)

LiveRouted == \A s \in Sessions : SessionRoutes(s, zeta[s], session_map)

\* What connects the sessions with session_map.
MapInv == PlacesEmpty /\ KidsExclusive /\ RoutesOwn /\ LiveRouted

RoutingInv == TypeOK /\ MapInv /\ LiveSessionsServed

-----------------------------------------------------------------------------
(* Helpers *)

LEMMA RecvKidsHas ==
    ASSUME NEW z \in Session
    PROVE  /\ RecvKids(z) \subseteq Kids
           /\ \A kid \in Kids : kid \in RecvKids(z) <=> Has(z, kid)
BY ReferenceAssumption DEF RecvKids, Has, Session, DuplexKey

LEMMA WithoutType ==
    ASSUME NEW map \in [Kids -> Sessions \cup {None, Dead}], NEW kids
    PROVE  Without(map, kids) \in [Kids -> Sessions \cup {None, Dead}]
BY DEF Without

LEMMA RemappedType ==
    ASSUME TypeOK, NEW s \in Sessions, NEW kid \in Kids
    PROVE  Remapped(s, kid) \in [Kids -> Sessions \cup {None, Dead}]
<1>1. zeta[s].nxt.recv \in Kids \cup {None}
  BY DEF TypeOK, Session, DuplexKey
<1>2. Without(session_map, {zeta[s].nxt.recv}) \in [Kids -> Sessions \cup {None, Dead}]
  BY WithoutType DEF TypeOK
<1>. QED  BY <1>1, <1>2 DEF Remapped, Forgotten, TypeOK

\* remap moves the route of the pending key id, which is the session's own or none, to kid.
LEMMA RemappedRoutes ==
    ASSUME TypeOK, RoutesOwn, NEW s \in Sessions, NEW kid \in Kids
    PROVE  /\ Remapped(s, kid)[kid] = s
           /\ \A k \in Kids \ {kid} : Remapped(s, kid)[k] =
                   IF k = zeta[s].nxt.recv THEN None ELSE session_map[k]
<1>1. zeta[s].nxt.recv \in Kids \cup {None}
  BY DEF TypeOK, Session, DuplexKey
<1>2. zeta[s].nxt.recv # None => session_map[zeta[s].nxt.recv] \in {s, None}
  BY <1>1 DEF RoutesOwn, Has
<1>. QED  BY <1>1, <1>2, ReferenceAssumption DEF Remapped, Forgotten, Without

\* A key id that gen_kid may draw.
LEMMA GenKidFresh ==
    ASSUME TypeOK, Distinct, NEW map, NEW kid \in GenKid(map)
    PROVE  kid \in Kids /\ \A t \in Sessions : ~Has(zeta[t], kid)
BY RecvKidsHas DEF GenKid, Fresh, TypeOK

LEMMA ForgetSessions ==
    ASSUME TypeOK, NEW s \in Sessions, NEW map \in [Kids -> Sessions \cup {None, Dead}],
           \A kid \in Kids : Has(zeta[s], kid) => map[kid] \in {s, None}
    PROVE  /\ Forget(s, map) \in {sessions, sessions \ {s}}
           /\ (\E kid \in Kids : Has(zeta[s], kid) /\ map[kid] = s) => s \notin Forget(s, map)
<1>1. \A kid \in Kids : kid \in RecvKids(zeta[s]) <=> Has(zeta[s], kid)
  BY RecvKidsHas DEF TypeOK
<1>2. RecvKids(zeta[s]) \subseteq Kids
  BY RecvKidsHas DEF TypeOK
<1>3. {map[kid] : kid \in RecvKids(zeta[s])} \subseteq {s, None}
  BY <1>1, <1>2
<1>4. None \notin sessions
  BY ReferenceAssumption DEF TypeOK
<1>. QED  BY <1>1, <1>2, <1>3, <1>4 DEF Forget

-----------------------------------------------------------------------------
(* Types *)

LEMMA SessionTypes ==
    ASSUME NEW z \in Session, NEW kid \in Kids
    PROVE  /\ Expired(z) \in Session /\ Restarted(z, kid) \in Session
           /\ Completed(z) \in Session /\ Confirmed(z) \in Session
           /\ Acknowledged(z) \in Session /\ Offering(z, kid) \in Session
           /\ Answered(z, kid) \in Session /\ Switched(z) \in Session
           /\ [z EXCEPT !.lost = z.lost \/ z.beta = "R1"] \in Session
<1>. USE DEF Session, DuplexKey, Betas, NoKey
<1>1. Expired(z) \in Session /\ Restarted(z, kid) \in Session
  BY DEF Expired, Restarted
<1>2. Completed(z) \in Session /\ Confirmed(z) \in Session
  BY DEF Completed, Confirmed, Flip
<1>3. Acknowledged(z) \in Session /\ Offering(z, kid) \in Session
  BY DEF Acknowledged, Offering
<1>4. Answered(z, kid) \in Session /\ Switched(z) \in Session
  BY DEF Answered, Switched, Flip, Rekeyed
<1>5. [z EXCEPT !.lost = z.lost \/ z.beta = "R1"] \in Session
  <2>. (z.lost \/ z.beta = "R1") \in BOOLEAN
    OBVIOUS
  <2>. QED  OBVIOUS
<1>. QED  BY <1>1, <1>2, <1>3, <1>4, <1>5

LEMMA NewSessionTypes ==
    ASSUME NEW kid \in Kids, NEW two \in BOOLEAN
    PROVE  NoSession \in Session /\ Opened(kid, two) \in Session /\ Accepted(kid) \in Session
BY DEF Session, DuplexKey, Betas, NoKey, NoSession, Opened, Accepted

LEMMA ExpireType ==
    ASSUME TypeOK, NEW s \in Sessions, NEW map \in [Kids -> Sessions \cup {None, Dead}],
           ExpireFrom(s, map)
    PROVE  TypeOK'
<1>1. zeta[s] \in Session
  BY DEF TypeOK
<1>2. Expired(zeta[s]) \in Session
  BY <1>1 DEF Expired, Session, Betas
<1>3. zeta' \in [Sessions -> Session]
  BY <1>2 DEF TypeOK, ExpireFrom
<1>4. session_map' \in [Kids -> Sessions \cup {None, Dead}]
  BY WithoutType DEF ExpireFrom
<1>. QED  BY <1>3, <1>4 DEF TypeOK, ExpireFrom, Forget

LEMMA UnwrapType == TypeOK /\ Unwrap => TypeOK'
BY DEF TypeOK, Unwrap

LEMMA BecomeType ==
    ASSUME TypeOK, NEW s \in Sessions, NEW z \in Session, Become(s, z)
    PROVE  TypeOK'
BY DEF TypeOK, Become

\* A session changes and its pending key id is remapped.
LEMMA RemapType ==
    ASSUME TypeOK, NEW s \in Sessions, NEW z \in Session, NEW kid \in Kids,
           zeta' = [zeta EXCEPT ![s] = z], session_map' = Remapped(s, kid),
           UNCHANGED <<sessions, b2_map, panicked>>
    PROVE  TypeOK'
BY RemappedType DEF TypeOK

LEMMA RestartType == ASSUME TypeOK, NEW s \in Sessions, RestartHandshake(s) PROVE TypeOK'
<1>1. PICK kid \in GenKid(Without(session_map, {Forgotten(zeta[s])})) :
        /\ zeta' = [zeta EXCEPT ![s] = Restarted(zeta[s], kid)]
        /\ session_map' = Remapped(s, kid)
  BY DEF RestartHandshake
<1>2. kid \in Kids /\ zeta[s] \in Session
  BY DEF GenKid, TypeOK
<1>. QED  BY <1>1, <1>2, SessionTypes, RemapType DEF RestartHandshake

LEMMA ReceiveType ==
    ASSUME TypeOK, NEW s \in Sessions, NEW kid \in Kids, Receive(s, kid)
    PROVE  TypeOK'
<1>. DEFINE z == zeta[s]
<1>1. z \in Session /\ session_map \in [Kids -> Sessions \cup {None, Dead}]
  BY DEF TypeOK
<1>2. CASE ReceivedX2(s, kid)
  BY <1>1, <1>2, SessionTypes, BecomeType, RestartType DEF ReceivedX2
<1>3. CASE ReceivedD(s, kid)
  BY <1>1, <1>3, ExpireType, UnwrapType DEF ReceivedD
<1>4. CASE ReceivedC1(s, kid)
  BY <1>1, <1>4, SessionTypes, BecomeType, ExpireType DEF ReceivedC1
<1>5. CASE ReceivedC2(s, kid)
  BY <1>1, <1>5, SessionTypes, BecomeType, UnwrapType DEF ReceivedC2
<1>6. CASE ReceivedK1(s, kid)
  <2>1. CASE Unwrap \/ ExpireFrom(s, session_map)
    BY <2>1, <1>1, UnwrapType, ExpireType
  <2>2. CASE \E new \in GenKid(Without(session_map, {Forgotten(z)})) : AnswerK1(s, new)
    <3>1. PICK new \in GenKid(Without(session_map, {Forgotten(z)})) : AnswerK1(s, new)
      BY <2>2
    <3>2. new \in Kids
      BY DEF GenKid
    <3>3. Remapped(s, new) \in [Kids -> Sessions \cup {None, Dead}]
      BY <3>2, RemappedType
    <3>. QED  BY <3>1, <3>2, <3>3, <1>1, SessionTypes, RemapType, ExpireType DEF AnswerK1
  <2>. QED  BY <2>1, <2>2, <1>6 DEF ReceivedK1
<1>7. CASE ReceivedK2(s, kid)
  BY <1>1, <1>7, SessionTypes, BecomeType, ExpireType, UnwrapType DEF ReceivedK2
<1>. QED  BY <1>2, <1>3, <1>4, <1>5, <1>6, <1>7 DEF Receive

LEMMA ServiceType == ASSUME TypeOK, NEW s \in Sessions, ServiceTimeout(s) PROVE TypeOK'
<1>1. zeta[s] \in Session
  BY DEF TypeOK
<1>2. CASE RestartHandshake(s)
  BY <1>2, RestartType
<1>3. CASE StartRekey(s)
  <2>1. PICK kid \in GenKid(Without(session_map, {Forgotten(zeta[s])})) :
          /\ zeta' = [zeta EXCEPT ![s] = Offering(zeta[s], kid)]
          /\ session_map' = Remapped(s, kid)
    BY <1>3 DEF StartRekey
  <2>2. kid \in Kids
    BY DEF GenKid
  <2>. QED  BY <2>1, <2>2, <1>1, <1>3, SessionTypes, RemapType DEF StartRekey
<1>4. CASE ExpireInService(s)
  <2>1. Expired(zeta[s]) \in Session
    BY <1>1 DEF Expired, Session, Betas
  <2>. QED  BY <2>1, <1>4 DEF TypeOK, ExpireInService
<1>. QED  BY <1>2, <1>3, <1>4 DEF ServiceTimeout

LEMMA TypeStep == TypeOK /\ [Next]_vars => TypeOK'
<1>. SUFFICES ASSUME TypeOK, [Next]_vars PROVE TypeOK'
  OBVIOUS
<1>1. CASE ReceivedX1
  BY <1>1 DEF TypeOK, ReceivedX1, GenKid
<1>2. ASSUME NEW kid \in Kids, ReceivedX3(kid) PROVE TypeOK'
  <2>1. b2_map' \subseteq Kids /\ panicked' = panicked
    BY <1>2 DEF TypeOK, ReceivedX3
  <2>2. CASE UNCHANGED <<zeta, session_map, sessions>>
    BY <2>1, <2>2 DEF TypeOK
  <2>3. CASE ~UNCHANGED <<zeta, session_map, sessions>>
    <3>1. PICK s \in Sessions : /\ zeta' = [zeta EXCEPT ![s] = Accepted(kid)]
                                /\ session_map' = [session_map EXCEPT ![kid] = s]
                                /\ sessions' = sessions \cup {s}
      BY <1>2, <2>3 DEF ReceivedX3
    <3>2. Accepted(kid) \in Session
      BY NewSessionTypes
    <3>. QED  BY <2>1, <3>1, <3>2 DEF TypeOK
  <2>. QED  BY <2>2, <2>3
<1>3. ASSUME NEW s \in Sessions, Open(s) PROVE TypeOK'
  <2>1. PICK kid \in GenKid(session_map), two \in BOOLEAN :
          /\ zeta' = [zeta EXCEPT ![s] = Opened(kid, two)]
          /\ session_map' = [session_map EXCEPT ![kid] = s]
    BY <1>3 DEF Open
  <2>2. kid \in Kids
    BY DEF GenKid
  <2>3. Opened(kid, two) \in Session
    BY <2>2, NewSessionTypes
  <2>. QED  BY <1>3, <2>1, <2>2, <2>3 DEF TypeOK, Open
<1>4. ASSUME NEW s \in Sessions, SendPayload(s) PROVE TypeOK'
  <2>1. zeta[s] \in Session /\ session_map \in [Kids -> Sessions \cup {None, Dead}]
    BY DEF TypeOK
  <2>2. UNCHANGED vars => TypeOK'
    BY DEF TypeOK, vars
  <2>. QED  BY <1>4, <2>1, <2>2, ExpireType, UnwrapType DEF SendPayload
<1>5. ASSUME NEW s \in Sessions, ServiceTimeout(s) PROVE TypeOK'
  BY <1>5, ServiceType
<1>6. ASSUME NEW s \in Sessions, Drop(s) PROVE TypeOK'
  <2>1. NoSession \in Session
    BY DEF Session, DuplexKey, Betas, NoKey, NoSession
  <2>2. Without(session_map, RecvKids(zeta[s])) \in [Kids -> Sessions \cup {None, Dead}]
    BY WithoutType DEF TypeOK
  <2>. QED  BY <1>6, <2>1, <2>2 DEF TypeOK, Drop, Forget
<1>7. ASSUME NEW s \in Sessions, NEW kid \in Kids, Receive(s, kid) PROVE TypeOK'
  BY <1>7, ReceiveType
<1>8. CASE UNCHANGED vars
  BY <1>8 DEF TypeOK, vars
<1>. QED  BY <1>1, <1>2, <1>3, <1>4, <1>5, <1>6, <1>7, <1>8 DEF Next

LEMMA TypeInit == Init => TypeOK
<1>1. NoSession \in Session
  BY DEF Session, DuplexKey, Betas, NoKey, NoSession
<1>. QED  BY <1>1 DEF Init, TypeOK

\* Every variable keeps its type, for any sessions and key ids.
THEOREM TypeCorrect == Spec => []TypeOK
BY TypeInit, TypeStep, PTL DEF Spec

-----------------------------------------------------------------------------
(* No handler unwraps a key that is not there *)

KeysInv == TypeOK /\ KeysThere /\ HandlersFindKeys

LEMMA KeyedSessions ==
    ASSUME NEW z \in Session, NEW kid \in Kids, Keyed(z)
    PROVE  /\ Keyed(Expired(z)) /\ Keyed(Restarted(z, kid)) /\ Keyed(Completed(z))
           /\ z.beta = "S1" => Keyed(Acknowledged(z))
           /\ z.beta = "S2" => Keyed(Offering(z, kid))
           /\ z.beta \in {"S2", "R1"} => Keyed(Answered(z, kid))
           /\ Keyed(Switched(z))
           /\ z.beta \in {"A3", "R2"} => Keyed(Confirmed(z))
           /\ Keyed([z EXCEPT !.lost = z.lost \/ z.beta = "R1"])
<1>. USE DEF Session, DuplexKey, Betas, NoKey, Keyed
<1>1. Keyed(Expired(z)) /\ Keyed(Restarted(z, kid)) /\ Keyed(Completed(z))
  BY DEF Expired, Restarted, Completed
<1>2. z.beta = "S1" => Keyed(Acknowledged(z))
  BY DEF Acknowledged
<1>3. z.beta = "S2" => Keyed(Offering(z, kid))
  BY DEF Offering
<1>4. z.beta \in {"S2", "R1"} => Keyed(Answered(z, kid))
  BY DEF Answered
<1>5. Keyed(Switched(z))
  BY DEF Switched, Flip, Rekeyed
<1>6. z.beta \in {"A3", "R2"} => Keyed(Confirmed(z))
  BY DEF Confirmed, Flip
<1>7. Keyed([z EXCEPT !.lost = z.lost \/ z.beta = "R1"])
  OBVIOUS
<1>. QED  BY <1>1, <1>2, <1>3, <1>4, <1>5, <1>6, <1>7

\* Only the keys of the session that changes matter.
LEMMA KeysKept ==
    ASSUME KeysInv, NEW s \in Sessions, NEW z, Keyed(z),
           zeta' = [zeta EXCEPT ![s] = z], panicked' \in {panicked, "borrow"}
    PROVE  KeysThere' /\ HandlersFindKeys'
<1>1. \A t \in Sessions : Keyed(zeta'[t])
  BY DEF KeysInv, TypeOK, KeysThere
<1>. QED  BY <1>1 DEF KeysInv, KeysThere, HandlersFindKeys

LEMMA KeysExpire ==
    ASSUME KeysInv, NEW s \in Sessions, NEW map, ExpireFrom(s, map)
    PROVE  KeysThere' /\ HandlersFindKeys'
<1>1. Keyed(Expired(zeta[s]))
  BY DEF KeysInv, TypeOK, Session, Keyed, Expired
<1>. QED  BY <1>1, KeysKept DEF ExpireFrom

LEMMA KeysReceive ==
    ASSUME KeysInv, NEW s \in Sessions, NEW kid \in Kids, Receive(s, kid)
    PROVE  KeysThere' /\ HandlersFindKeys'
<1>. DEFINE z == zeta[s]
<1>1. z \in Session /\ Keyed(z)
  BY DEF KeysInv, TypeOK, KeysThere
<1>2. CASE ReceivedX2(s, kid)
  <2>1. CASE Become(s, Completed(z))
    BY <2>1, <1>1, KeyedSessions, KeysKept DEF Become
  <2>2. CASE RestartHandshake(s)
    BY <2>2, <1>1, KeyedSessions, KeysKept DEF RestartHandshake, GenKid
  <2>. QED  BY <2>1, <2>2, <1>2 DEF ReceivedX2
<1>3. CASE ReceivedD(s, kid)
  BY <1>1, <1>3, KeysExpire DEF ReceivedD, Keyed
<1>4. CASE ReceivedC1(s, kid)
  <2>1. CASE Become(s, Confirmed(z))
    BY <2>1, <1>1, <1>4, KeyedSessions, KeysKept DEF ReceivedC1, Become
  <2>. QED  BY <2>1, <1>4, KeysExpire DEF ReceivedC1
<1>5. CASE ReceivedC2(s, kid)
  <2>1. z.beta = "S1" /\ Become(s, Acknowledged(z))
    BY <1>1, <1>5 DEF ReceivedC2, Keyed
  <2>. QED  BY <2>1, <1>1, KeyedSessions, KeysKept DEF Become
<1>6. CASE ReceivedK1(s, kid)
  <2>1. z.beta \in {"S2", "R1"} /\ z.cur.keyed
    BY <1>1, <1>6 DEF ReceivedK1, AnswersK1, Keyed
  <2>2. CASE ExpireFrom(s, session_map)
    BY <2>2, KeysExpire
  <2>3. CASE \E new \in GenKid(Without(session_map, {Forgotten(z)})) : AnswerK1(s, new)
    <3>1. PICK new \in Kids : AnswerK1(s, new)
      BY <2>3 DEF GenKid
    <3>2. CASE zeta' = [zeta EXCEPT ![s] = Answered(z, new)] /\ panicked' = panicked
      BY <3>2, <2>1, <1>1, KeyedSessions, KeysKept
    <3>3. CASE ExpireFrom(s, Remapped(s, new))
      BY <3>3, KeysExpire
    <3>4. CASE /\ zeta' = [zeta EXCEPT ![s] = [z EXCEPT !.lost = z.lost \/ z.beta = "R1"]]
               /\ panicked' = panicked
      BY <3>4, <1>1, KeyedSessions, KeysKept
    <3>. QED  BY <3>1, <3>2, <3>3, <3>4 DEF AnswerK1
  <2>. QED  BY <2>1, <2>2, <2>3, <1>6 DEF ReceivedK1
<1>7. CASE ReceivedK2(s, kid)
  <2>1. Become(s, Switched(z)) \/ ExpireFrom(s, session_map)
    BY <1>1, <1>7 DEF ReceivedK2, Keyed
  <2>2. CASE Become(s, Switched(z))
    BY <2>2, <1>1, KeyedSessions, KeysKept DEF Become
  <2>. QED  BY <2>1, <2>2, KeysExpire
<1>. QED  BY <1>2, <1>3, <1>4, <1>5, <1>6, <1>7 DEF Receive

LEMMA KeysStep == KeysInv /\ [Next]_vars => KeysInv'
<1>. SUFFICES ASSUME KeysInv, [Next]_vars PROVE KeysThere' /\ HandlersFindKeys'
  BY TypeStep DEF KeysInv
<1>0. \A s \in Sessions : zeta[s] \in Session /\ Keyed(zeta[s])
  BY DEF KeysInv, TypeOK, KeysThere
<1>1. CASE ReceivedX1 \/ UNCHANGED vars
  BY <1>1 DEF KeysInv, KeysThere, HandlersFindKeys, ReceivedX1, vars
<1>2. ASSUME NEW kid \in Kids, ReceivedX3(kid) PROVE KeysThere' /\ HandlersFindKeys'
  <2>1. Keyed(Accepted(kid))
    BY DEF Keyed, Accepted, NoSession
  <2>. QED  BY <1>2, <2>1, KeysKept DEF ReceivedX3, KeysInv, KeysThere, HandlersFindKeys
<1>3. ASSUME NEW s \in Sessions, Open(s) PROVE KeysThere' /\ HandlersFindKeys'
  <2>1. PICK kid \in Kids, two \in BOOLEAN : zeta' = [zeta EXCEPT ![s] = Opened(kid, two)]
    BY <1>3 DEF Open, GenKid
  <2>2. Keyed(Opened(kid, two))
    BY DEF Keyed, Opened, NoSession
  <2>. QED  BY <1>3, <2>1, <2>2, KeysKept DEF Open
<1>4. ASSUME NEW s \in Sessions, SendPayload(s) PROVE KeysThere' /\ HandlersFindKeys'
  <2>1. ExpireFrom(s, session_map) \/ UNCHANGED vars
    BY <1>0, <1>4 DEF SendPayload, Keyed
  <2>2. UNCHANGED vars => KeysThere' /\ HandlersFindKeys'
    BY DEF KeysInv, KeysThere, HandlersFindKeys, vars
  <2>. QED  BY <2>1, <2>2, KeysExpire
<1>5. ASSUME NEW s \in Sessions, ServiceTimeout(s) PROVE KeysThere' /\ HandlersFindKeys'
  <2>1. CASE RestartHandshake(s)
    <3>1. PICK kid \in Kids : zeta' = [zeta EXCEPT ![s] = Restarted(zeta[s], kid)]
      BY <2>1 DEF RestartHandshake, GenKid
    <3>2. Keyed(Restarted(zeta[s], kid)) /\ panicked' = panicked
      BY <2>1, <1>0, KeyedSessions DEF RestartHandshake
    <3>. QED  BY <3>1, <3>2, KeysKept
  <2>2. CASE zeta[s].beta = "S2" /\ StartRekey(s)
    <3>1. PICK kid \in Kids : zeta' = [zeta EXCEPT ![s] = Offering(zeta[s], kid)]
      BY <2>2 DEF StartRekey, GenKid
    <3>2. Keyed(Offering(zeta[s], kid)) /\ panicked' = panicked
      BY <2>2, <1>0, KeyedSessions DEF StartRekey
    <3>. QED  BY <3>1, <3>2, KeysKept
  <2>3. CASE ExpireInService(s)
    <3>1. Keyed(Expired(zeta[s]))
      BY <1>0 DEF Session, Keyed, Expired
    <3>. QED  BY <2>3, <3>1, KeysKept DEF ExpireInService
  <2>. QED  BY <2>1, <2>2, <2>3, <1>5 DEF ServiceTimeout
<1>6. ASSUME NEW s \in Sessions, Drop(s) PROVE KeysThere' /\ HandlersFindKeys'
  <2>1. Keyed(NoSession)
    BY DEF Keyed, NoSession
  <2>. QED  BY <1>6, <2>1, KeysKept DEF Drop
<1>7. ASSUME NEW s \in Sessions, NEW kid \in Kids, Receive(s, kid)
      PROVE  KeysThere' /\ HandlersFindKeys'
  BY <1>7, KeysReceive
<1>. QED  BY <1>1, <1>2, <1>3, <1>4, <1>5, <1>6, <1>7 DEF Next

LEMMA KeysInit == Init => KeysInv
BY TypeInit DEF Init, KeysInv, KeysThere, Keyed, NoSession, HandlersFindKeys

\* No sequence of packets, timeouts, failures of storage and calls has a handler unwrap a key
\* the session does not have: a state whose handlers unwrap the current or the pending key is
\* only ever entered with that key in its place (KeysThere).
THEOREM KeysFound == Spec => []HandlersFindKeys
<1>1. KeysInv => HandlersFindKeys
  BY DEF KeysInv
<1>. QED  BY <1>1, KeysInit, KeysStep, PTL DEF Spec

-----------------------------------------------------------------------------
(* Every live session is served and routed *)

\* A step changes one session.  It leaves the routes of the others alone, and the key ids that
\* the session then has are its own.
LEMMA OneSessionChanges ==
    ASSUME TypeOK, MapInv, NEW s \in Sessions, NEW z \in Session,
           zeta' = [zeta EXCEPT ![s] = z],
           \A t \in Sessions \ {s}, k \in Kids :
                Has(zeta[t], k) => session_map'[k] = session_map[k],
           \A k \in Kids : Has(z, k) =>
                session_map'[k] \in {s, None} /\ \A t \in Sessions \ {s} : ~Has(zeta[t], k),
           z.cur.recv # None => z.cur.recv # z.nxt.recv,
           SessionRoutes(s, z, session_map'),
           ~z.held => z.beta = "Null" /\ z.cur.recv = None /\ z.nxt.recv = None
    PROVE  MapInv'
<1>1. /\ zeta'[s] = z
      /\ \A t \in Sessions \ {s} : zeta'[t] = zeta[t]
  BY DEF TypeOK
<1>2. PlacesEmpty'
  BY <1>1 DEF MapInv, PlacesEmpty
<1>3. KidsExclusive'
  BY <1>1 DEF MapInv, KidsExclusive
<1>4. RoutesOwn'
  BY <1>1 DEF MapInv, RoutesOwn
<1>5. ASSUME NEW t \in Sessions \ {s} PROVE SessionRoutes(t, zeta[t], session_map')
  <2>1. zeta[t].cur.recv \in Kids \cup {None} /\ zeta[t].nxt.recv \in Kids \cup {None}
    BY DEF TypeOK, Session, DuplexKey
  <2>2. /\ zeta[t].cur.recv # None =>
              session_map'[zeta[t].cur.recv] = session_map[zeta[t].cur.recv]
        /\ zeta[t].nxt.recv # None =>
              session_map'[zeta[t].nxt.recv] = session_map[zeta[t].nxt.recv]
    BY <2>1 DEF Has
  <2>3. SessionRoutes(t, zeta[t], session_map)
    BY DEF MapInv, LiveRouted
  <2>. QED  BY <2>2, <2>3 DEF SessionRoutes
<1>6. LiveRouted'
  BY <1>1, <1>5 DEF LiveRouted
<1>. QED  BY <1>2, <1>3, <1>4, <1>6 DEF MapInv

LEMMA ServedChanges ==
    ASSUME TypeOK, LiveSessionsServed, panicked = "no", NEW s \in Sessions, NEW z,
           zeta' = [zeta EXCEPT ![s] = z],
           \/ Live(z) /\ sessions' = sessions \cup {s}
           \/ ~Live(z) /\ sessions' = sessions \ {s}
    PROVE  LiveSessionsServed'
<1>1. /\ zeta'[s] = z
      /\ \A t \in Sessions \ {s} : zeta'[t] = zeta[t]
  BY DEF TypeOK
<1>. QED  BY <1>1 DEF LiveSessionsServed, Live

Routing == RoutingInv /\ panicked = "no" /\ Distinct

\* What RoutingInv says of one session.
LEMMA RoutingOf ==
    ASSUME RoutingInv, NEW s \in Sessions
    PROVE  /\ zeta[s] \in Session
           /\ zeta[s].cur.recv \in Kids \cup {None} /\ zeta[s].nxt.recv \in Kids \cup {None}
           /\ SessionRoutes(s, zeta[s], session_map)
           /\ zeta[s].cur.recv # None => zeta[s].cur.recv # zeta[s].nxt.recv
           /\ zeta[s].beta # "Null" => zeta[s].held
           /\ \A k \in Kids : Has(zeta[s], k) =>
                session_map[k] \in {s, None} /\ \A t \in Sessions \ {s} : ~Has(zeta[t], k)
<1>1. zeta[s] \in Session
  BY DEF RoutingInv, TypeOK
<1>2. zeta[s].cur.recv \in Kids \cup {None} /\ zeta[s].nxt.recv \in Kids \cup {None}
  BY <1>1 DEF Session, DuplexKey
<1>. QED  BY <1>1, <1>2 DEF RoutingInv, MapInv, PlacesEmpty, KidsExclusive, RoutesOwn, LiveRouted

\* A live session has a route, of the current or of the pending key id.
LEMMA LiveHasRoute ==
    ASSUME RoutingInv, NEW s \in Sessions, Live(zeta[s])
    PROVE  \E k \in Kids : Has(zeta[s], k) /\ session_map[k] = s
<1>1. zeta[s].beta \in Betas \ {"Null"}
  BY RoutingOf DEF Live, Session
<1>. QED  BY <1>1, RoutingOf DEF SessionRoutes, Has, Betas

\* expire, with the session map as it is or after a remap that left the session a route.
LEMMA ExpireRouting ==
    ASSUME Routing, NEW s \in Sessions, NEW map \in [Kids -> Sessions \cup {None, Dead}],
           ExpireFrom(s, map), Live(zeta[s]),
           \A t \in Sessions \ {s}, k \in Kids : Has(zeta[t], k) => map[k] = session_map[k],
           \A k \in Kids : Has(zeta[s], k) => map[k] \in {s, None},
           \E k \in Kids : Has(zeta[s], k) /\ map[k] = s
    PROVE  MapInv' /\ LiveSessionsServed'
<1>. DEFINE z == Expired(zeta[s])
<1>1. zeta[s] \in Session
  BY RoutingOf DEF Routing
<1>2. /\ z \in Session /\ z.beta = "Null" /\ z.held = zeta[s].held
      /\ z.cur = zeta[s].cur /\ z.nxt = zeta[s].nxt
  BY <1>1 DEF Expired, Session, Betas
<1>3. \A k \in Kids : Has(z, k) <=> Has(zeta[s], k)
  BY <1>2 DEF Has
<1>4. \A k \in Kids : session_map'[k] = IF Has(zeta[s], k) THEN None ELSE map[k]
  BY <1>1, RecvKidsHas DEF ExpireFrom, Without
<1>5. SessionRoutes(s, z, session_map')
  BY <1>2 DEF SessionRoutes
<1>6. MapInv'
  <2>. HIDE DEF z
  <2>1. zeta' = [zeta EXCEPT ![s] = z] /\ TypeOK /\ MapInv
    BY DEF ExpireFrom, Routing, RoutingInv, z
  <2>2. \A k \in Kids : Has(z, k) =>
          session_map'[k] \in {s, None} /\ \A t \in Sessions \ {s} : ~Has(zeta[t], k)
    BY <1>3, <1>4, RoutingOf DEF Routing
  <2>3. \A t \in Sessions \ {s}, k \in Kids : Has(zeta[t], k) => session_map'[k] = session_map[k]
    BY <1>4, RoutingOf DEF Routing
  <2>4. /\ z.cur.recv # None => z.cur.recv # z.nxt.recv
        /\ z.held
    BY <1>2, RoutingOf DEF Routing, Live
  <2>. QED  BY <2>1, <2>2, <2>3, <2>4, <1>2, <1>5, OneSessionChanges
<1>7. sessions' = sessions \ {s}
  BY ForgetSessions DEF ExpireFrom, Routing, RoutingInv
<1>8. LiveSessionsServed'
  BY <1>2, <1>7, ServedChanges DEF ExpireFrom, Routing, RoutingInv, Live
<1>. QED  BY <1>6, <1>8

LEMMA ExpireNowRouting ==
    ASSUME Routing, NEW s \in Sessions, ExpireFrom(s, session_map), Live(zeta[s])
    PROVE  MapInv' /\ LiveSessionsServed'
<1>1. session_map \in [Kids -> Sessions \cup {None, Dead}]
  BY DEF Routing, RoutingInv, TypeOK
<1>2. \A k \in Kids : Has(zeta[s], k) => session_map[k] \in {s, None}
  BY RoutingOf DEF Routing
<1>. QED  BY <1>1, <1>2, LiveHasRoute, ExpireRouting DEF Routing

\* A session that changes without the session map keeps its key ids, or exchanges them.
LEMMA BecomeRouting ==
    ASSUME Routing, NEW s \in Sessions, NEW z \in Session, Become(s, z),
           Live(zeta[s]), Live(z), SessionRoutes(s, z, session_map),
           \/ z.cur.recv = zeta[s].cur.recv /\ z.nxt.recv = zeta[s].nxt.recv
           \/ z.cur.recv = zeta[s].nxt.recv /\ z.nxt.recv = zeta[s].cur.recv
    PROVE  MapInv' /\ LiveSessionsServed'
<1>1. \A k \in Kids : Has(z, k) <=> Has(zeta[s], k)
  BY DEF Has
<1>2. z.cur.recv # None => z.cur.recv # z.nxt.recv
  BY RoutingOf DEF Routing
<1>3. \A k \in Kids : Has(z, k) =>
        session_map'[k] \in {s, None} /\ \A t \in Sessions \ {s} : ~Has(zeta[t], k)
  BY <1>1, RoutingOf DEF Routing, Become
<1>4. MapInv'
  BY <1>2, <1>3, OneSessionChanges DEF Routing, RoutingInv, Become, Live
<1>5. s \in sessions
  BY DEF Routing, RoutingInv, LiveSessionsServed
<1>6. LiveSessionsServed'
  BY <1>5, ServedChanges DEF Routing, RoutingInv, Become
<1>. QED  BY <1>4, <1>6

\* A session whose pending key id is remapped to a fresh one.
LEMMA RemapRouting ==
    ASSUME Routing, NEW s \in Sessions, NEW z \in Session, NEW kid \in Kids,
           \A t \in Sessions : ~Has(zeta[t], kid),
           zeta' = [zeta EXCEPT ![s] = z], session_map' = Remapped(s, kid),
           sessions' = sessions, Live(zeta[s]), Live(z),
           z.cur.recv = zeta[s].cur.recv, z.nxt.recv \in {kid, zeta[s].nxt.recv},
           z.beta \in {"A1", "S2", "R1", "R2"},
           z.beta \in {"S2", "R1", "R2"} => zeta[s].beta \in {"S2", "R1"},
           z.nxt.recv = kid \/ z.beta = "S2" \/ (z.beta = "R1" /\ z.lost)
    PROVE  MapInv' /\ LiveSessionsServed'
<1>1. TypeOK /\ MapInv /\ RoutesOwn
  BY DEF Routing, RoutingInv, MapInv
<1>2. /\ session_map'[kid] = s
      /\ \A k \in Kids \ {kid} :
            session_map'[k] = IF k = zeta[s].nxt.recv THEN None ELSE session_map[k]
  BY <1>1, RemappedRoutes
<1>3. /\ zeta[s].cur.recv \in Kids \cup {None} /\ zeta[s].nxt.recv \in Kids \cup {None}
      /\ zeta[s].cur.recv # None => zeta[s].cur.recv # zeta[s].nxt.recv
      /\ zeta[s].cur.recv # kid /\ zeta[s].nxt.recv # kid
      /\ SessionRoutes(s, zeta[s], session_map)
  BY RoutingOf DEF Routing, Has
<1>4. \A k \in Kids : Has(z, k) =>
        session_map'[k] \in {s, None} /\ \A t \in Sessions \ {s} : ~Has(zeta[t], k)
  BY <1>2, RoutingOf DEF Routing, Has
<1>5. \A t \in Sessions \ {s}, k \in Kids : Has(zeta[t], k) => session_map'[k] = session_map[k]
  <2>. SUFFICES ASSUME NEW t \in Sessions \ {s}, NEW k \in Kids, Has(zeta[t], k)
                PROVE  session_map'[k] = session_map[k]
    OBVIOUS
  <2>1. ~Has(zeta[s], k)
    BY <1>1 DEF MapInv, KidsExclusive
  <2>. QED  BY <2>1, <1>2 DEF Has
<1>6. z.cur.recv # None => z.cur.recv # z.nxt.recv
  BY <1>3
<1>7. SessionRoutes(s, z, session_map')
  BY <1>2, <1>3, ReferenceAssumption DEF SessionRoutes
<1>8. MapInv'
  BY <1>1, <1>4, <1>5, <1>6, <1>7, OneSessionChanges DEF Live
<1>9. s \in sessions
  BY DEF Routing, RoutingInv, LiveSessionsServed
<1>10. LiveSessionsServed'
  BY <1>9, ServedChanges DEF Routing, RoutingInv
<1>. QED  BY <1>8, <1>10

\* The key ids and the state of a session after a handler.
LEMMA SessionFields ==
    ASSUME NEW z \in Session, NEW kid \in Kids
    PROVE  /\ Completed(z).beta = "A3" /\ Completed(z).held = z.held
           /\ Completed(z).cur.recv = z.cur.recv /\ Completed(z).nxt.recv = z.nxt.recv
           /\ Confirmed(z).beta = "S2" /\ Confirmed(z).held = z.held
           /\ Confirmed(z).cur.recv = z.nxt.recv /\ Confirmed(z).nxt.recv = z.cur.recv
           /\ Acknowledged(z).beta = "S2" /\ Acknowledged(z).held = z.held
           /\ Acknowledged(z).cur.recv = z.cur.recv /\ Acknowledged(z).nxt.recv = z.nxt.recv
           /\ Switched(z).beta = "S1" /\ Switched(z).held = z.held /\ Switched(z).lost = z.lost
           /\ Switched(z).cur.recv = z.nxt.recv /\ Switched(z).nxt.recv = z.cur.recv
           /\ Restarted(z, kid).beta = "A1" /\ Restarted(z, kid).held = z.held
           /\ Restarted(z, kid).cur.recv = z.cur.recv /\ Restarted(z, kid).nxt.recv = kid
           /\ Offering(z, kid).beta = "R1" /\ Offering(z, kid).held = z.held
           /\ Offering(z, kid).cur.recv = z.cur.recv /\ Offering(z, kid).nxt.recv = kid
           /\ Answered(z, kid).beta = "R2" /\ Answered(z, kid).held = z.held
           /\ Answered(z, kid).cur.recv = z.cur.recv /\ Answered(z, kid).nxt.recv = kid
<1>. USE DEF Session, DuplexKey
<1>1. /\ Completed(z).beta = "A3" /\ Completed(z).held = z.held
      /\ Completed(z).cur.recv = z.cur.recv /\ Completed(z).nxt.recv = z.nxt.recv
  BY DEF Completed
<1>2. /\ Confirmed(z).beta = "S2" /\ Confirmed(z).held = z.held
      /\ Confirmed(z).cur.recv = z.nxt.recv /\ Confirmed(z).nxt.recv = z.cur.recv
  BY DEF Confirmed, Flip
<1>3. /\ Acknowledged(z).beta = "S2" /\ Acknowledged(z).held = z.held
      /\ Acknowledged(z).cur.recv = z.cur.recv /\ Acknowledged(z).nxt.recv = z.nxt.recv
  BY DEF Acknowledged
<1>4. /\ Switched(z).beta = "S1" /\ Switched(z).held = z.held /\ Switched(z).lost = z.lost
      /\ Switched(z).cur.recv = z.nxt.recv /\ Switched(z).nxt.recv = z.cur.recv
  BY DEF Switched, Flip, Rekeyed
<1>5. /\ Restarted(z, kid).beta = "A1" /\ Restarted(z, kid).held = z.held
      /\ Restarted(z, kid).cur.recv = z.cur.recv /\ Restarted(z, kid).nxt.recv = kid
  BY DEF Restarted, NoKey
<1>6. /\ Offering(z, kid).beta = "R1" /\ Offering(z, kid).held = z.held
      /\ Offering(z, kid).cur.recv = z.cur.recv /\ Offering(z, kid).nxt.recv = kid
  BY DEF Offering
<1>7. /\ Answered(z, kid).beta = "R2" /\ Answered(z, kid).held = z.held
      /\ Answered(z, kid).cur.recv = z.cur.recv /\ Answered(z, kid).nxt.recv = kid
  BY DEF Answered
<1>. QED  BY <1>1, <1>2, <1>3, <1>4, <1>5, <1>6, <1>7

LEMMA RestartRouting ==
    ASSUME Routing, NEW s \in Sessions, zeta[s].beta \in {"A1", "A3"}, RestartHandshake(s)
    PROVE  MapInv' /\ LiveSessionsServed'
<1>1. zeta[s] \in Session /\ Live(zeta[s])
  BY RoutingOf DEF Routing, Live
<1>2. PICK kid \in GenKid(Without(session_map, {Forgotten(zeta[s])})) :
        /\ zeta' = [zeta EXCEPT ![s] = Restarted(zeta[s], kid)]
        /\ session_map' = Remapped(s, kid)
  BY DEF RestartHandshake
<1>3. kid \in Kids /\ \A t \in Sessions : ~Has(zeta[t], kid)
  BY GenKidFresh DEF Routing, RoutingInv
<1>4. Restarted(zeta[s], kid) \in Session
  BY <1>1, <1>3, SessionTypes
<1>5. /\ Restarted(zeta[s], kid).beta = "A1" /\ Live(Restarted(zeta[s], kid))
      /\ Restarted(zeta[s], kid).cur.recv = zeta[s].cur.recv
      /\ Restarted(zeta[s], kid).nxt.recv = kid
  BY <1>1, <1>3, SessionFields DEF Live
<1>. QED  BY <1>1, <1>2, <1>3, <1>4, <1>5, RemapRouting DEF RestartHandshake

LEMMA AnswerRouting ==
    ASSUME Routing, NEW s \in Sessions, zeta[s].beta \in {"S2", "R1"},
           NEW kid \in GenKid(Without(session_map, {Forgotten(zeta[s])})), AnswerK1(s, kid)
    PROVE  MapInv' /\ LiveSessionsServed'
<1>. DEFINE z == zeta[s]
<1>1. /\ z \in Session /\ Live(z) /\ SessionRoutes(s, z, session_map)
      /\ z.cur.recv \in Kids \cup {None}
      /\ z.cur.recv # None => z.cur.recv # z.nxt.recv
  BY RoutingOf DEF Routing, Live
<1>2. kid \in Kids /\ \A t \in Sessions : ~Has(zeta[t], kid)
  BY GenKidFresh DEF Routing, RoutingInv
<1>3. CASE /\ zeta' = [zeta EXCEPT ![s] = Answered(z, kid)]
           /\ session_map' = Remapped(s, kid) /\ sessions' = sessions
  <2>1. Answered(z, kid) \in Session
    BY <1>1, <1>2, SessionTypes
  <2>2. /\ Answered(z, kid).beta = "R2" /\ Live(Answered(z, kid))
        /\ Answered(z, kid).cur.recv = z.cur.recv /\ Answered(z, kid).nxt.recv = kid
    BY <1>1, <1>2, SessionFields DEF Live
  <2>. QED  BY <1>1, <1>2, <1>3, <2>1, <2>2, RemapRouting
<1>4. CASE ExpireFrom(s, Remapped(s, kid))
  <2>1. TypeOK /\ RoutesOwn
    BY DEF Routing, RoutingInv, MapInv
  <2>2. /\ Remapped(s, kid)[kid] = s
        /\ \A k \in Kids \ {kid} : Remapped(s, kid)[k] =
                IF k = z.nxt.recv THEN None ELSE session_map[k]
    BY <1>2, <2>1, RemappedRoutes
  <2>3. Remapped(s, kid) \in [Kids -> Sessions \cup {None, Dead}]
    BY <1>2, <2>1, RemappedType
  <2>4. ASSUME NEW t \in Sessions \ {s}, NEW k \in Kids, Has(zeta[t], k)
        PROVE  Remapped(s, kid)[k] = session_map[k]
    <3>1. ~Has(zeta[s], k)
      BY <2>4, RoutingOf DEF Routing
    <3>. QED  BY <3>1, <2>2, <2>4, <1>2 DEF Has
  <2>5. \A k \in Kids : Has(z, k) => Remapped(s, kid)[k] \in {s, None}
    BY <1>2, <2>2, RoutingOf DEF Routing
  <2>6. z.cur.recv \in Kids /\ session_map[z.cur.recv] = s
    BY <1>1 DEF SessionRoutes
  <2>7. Has(z, z.cur.recv) /\ Remapped(s, kid)[z.cur.recv] = s
    BY <1>1, <1>2, <2>2, <2>6, ReferenceAssumption DEF Has
  <2>. QED  BY <1>1, <1>4, <2>3, <2>4, <2>5, <2>6, <2>7, ExpireRouting
<1>5. CASE /\ zeta' = [zeta EXCEPT ![s] = [z EXCEPT !.lost = z.lost \/ z.beta = "R1"]]
           /\ session_map' = Remapped(s, kid) /\ sessions' = sessions
  <2>. DEFINE y == [z EXCEPT !.lost = z.lost \/ z.beta = "R1"]
  <2>1. y \in Session
    BY <1>1, <1>2, SessionTypes
  <2>2. /\ y.beta = z.beta /\ Live(y) /\ (z.beta = "R1" => y.lost)
        /\ y.cur.recv = z.cur.recv /\ y.nxt.recv = z.nxt.recv
    BY <1>1 DEF Session, Live
  <2>3. zeta' = [zeta EXCEPT ![s] = y] /\ session_map' = Remapped(s, kid) /\ sessions' = sessions
    BY <1>5
  <2>. HIDE DEF y
  <2>. QED  BY <1>1, <1>2, <2>1, <2>2, <2>3, RemapRouting
<1>. QED  BY <1>3, <1>4, <1>5 DEF AnswerK1

LEMMA ReceiveRouting ==
    ASSUME Routing, KeysInv, NEW s \in Sessions, NEW kid \in Kids, Receive(s, kid)
    PROVE  MapInv' /\ LiveSessionsServed'
<1>. DEFINE z == zeta[s]
<1>1. /\ z \in Session /\ SessionRoutes(s, z, session_map)
      /\ z.beta # "Null" => Live(z)
      /\ Keyed(z)
  BY RoutingOf DEF Routing, Live, KeysInv, KeysThere
<1>2. CASE ReceivedX2(s, kid)
  <2>1. z.beta = "A1"
    BY <1>2 DEF ReceivedX2
  <2>2. CASE Become(s, Completed(z))
    <3>1. Completed(z) \in Session
      BY <1>1, SessionTypes
    <3>2. /\ Completed(z).beta = "A3" /\ Live(Completed(z))
          /\ Completed(z).cur.recv = z.cur.recv /\ Completed(z).nxt.recv = z.nxt.recv
      BY <1>1, <2>1, SessionFields DEF Live
    <3>3. SessionRoutes(s, Completed(z), session_map)
      BY <1>1, <2>1, <3>2 DEF SessionRoutes
    <3>. QED  BY <1>1, <2>1, <2>2, <3>1, <3>2, <3>3, BecomeRouting
  <2>3. CASE RestartHandshake(s)
    BY <2>1, <2>3, RestartRouting
  <2>. QED  BY <1>2, <2>2, <2>3 DEF ReceivedX2
<1>3. CASE ReceivedD(s, kid)
  BY <1>1, <1>3, ExpireNowRouting DEF ReceivedD, Keyed
<1>4. CASE ReceivedC1(s, kid)
  <2>1. z.beta \in {"A3", "R2"}
    BY <1>4 DEF ReceivedC1
  <2>2. CASE Become(s, Confirmed(z))
    <3>1. Confirmed(z) \in Session
      BY <1>1, SessionTypes
    <3>2. /\ Confirmed(z).beta = "S2" /\ Live(Confirmed(z))
          /\ Confirmed(z).cur.recv = z.nxt.recv /\ Confirmed(z).nxt.recv = z.cur.recv
      BY <1>1, <2>1, SessionFields DEF Live
    <3>3. SessionRoutes(s, Confirmed(z), session_map)
      BY <1>1, <2>1, <3>2 DEF SessionRoutes
    <3>. QED  BY <1>1, <2>1, <2>2, <3>1, <3>2, <3>3, BecomeRouting
  <2>. QED  BY <1>1, <1>4, <2>1, <2>2, ExpireNowRouting DEF ReceivedC1
<1>5. CASE ReceivedC2(s, kid)
  <2>1. /\ z.beta = "S1" /\ Become(s, Acknowledged(z))
        /\ kid = z.cur.recv /\ session_map[kid] = s
    BY <1>1, <1>5 DEF ReceivedC2, Keyed, Routed
  <2>2. Acknowledged(z) \in Session
    BY <1>1, SessionTypes
  <2>3. /\ Acknowledged(z).beta = "S2" /\ Live(Acknowledged(z))
        /\ Acknowledged(z).cur.recv = z.cur.recv /\ Acknowledged(z).nxt.recv = z.nxt.recv
    BY <1>1, <2>1, SessionFields DEF Live
  <2>4. SessionRoutes(s, Acknowledged(z), session_map)
    BY <2>1, <2>3, ReferenceAssumption DEF SessionRoutes
  <2>. QED  BY <1>1, <2>1, <2>2, <2>3, <2>4, BecomeRouting
<1>6. CASE ReceivedK1(s, kid)
  <2>1. z.beta \in {"S2", "R1"} /\ z.cur.keyed
    BY <1>1, <1>6 DEF ReceivedK1, AnswersK1, Keyed
  <2>. QED  BY <1>1, <1>6, <2>1, ExpireNowRouting, AnswerRouting DEF ReceivedK1
<1>7. CASE ReceivedK2(s, kid)
  <2>1. /\ z.beta = "R1" /\ kid = z.cur.recv /\ session_map[kid] = s
        /\ Become(s, Switched(z)) \/ ExpireFrom(s, session_map)
    BY <1>1, <1>7 DEF ReceivedK2, Keyed, Routed
  <2>2. CASE Become(s, Switched(z))
    <3>1. Switched(z) \in Session
      BY <1>1, SessionTypes
    <3>2. /\ Switched(z).beta = "S1" /\ Live(Switched(z)) /\ Switched(z).lost = z.lost
          /\ Switched(z).cur.recv = z.nxt.recv /\ Switched(z).nxt.recv = z.cur.recv
      BY <1>1, <2>1, SessionFields DEF Live
    <3>3. SessionRoutes(s, Switched(z), session_map)
      BY <1>1, <2>1, <3>2 DEF SessionRoutes
    <3>. QED  BY <1>1, <2>1, <2>2, <3>1, <3>2, <3>3, BecomeRouting
  <2>. QED  BY <1>1, <2>1, <2>2, ExpireNowRouting
<1>. QED  BY <1>2, <1>3, <1>4, <1>5, <1>6, <1>7 DEF Receive

\* A session with one key id, which no session has and which is routed to it.
LEMMA NewSessionRouting ==
    ASSUME Routing, NEW s \in Sessions, NEW z \in Session, NEW kid \in Kids,
           \A t \in Sessions : ~Has(zeta[t], kid),
           Live(z),
           \/ z.beta = "A1" /\ z.nxt.recv = kid /\ z.cur.recv = None
           \/ z.beta = "S1" /\ z.cur.recv = kid /\ z.nxt.recv = None,
           zeta' = [zeta EXCEPT ![s] = z], session_map' = [session_map EXCEPT ![kid] = s],
           sessions' = sessions \cup {s}
    PROVE  MapInv' /\ LiveSessionsServed'
<1>1. \A k \in Kids : session_map'[k] = IF k = kid THEN s ELSE session_map[k]
  BY DEF Routing, RoutingInv, TypeOK
<1>2. \A k \in Kids : Has(z, k) => k = kid
  BY ReferenceAssumption DEF Has
<1>3. SessionRoutes(s, z, session_map')
  BY <1>1, ReferenceAssumption DEF SessionRoutes
<1>4. \A t \in Sessions \ {s}, k \in Kids : Has(zeta[t], k) => session_map'[k] = session_map[k]
  BY <1>1
<1>5. \A k \in Kids : Has(z, k) =>
        session_map'[k] \in {s, None} /\ \A t \in Sessions \ {s} : ~Has(zeta[t], k)
  BY <1>1, <1>2
<1>6. MapInv'
  BY <1>3, <1>4, <1>5, ReferenceAssumption, OneSessionChanges DEF Routing, RoutingInv, Live
<1>7. LiveSessionsServed'
  BY ServedChanges DEF Routing, RoutingInv
<1>. QED  BY <1>6, <1>7

LEMMA DropRouting ==
    ASSUME Routing, NEW s \in Sessions, Drop(s)
    PROVE  MapInv' /\ LiveSessionsServed'
<1>1. /\ NoSession \in Session /\ NoSession.beta = "Null" /\ ~Live(NoSession)
      /\ NoSession.cur.recv = None /\ NoSession.nxt.recv = None
  BY DEF Session, DuplexKey, Betas, NoKey, NoSession, Live
<1>2. \A k \in Kids : ~Has(NoSession, k)
  BY <1>1, ReferenceAssumption DEF Has
<1>3. ASSUME NEW t \in Sessions \ {s}, NEW k \in Kids, Has(zeta[t], k)
      PROVE  session_map'[k] = session_map[k]
  <2>1. session_map[k] \in {t, None} /\ ~Has(zeta[s], k)
    BY <1>3, RoutingOf DEF Routing
  <2>2. k \notin RecvKids(zeta[s])
    BY <2>1, RecvKidsHas, RoutingOf DEF Routing
  <2>. QED  BY <2>1, <2>2, ReferenceAssumption DEF Drop, Without
<1>4. SessionRoutes(s, NoSession, session_map')
  BY <1>1 DEF SessionRoutes
<1>5. MapInv'
  BY <1>1, <1>2, <1>3, <1>4, OneSessionChanges DEF Routing, RoutingInv, Drop
<1>6. sessions' = sessions \ {s}
  <2>1. session_map \in [Kids -> Sessions \cup {None, Dead}] /\ TypeOK
    BY DEF Routing, RoutingInv, TypeOK
  <2>2. \A k \in Kids : Has(zeta[s], k) => session_map[k] \in {s, None}
    BY RoutingOf DEF Routing
  <2>3. CASE Live(zeta[s])
    BY <2>1, <2>2, <2>3, LiveHasRoute, ForgetSessions DEF Routing, Drop
  <2>4. CASE ~Live(zeta[s])
    <3>1. s \notin sessions
      BY <2>4 DEF Routing, RoutingInv, LiveSessionsServed
    <3>. QED  BY <2>1, <2>2, <3>1, ForgetSessions DEF Drop
  <2>. QED  BY <2>3, <2>4
<1>7. LiveSessionsServed'
  BY <1>1, <1>6, ServedChanges DEF Routing, RoutingInv, Drop
<1>. QED  BY <1>5, <1>7

LEMMA ServiceRouting ==
    ASSUME Routing, NEW s \in Sessions, ServiceTimeout(s)
    PROVE  MapInv' /\ LiveSessionsServed'
<1>. DEFINE z == zeta[s]
<1>1. z \in Session /\ (z.beta # "Null" => Live(z))
  BY RoutingOf DEF Routing, Live
<1>2. CASE z.beta \in {"A1", "A3"} /\ RestartHandshake(s)
  BY <1>2, RestartRouting
<1>3. CASE z.beta = "S2" /\ StartRekey(s)
  <2>1. PICK kid \in GenKid(Without(session_map, {Forgotten(z)})) :
          /\ zeta' = [zeta EXCEPT ![s] = Offering(z, kid)]
          /\ session_map' = Remapped(s, kid)
    BY <1>3 DEF StartRekey
  <2>2. kid \in Kids /\ \A t \in Sessions : ~Has(zeta[t], kid)
    BY GenKidFresh DEF Routing, RoutingInv
  <2>3. Offering(z, kid) \in Session
    BY <1>1, <2>2, SessionTypes
  <2>4. /\ Offering(z, kid).beta = "R1" /\ Live(Offering(z, kid))
        /\ Offering(z, kid).cur.recv = z.cur.recv /\ Offering(z, kid).nxt.recv = kid
    BY <1>1, <1>3, <2>2, SessionFields DEF Live
  <2>. QED  BY <1>1, <1>3, <2>1, <2>2, <2>3, <2>4, RemapRouting DEF StartRekey
<1>4. CASE ExpireInService(s)
  <2>. DEFINE y == Expired(z)
  <2>1. /\ y \in Session /\ y.beta = "Null" /\ y.held = z.held
        /\ y.cur = z.cur /\ y.nxt = z.nxt
    BY <1>1 DEF Expired, Session, Betas
  <2>2. z.held /\ zeta' = [zeta EXCEPT ![s] = y] /\ session_map' = session_map
    BY <1>4 DEF ServiceTimeout, ExpireInService
  <2>. HIDE DEF y
  <2>3. \A k \in Kids : Has(y, k) =>
          session_map'[k] \in {s, None} /\ \A t \in Sessions \ {s} : ~Has(zeta[t], k)
    BY <2>1, <2>2, RoutingOf DEF Routing, Has
  <2>4. SessionRoutes(s, y, session_map')
    BY <2>1 DEF SessionRoutes
  <2>5. y.cur.recv # None => y.cur.recv # y.nxt.recv
    BY <2>1, RoutingOf DEF Routing
  <2>6. MapInv'
    BY <2>1, <2>2, <2>3, <2>4, <2>5, OneSessionChanges DEF Routing, RoutingInv
  <2>7. LiveSessionsServed'
    BY <1>4 DEF ExpireInService, LiveSessionsServed
  <2>. QED  BY <2>6, <2>7
<1>. QED  BY <1>2, <1>3, <1>4 DEF ServiceTimeout

LEMMA RoutingStep == Distinct /\ KeysInv /\ RoutingInv /\ [Next]_vars => RoutingInv'
<1>. SUFFICES ASSUME Distinct, KeysInv, RoutingInv, [Next]_vars
              PROVE  MapInv' /\ LiveSessionsServed'
  BY TypeStep DEF RoutingInv
<1>1. CASE UNCHANGED <<zeta, session_map, sessions, panicked>>
  BY <1>1 DEF RoutingInv, MapInv, PlacesEmpty, KidsExclusive, RoutesOwn, LiveRouted,
              LiveSessionsServed
<1>2. CASE UNCHANGED vars \/ ReceivedX1
  BY <1>1, <1>2 DEF vars, ReceivedX1
<1>3. CASE ~(UNCHANGED vars \/ ReceivedX1)
  <2>1. Routing
    BY <1>3 DEF Next, Routing
  <2>2. ASSUME NEW kid \in Kids, ReceivedX3(kid) PROVE MapInv' /\ LiveSessionsServed'
    <3>1. CASE UNCHANGED <<zeta, session_map, sessions>>
      BY <1>1, <2>2, <3>1 DEF ReceivedX3
    <3>2. CASE ~UNCHANGED <<zeta, session_map, sessions>>
      <4>1. PICK s \in Sessions : /\ zeta' = [zeta EXCEPT ![s] = Accepted(kid)]
                                  /\ session_map' = [session_map EXCEPT ![kid] = s]
                                  /\ sessions' = sessions \cup {s}
        BY <2>2, <3>2 DEF ReceivedX3
      <4>2. \A t \in Sessions : ~Has(zeta[t], kid)
        <5>1. \A t \in Sessions : kid \notin RecvKids(zeta[t])
          BY <2>2, <3>2 DEF ReceivedX3, Fresh
        <5>. QED  BY <5>1, RecvKidsHas DEF RoutingInv, TypeOK
      <4>3. Accepted(kid) \in Session
        BY NewSessionTypes
      <4>4. /\ Live(Accepted(kid)) /\ Accepted(kid).beta = "S1"
            /\ Accepted(kid).cur.recv = kid /\ Accepted(kid).nxt.recv = None
        BY DEF Accepted, NoSession, NoKey, Live
      <4>. QED  BY <2>1, <4>1, <4>2, <4>3, <4>4, NewSessionRouting
    <3>. QED  BY <3>1, <3>2
  <2>3. ASSUME NEW s \in Sessions, Open(s) PROVE MapInv' /\ LiveSessionsServed'
    <3>1. PICK kid \in GenKid(session_map), two \in BOOLEAN :
            /\ zeta' = [zeta EXCEPT ![s] = Opened(kid, two)]
            /\ session_map' = [session_map EXCEPT ![kid] = s]
      BY <2>3 DEF Open
    <3>2. kid \in Kids /\ \A t \in Sessions : ~Has(zeta[t], kid)
      BY GenKidFresh DEF RoutingInv
    <3>3. Opened(kid, two) \in Session
      BY <3>2, NewSessionTypes
    <3>4. /\ Live(Opened(kid, two)) /\ Opened(kid, two).beta = "A1"
          /\ Opened(kid, two).nxt.recv = kid /\ Opened(kid, two).cur.recv = None
      BY DEF Opened, NoSession, NoKey, Live
    <3>. QED  BY <2>1, <2>3, <3>1, <3>2, <3>3, <3>4, NewSessionRouting DEF Open
  <2>4. ASSUME NEW s \in Sessions, SendPayload(s) PROVE MapInv' /\ LiveSessionsServed'
    <3>1. /\ zeta[s] \in Session /\ Live(zeta[s]) /\ SessionRoutes(s, zeta[s], session_map)
          /\ Keyed(zeta[s])
      BY <2>4, RoutingOf DEF SendPayload, Live, KeysInv, KeysThere
    <3>2. ExpireFrom(s, session_map) \/ UNCHANGED vars
      BY <2>4, <3>1 DEF SendPayload, Keyed
    <3>. QED  BY <1>2, <2>1, <3>1, <3>2, ExpireNowRouting
  <2>5. ASSUME NEW s \in Sessions, ServiceTimeout(s) \/ Drop(s)
        PROVE  MapInv' /\ LiveSessionsServed'
    BY <2>1, <2>5, ServiceRouting, DropRouting
  <2>6. ASSUME NEW s \in Sessions, NEW kid \in Kids, Receive(s, kid)
        PROVE  MapInv' /\ LiveSessionsServed'
    BY <2>1, <2>6, ReceiveRouting
  <2>. QED  BY <1>3, <2>2, <2>3, <2>4, <2>5, <2>6 DEF Next
<1>. QED  BY <1>2, <1>3

LEMMA RoutingInit == Init => RoutingInv
<1>1. NoSession.beta = "Null" /\ NoSession.cur.recv = None /\ NoSession.nxt.recv = None
  BY DEF NoSession, NoKey
<1>. SUFFICES ASSUME Init PROVE MapInv /\ LiveSessionsServed
  BY TypeInit DEF RoutingInv
<1>2. \A s \in Sessions : zeta[s] = NoSession
  BY DEF Init
<1>3. \A s \in Sessions, kid \in Kids : ~Has(zeta[s], kid)
  BY <1>1, <1>2, ReferenceAssumption DEF Has
<1>4. PlacesEmpty /\ KidsExclusive /\ RoutesOwn
  BY <1>1, <1>2, <1>3 DEF PlacesEmpty, KidsExclusive, RoutesOwn
<1>5. LiveRouted
  BY <1>1, <1>2 DEF LiveRouted, SessionRoutes
<1>6. LiveSessionsServed
  BY <1>1, <1>2 DEF Init, LiveSessionsServed, Live
<1>. QED  BY <1>4, <1>5, <1>6 DEF MapInv

LEMMA RoutingAlways == ASSUME Distinct PROVE Spec => []RoutingInv
<1>1. Init => KeysInv /\ RoutingInv
  BY KeysInit, RoutingInit
<1>2. KeysInv /\ RoutingInv /\ [Next]_vars => (KeysInv /\ RoutingInv)'
  BY KeysStep, RoutingStep
<1>. QED  BY <1>1, <1>2, PTL DEF Spec

\* When no session gets a key id that another still remembers, ctx.sessions has the live
\* sessions and no other until `service` panics, for any number of sessions and key ids:
\* expire finds a session in ctx.sessions through the routes of its key ids only, and a live
\* session always has one that leads to it and none that leads to another.
THEOREM SessionsServed == ASSUME Distinct PROVE Spec => []LiveSessionsServed
<1>1. RoutingInv => LiveSessionsServed
  BY DEF RoutingInv
<1>. QED  BY <1>1, RoutingAlways, PTL

\* Under the same condition, the packet that a live session waits for is routed to it, unless
\* storage failed while it answered a K1 with an offer of its own under way.
THEOREM PacketsRouted == ASSUME Distinct PROVE Spec => []AwaitedPacketRouted
<1>1. RoutingInv => AwaitedPacketRouted
  <2>. SUFFICES ASSUME RoutingInv, NEW s \in Sessions, Live(zeta[s]), ~zeta[s].lost,
                       NEW kid \in Awaited(zeta[s])
                PROVE  kid # None /\ session_map[kid] = s
    BY DEF AwaitedPacketRouted
  <2>1. zeta[s].beta \in Betas \ {"Null"} /\ SessionRoutes(s, zeta[s], session_map)
    BY RoutingOf DEF Live, Session
  <2>. QED  BY <2>1 DEF SessionRoutes, Awaited, Betas
<1>. QED  BY <1>1, RoutingAlways, PTL

-----------------------------------------------------------------------------
(* Fragments: how packets are cut up.  Facts about the sender's running index *)
(* need induction, which is had from the least element of a set of numbers.   *)

\* A set of natural numbers has a least element.
LEMMA LeastNatural ==
    ASSUME NEW T, T \subseteq Nat, T # {}
    PROVE  \E x \in T : \A y \in T : x <= y
<1>1. PICK x \in T : \A y \in T : ~ (<<y, x>> \in OpToRel(<, Nat))
  BY NatLessThanWellFounded, WFMin
<1>2. \A y \in T : ~(y < x)
  BY <1>1 DEF OpToRel
<1>. QED  BY <1>2

\* Where fragment no of count begins in a packet of len bytes.
Offset(len, count, no) ==
    no * (len \div count) + (IF no <= len % count THEN no ELSE len % count)

\* Division with remainder.
LEMMA Quotient ==
    ASSUME NEW len \in Nat, NEW count \in Nat \ {0}
    PROVE  /\ len \div count \in Nat /\ len % count \in Nat /\ len % count < count
           /\ len = count * (len \div count) + (len % count)
  OBVIOUS

\* The fragments lie end to end from the beginning of the packet to its end.
LEMMA Offsets ==
    ASSUME NEW len \in Nat, NEW count \in Nat \ {0}
    PROVE  /\ Offset(len, count, 0) = 0
           /\ Offset(len, count, count) = len
           /\ \A no \in 0 .. count : Offset(len, count, no) \in Nat
           /\ \A no \in 0 .. count - 1 :
                Offset(len, count, no + 1) = Offset(len, count, no) + SizeOf(len, count, no)
<1>. DEFINE q == len \div count
            r == len % count
<1>1. q \in Nat /\ r \in Nat /\ r < count /\ len = count * q + r
  BY Quotient
<1>2. \A no : Offset(len, count, no) = no * q + (IF no <= r THEN no ELSE r)
  BY DEF Offset
<1>3. \A no : SizeOf(len, count, no) = q + (IF no < r THEN 1 ELSE 0)
  BY DEF SizeOf
<1>. HIDE DEF q, r
<1>4. Offset(len, count, 0) = 0
  <2>1. 0 * q = 0
    BY <1>1
  <2>. QED  BY <1>1, <1>2, <2>1
<1>5. Offset(len, count, count) = len
  <2>1. ~(count <= r)
    BY <1>1
  <2>. QED  BY <1>1, <1>2, <2>1
<1>6. ASSUME NEW no \in 0 .. count PROVE Offset(len, count, no) \in Nat
  <2>1. no * q \in Nat
    BY <1>1
  <2>. QED  BY <1>1, <1>2, <2>1
<1>7. ASSUME NEW no \in 0 .. count - 1
      PROVE  Offset(len, count, no + 1) = Offset(len, count, no) + SizeOf(len, count, no)
  <2>1. (no + 1) * q = no * q + q /\ no * q \in Nat /\ (no + 1) * q \in Nat
    BY <1>1
  <2>. QED  BY <1>1, <1>2, <1>3, <2>1
<1>. QED  BY <1>4, <1>5, <1>6, <1>7

\* The sender's running index is the offset, so the fragments it cuts are these.
LEMMA Cuts ==
    ASSUME NEW n, NEW len \in Nat, NEW mtu, NEW count \in Nat \ {0}, count = CeilingDiv(len, mtu)
    PROVE  FragmentsOf(n, len, mtu) =
             {[nonce |-> n, count |-> count, no |-> no, from |-> Offset(len, count, no),
               to |-> Offset(len, count, no + 1)] : no \in 0 .. count - 1}
<1>. DEFINE i[no \in 0 .. count] == IF no = 0 THEN 0 ELSE i[no - 1] + SizeOf(len, count, no - 1)
<1>1. \E f : f = [no \in 0 .. count |-> IF no = 0 THEN 0 ELSE f[no - 1] + SizeOf(len, count, no - 1)]
  <2>. DEFINE g == [no \in 0 .. count |-> Offset(len, count, no)]
  <2>1. ASSUME NEW no \in 0 .. count
        PROVE  g[no] = IF no = 0 THEN 0 ELSE g[no - 1] + SizeOf(len, count, no - 1)
    <3>1. CASE no = 0
      BY <3>1, Offsets
    <3>2. CASE no # 0
      <4>1. no - 1 \in 0 .. count - 1 /\ no - 1 \in 0 .. count /\ no - 1 + 1 = no
        BY <3>2
      <4>. QED  BY <3>2, <4>1, Offsets
    <3>. QED  BY <3>1, <3>2
  <2>2. g = [no \in 0 .. count |-> g[no]]
    OBVIOUS
  <2>. HIDE DEF g
  <2>3. g = [no \in 0 .. count |-> IF no = 0 THEN 0 ELSE g[no - 1] + SizeOf(len, count, no - 1)]
    BY <2>1, <2>2
  <2>. QED  BY <2>3
<1>2. i = [no \in 0 .. count |-> IF no = 0 THEN 0 ELSE i[no - 1] + SizeOf(len, count, no - 1)]
  BY <1>1
<1>3. FragmentsOf(n, len, mtu) =
       {[nonce |-> n, count |-> count, no |-> no, from |-> i[no], to |-> i[no + 1]] : no \in 0 .. count - 1}
  BY DEF FragmentsOf
<1>. HIDE DEF i
<1>4. \A no \in 0 .. count : i[no] = IF no = 0 THEN 0 ELSE i[no - 1] + SizeOf(len, count, no - 1)
  BY <1>2
<1>5. \A no \in 0 .. count : i[no] = Offset(len, count, no)
  <2>. DEFINE T == {no \in 0 .. count : i[no] # Offset(len, count, no)}
  <2>. SUFFICES ASSUME T # {} PROVE FALSE
    OBVIOUS
  <2>1. PICK x \in T : \A y \in T : x <= y
    <3>1. T \subseteq Nat
      OBVIOUS
    <3>. HIDE DEF T
    <3>. QED  BY <3>1, LeastNatural
  <2>2. x # 0 /\ x \in 0 .. count
    <3>1. 0 \in 0 .. count
      OBVIOUS
    <3>2. i[0] = Offset(len, count, 0)
      BY <1>4, <3>1, Offsets
    <3>. QED  BY <2>1, <3>2
  <2>3. x - 1 \in 0 .. count /\ x - 1 \in 0 .. count - 1 /\ x - 1 + 1 = x /\ ~(x <= x - 1)
    BY <2>2
  <2>4. i[x - 1] = Offset(len, count, x - 1)
    BY <2>1, <2>3
  <2>5. Offset(len, count, x) = Offset(len, count, x - 1) + SizeOf(len, count, x - 1)
    BY <2>3, Offsets
  <2>. QED  BY <1>4, <2>2, <2>4, <2>5
<1>6. \A no \in 0 .. count - 1 : i[no] = Offset(len, count, no) /\ i[no + 1] = Offset(len, count, no + 1)
  <2>1. \A no \in 0 .. count - 1 : no \in 0 .. count /\ no + 1 \in 0 .. count
    OBVIOUS
  <2>. QED  BY <1>5, <2>1
<1>. QED  BY <1>3, <1>6

\* Fragment no of count of the packet of nonce n, which has len bytes.
Cut(n, len, count, no) ==
    [nonce |-> n, count |-> count, no |-> no, from |-> Offset(len, count, no),
     to |-> Offset(len, count, no + 1)]

\* All of them, in order.
Pieces(n, len, count) == [k \in 1 .. count |-> Cut(n, len, count, k - 1)]

\* The fragments p hold len bytes from the first one on without a gap.
Whole(p, len) ==
    /\ p[1].from = 0 /\ p[Len(p)].to = len
    /\ \A k \in 1 .. Len(p) - 1 : p[k].to = p[k + 1].from

\* A fragment that was sent.
IsCut(f) ==
    \E n \in Nonces, count \in Nat \ {0} : \E no \in 0 .. count - 1 :
        lengths[n] > 0 /\ f = Cut(n, lengths[n], count, no)

\* Buffer b collects the packet of nonce n cut into count fragments, and would take any of them.
Collects(b, n, count) ==
    /\ b \in [fragments : [0 .. count - 1 -> SUBSET {Cut(n, lengths[n], count, no) : no \in 0 .. count - 1}],
              fragment_max_size : Nat, expiration_time : Nat]
    /\ \A no \in 0 .. count - 1 : b.fragments[no] \subseteq {Cut(n, lengths[n], count, no)}
    /\ \A no \in 0 .. count - 1 : SizeOf(lengths[n], count, no) <= b.fragment_max_size

\* The types of the counters.
DefragTypeOK == lengths \in [Nonces -> Nat] /\ time \in Nat

\* A buffer collects fragments of one cut of the packet of its nonce.
BuffersCollect ==
    \A n \in Nonces : fragment_map[n] # NoBuffer =>
        lengths[n] > 0 /\ \E count \in Nat \ {0} : Collects(fragment_map[n], n, count)

MapType == fragment_map = [n \in Nonces |-> fragment_map[n]]

\* The inductive invariant: all fragments on the way were cut from their packet, buffers hold
\* fragments of one cut, each in its place, and no fragment of that cut is too long for them.
DefragInv ==
    /\ DefragTypeOK /\ MapType
    /\ \A f \in wire : IsCut(f)
    /\ BuffersCollect
    /\ result.is \in {"packet", "refused"} => IsCut(result.f)
    /\ ReassembledWhole /\ RefusedOnlyAsCopy

USE DefragBufferAssumption

\* What a cut is made of.
LEMMA CutFields ==
    ASSUME NEW n, NEW len \in Nat, NEW count \in Nat \ {0}, NEW no \in 0 .. count - 1,
           NEW f, f = Cut(n, len, count, no)
    PROVE  /\ f.nonce = n /\ f.count = count /\ f.no = no
           /\ f.from = Offset(len, count, no) /\ f.to = Offset(len, count, no + 1)
           /\ f.to - f.from = SizeOf(len, count, no)
           /\ SizeOf(len, count, no) \in Nat
<1>1. /\ f.nonce = n /\ f.count = count /\ f.no = no
      /\ f.from = Offset(len, count, no) /\ f.to = Offset(len, count, no + 1)
  BY DEF Cut
<1>2. SizeOf(len, count, no) \in Nat
  BY Quotient DEF SizeOf
<1>3. Offset(len, count, no) \in Nat /\ Offset(len, count, no + 1) = Offset(len, count, no) + SizeOf(len, count, no)
  BY Offsets
<1>4. f.to - f.from = SizeOf(len, count, no)
  BY <1>1, <1>2, <1>3
<1>. QED  BY <1>1, <1>2, <1>4

\* No fragment is more than a byte longer than another.
LEMMA SizesDiffer ==
    ASSUME NEW len \in Nat, NEW count \in Nat \ {0}, NEW no \in 0 .. count - 1, NEW m \in 0 .. count - 1
    PROVE  SizeOf(len, count, m) <= SizeOf(len, count, no) + 1
  BY Quotient DEF SizeOf

\* All the fragments of one cut, in order, are the packet.
LEMMA WholePacket ==
    ASSUME NEW n \in Nonces, NEW len \in Nat, NEW count \in Nat \ {0},
           NEW p, p = Pieces(n, len, count)
    PROVE  Whole(p, len)
<1>1. Len(p) = count
  BY DEF Pieces
<1>2. \A k \in 1 .. count : p[k] = Cut(n, len, count, k - 1) /\ k - 1 \in 0 .. count - 1 /\ k - 1 + 1 = k
  BY DEF Pieces
<1>3. ASSUME NEW k \in 1 .. count, NEW j \in 0 .. count - 1, k = j + 1
      PROVE  p[k].from = Offset(len, count, j) /\ p[k].to = Offset(len, count, k)
  <2>1. p[k] = Cut(n, len, count, j)
    BY <1>2, <1>3
  <2>. QED  BY <1>3, <2>1, CutFields
<1>4. p[1].from = 0
  <2>1. 1 \in 1 .. count /\ 0 \in 0 .. count - 1 /\ 1 = 0 + 1
    OBVIOUS
  <2>2. p[1].from = Offset(len, count, 0)
    BY <1>3, <2>1
  <2>. QED  BY <2>2, Offsets
<1>5. p[count].to = len
  <2>1. count \in 1 .. count /\ count - 1 \in 0 .. count - 1 /\ count = count - 1 + 1
    OBVIOUS
  <2>2. p[count].to = Offset(len, count, count)
    BY <1>3, <2>1
  <2>. QED  BY <2>2, Offsets
<1>6. ASSUME NEW k \in 1 .. count - 1 PROVE p[k].to = p[k + 1].from
  <2>1. k \in 1 .. count /\ k + 1 \in 1 .. count /\ k - 1 \in 0 .. count - 1 /\ k = k - 1 + 1
        /\ k \in 0 .. count - 1
    OBVIOUS
  <2>2. p[k].to = Offset(len, count, k)
    BY <1>3, <2>1
  <2>3. p[k + 1].from = Offset(len, count, k)
    BY <1>3, <2>1
  <2>. QED  BY <2>2, <2>3
<1>. QED  BY <1>1, <1>4, <1>5, <1>6 DEF Whole

\* At first there are no fragments and no buffers.
LEMMA DefragInitInv == DefragInit => DefragInv
  BY DEF DefragInit, DefragInv, DefragTypeOK, MapType, BuffersCollect, ReassembledWhole, RefusedOnlyAsCopy

\* The number of fragments is not zero.
LEMMA CountPositive ==
    ASSUME NEW len \in Nat \ {0}, NEW mtu \in Nat \ {0}
    PROVE  CeilingDiv(len, mtu) \in Nat \ {0}
<1>1. PICK x \in Nat : x = len + mtu - 1 /\ x >= mtu
  OBVIOUS
<1>2. x \div mtu \in Nat /\ x % mtu \in Nat /\ x % mtu < mtu /\ x = mtu * (x \div mtu) + (x % mtu)
  BY Quotient
<1>3. x \div mtu # 0
  <2>. SUFFICES ASSUME x \div mtu = 0 PROVE FALSE
    OBVIOUS
  <2>1. mtu * (x \div mtu) = 0
    OBVIOUS
  <2>. QED  BY <1>1, <1>2, <2>1
<1>. QED  BY <1>1, <1>2, <1>3 DEF CeilingDiv

\* A packet that is sent again keeps its length, so that what was cut stays cut.
LEMMA SendInv ==
    ASSUME DefragInv, NEW n \in Nonces, NEW len \in 1 .. MaxLen, NEW mtu \in MIN_MTU .. MaxMtu,
           SendFragments(n, len, mtu)
    PROVE  DefragInv'
<1>1. /\ lengths' = [lengths EXCEPT ![n] = len] /\ lengths[n] \in {0, len}
      /\ wire' = wire \cup FragmentsOf(n, len, mtu) /\ UNCHANGED <<fragment_map, time, result>>
  BY DEF SendFragments
<1>2. len \in Nat \ {0} /\ mtu \in Nat \ {0}
  OBVIOUS
<1>3. DefragTypeOK' /\ MapType'
  BY <1>1, <1>2 DEF DefragInv, DefragTypeOK, MapType
<1>4. lengths'[n] = len /\ \A m \in Nonces : lengths[m] > 0 => lengths'[m] = lengths[m]
  BY <1>1, <1>2 DEF DefragInv, DefragTypeOK
<1>5. ASSUME NEW f, IsCut(f) PROVE IsCut(f)'
  BY <1>4, <1>5 DEF IsCut
<1>6. \A f \in wire' : IsCut(f)'
  <2>1. ASSUME NEW f \in FragmentsOf(n, len, mtu) PROVE IsCut(f)'
    <3>1. PICK count \in Nat \ {0} : count = CeilingDiv(len, mtu)
      BY <1>2, CountPositive
    <3>2. PICK no \in 0 .. count - 1 : f = Cut(n, len, count, no)
      BY <1>2, <2>1, <3>1, Cuts DEF Cut
    <3>3. lengths'[n] > 0 /\ f = Cut(n, lengths'[n], count, no)
      BY <1>2, <1>4, <3>2
    <3>. QED  BY <3>3 DEF IsCut
  <2>. QED  BY <1>1, <1>5, <2>1 DEF DefragInv
<1>7. BuffersCollect'
  <2>. SUFFICES ASSUME NEW m \in Nonces, fragment_map[m] # NoBuffer
                PROVE  lengths'[m] > 0 /\ \E count \in Nat \ {0} : Collects(fragment_map[m], m, count)'
    BY <1>1 DEF BuffersCollect, Collects
  <2>1. lengths[m] > 0 /\ \E count \in Nat \ {0} : Collects(fragment_map[m], m, count)
    BY DEF DefragInv, BuffersCollect
  <2>. QED  BY <1>1, <1>4, <2>1, SMTT(30) DEF Collects
<1>8. (result.is \in {"packet", "refused"} => IsCut(result.f))'
  BY <1>1, <1>5 DEF DefragInv
<1>9. ReassembledWhole' /\ RefusedOnlyAsCopy'
  <2>1. ASSUME NEW f, IsCut(f) PROVE lengths'[f.nonce] = lengths[f.nonce]
    <3>1. PICK m \in Nonces, count \in Nat \ {0} : \E no \in 0 .. count - 1 :
             lengths[m] > 0 /\ f = Cut(m, lengths[m], count, no)
      BY <2>1 DEF IsCut
    <3>2. f.nonce = m
      BY <3>1 DEF Cut
    <3>. QED  BY <1>4, <3>1, <3>2
  <2>. QED  BY <1>1, <2>1 DEF DefragInv, ReassembledWhole, RefusedOnlyAsCopy
<1>. QED  BY <1>3, <1>6, <1>7, <1>8, <1>9 DEF DefragInv

\* A map that is left alone.
LEMMA MapKept ==
    ASSUME DefragInv, UNCHANGED <<lengths, fragment_map>>
    PROVE  MapType' /\ BuffersCollect'
<1>1. MapType'
  BY DEF DefragInv, MapType
<1>2. ASSUME NEW m \in Nonces, fragment_map[m] # NoBuffer
      PROVE  lengths'[m] > 0 /\ \E c \in Nat \ {0} : Collects(fragment_map[m], m, c)'
  <2>1. lengths[m] > 0 /\ \E c \in Nat \ {0} : Collects(fragment_map[m], m, c)
    BY <1>2 DEF DefragInv, BuffersCollect
  <2>. QED  BY <2>1 DEF Collects
<1>. QED  BY <1>1, <1>2 DEF BuffersCollect

\* A buffer that is put into the map collects the packet of its nonce.
LEMMA MapStep ==
    ASSUME DefragInv, UNCHANGED lengths, NEW n \in Nonces, lengths[n] > 0,
           NEW count \in Nat \ {0}, NEW b, Collects(b, n, count),
           fragment_map' = [fragment_map EXCEPT ![n] = b]
    PROVE  MapType' /\ BuffersCollect' /\ fragment_map'[n] = b
<1>1. fragment_map'[n] = b /\ \A m \in Nonces : m # n => fragment_map'[m] = fragment_map[m]
  BY DEF DefragInv, MapType
<1>2. MapType'
  BY DEF DefragInv, MapType
<1>3. ASSUME NEW m \in Nonces, fragment_map'[m] # NoBuffer
      PROVE  lengths'[m] > 0 /\ \E c \in Nat \ {0} : Collects(fragment_map[m], m, c)'
  <2>1. CASE m = n
    <3>1. Collects(b, n, count)'
      BY DEF Collects
    <3>. QED  BY <1>1, <2>1, <3>1
  <2>2. CASE m # n
    <3>1. lengths[m] > 0 /\ \E c \in Nat \ {0} : Collects(fragment_map[m], m, c)
      BY <1>1, <1>3, <2>2 DEF DefragInv, BuffersCollect
    <3>2. PICK c \in Nat \ {0} : Collects(fragment_map[m], m, c)
      BY <3>1
    <3>3. PICK e : e = fragment_map[m] /\ e = fragment_map'[m]
      BY <1>1, <2>2
    <3>4. Collects(e, m, c)'
      BY <3>2, <3>3, SMTT(30) DEF Collects
    <3>. QED  BY <3>1, <3>3, <3>4
  <2>. QED  BY <2>1, <2>2
<1>. QED  BY <1>1, <1>2, <1>3 DEF BuffersCollect

\* The first fragment of a packet opens a buffer that has room for each of the others.
LEMMA NewBufferCollects ==
    ASSUME DefragTypeOK, NEW n \in Nonces, NEW count \in Nat \ {0}, NEW no \in 0 .. count - 1,
           NEW f, f = Cut(n, lengths[n], count, no)
    PROVE  Collects(NewBuffer(f), n, count)
<1>1. PICK len \in Nat : len = lengths[n]
  BY DEF DefragTypeOK
<1>2. f.count = count /\ f.no = no /\ f.to - f.from = SizeOf(len, count, no) /\ SizeOf(len, count, no) \in Nat
  BY <1>1, CutFields
<1>3. PICK b : b = NewBuffer(f)
  OBVIOUS
<1>4. /\ b.fragments = [x \in 0 .. count - 1 |-> IF x = no THEN {f} ELSE {}]
      /\ b.fragment_max_size = SizeOf(len, count, no) + 1
      /\ b \in [fragments : {b.fragments}, fragment_max_size : Nat, expiration_time : Nat]
  BY <1>2, <1>3 DEF NewBuffer, FragmentMaxSize, DefragTypeOK
<1>5. b.fragments \in [0 .. count - 1 -> SUBSET {Cut(n, lengths[n], count, x) : x \in 0 .. count - 1}]
  BY <1>4
<1>6. \A x \in 0 .. count - 1 : b.fragments[x] \subseteq {Cut(n, lengths[n], count, x)}
  BY <1>4
<1>7. \A x \in 0 .. count - 1 : SizeOf(lengths[n], count, x) <= b.fragment_max_size
  BY <1>1, <1>4, SizesDiffer
<1>. QED  BY <1>3, <1>4, <1>5, <1>6, <1>7 DEF Collects

\* A buffer takes its fragments.
LEMMA AddedCollects ==
    ASSUME DefragTypeOK, NEW n \in Nonces, NEW count \in Nat \ {0}, NEW no \in 0 .. count - 1,
           NEW f, f = Cut(n, lengths[n], count, no), NEW b, Collects(b, n, count)
    PROVE  Collects(Added(b, f), n, count)
<1>1. f.no = no
  BY DEF Cut
<1>2. PICK a : a = Added(b, f)
  OBVIOUS
<1>3. /\ a.fragments = [b.fragments EXCEPT ![no] = {f}]
      /\ a.fragment_max_size = b.fragment_max_size
      /\ a \in [fragments : {a.fragments}, fragment_max_size : Nat, expiration_time : Nat]
  <2>1. PICK S : b \in [fragments : S, fragment_max_size : Nat, expiration_time : Nat]
    BY DEF Collects
  <2>2. PICK now \in Nat : now = time + AssemblyTimeout
    BY DEF DefragTypeOK
  <2>3. a = [b EXCEPT !.fragments[no] = {f}, !.expiration_time = now]
    BY <1>1, <1>2, <2>2 DEF Added
  <2>. QED  BY <2>1, <2>3
<1>4. a.fragments \in [0 .. count - 1 -> SUBSET {Cut(n, lengths[n], count, x) : x \in 0 .. count - 1}]
  BY <1>3 DEF Collects
<1>5. \A x \in 0 .. count - 1 : a.fragments[x] \subseteq {Cut(n, lengths[n], count, x)}
  BY <1>3 DEF Collects
<1>6. \A x \in 0 .. count - 1 : SizeOf(lengths[n], count, x) <= a.fragment_max_size
  BY <1>3 DEF Collects
<1>. QED  BY <1>2, <1>3, <1>4, <1>5, <1>6 DEF Collects

\* What received_fragment does with a fragment keeps the invariant.
LEMMA ReceivedInv ==
    ASSUME DefragInv, NEW f \in wire, ReceivedFragment(f)
    PROVE  DefragInv'
<1>1. PICK n \in Nonces, count \in Nat \ {0} : \E no \in 0 .. count - 1 :
        lengths[n] > 0 /\ f = Cut(n, lengths[n], count, no)
  BY DEF DefragInv, IsCut
<1>2. PICK no \in 0 .. count - 1 : lengths[n] > 0 /\ f = Cut(n, lengths[n], count, no)
  BY <1>1
<1>3. PICK len \in Nat : len = lengths[n]
  BY DEF DefragInv, DefragTypeOK
<1>4. /\ f.nonce = n /\ f.count = count /\ f.no = no /\ f.to - f.from = SizeOf(len, count, no)
      /\ SizeOf(len, count, no) \in Nat
  BY <1>2, <1>3, CutFields
<1>5. UNCHANGED <<lengths, wire, time>>
  BY DEF ReceivedFragment
<1>6. DefragTypeOK' /\ (\A g \in wire' : IsCut(g)') /\ IsCut(f)'
  BY <1>5 DEF DefragInv, DefragTypeOK, IsCut
<1>. DEFINE buffer == fragment_map[n]
<1>7. CASE buffer = NoBuffer /\ f.count = 1
  <2>1. result' = [is |-> "packet", f |-> f, packet |-> <<f>>] /\ UNCHANGED fragment_map
    BY <1>4, <1>7 DEF ReceivedFragment
  <2>2. MapType' /\ BuffersCollect'
    BY <1>5, <2>1, MapKept
  <2>3. PICK p : p = <<f>>
    OBVIOUS
  <2>4. p = Pieces(n, len, count)
    <3>1. no = 0 /\ count = 1
      BY <1>4, <1>7
    <3>2. \A k \in 1 .. 1 : k - 1 = 0
      OBVIOUS
    <3>3. f = Cut(n, len, 1, 0)
      BY <1>2, <1>3, <3>1
    <3>4. \A k \in 1 .. 1 : Cut(n, len, 1, k - 1) = f
      BY <3>2, <3>3
    <3>5. <<f>> = [k \in 1 .. 1 |-> f]
      OBVIOUS
    <3>. QED  BY <2>3, <3>1, <3>4, <3>5 DEF Pieces
  <2>5. Whole(p, len)
    BY <2>4, WholePacket
  <2>6. result'.is = "packet" /\ result'.f = f /\ result'.packet = p
    BY <2>1, <2>3
  <2>7. ReassembledWhole' /\ RefusedOnlyAsCopy'
    BY <1>3, <1>4, <1>5, <2>5, <2>6 DEF ReassembledWhole, RefusedOnlyAsCopy, Whole
  <2>. QED  BY <1>6, <2>2, <2>6, <2>7 DEF DefragInv
<1>8. CASE buffer = NoBuffer /\ f.count > 1
  <2>1. result' = [is |-> "none", f |-> f] /\ fragment_map' = [fragment_map EXCEPT ![n] = NewBuffer(f)]
    BY <1>4, <1>8 DEF ReceivedFragment
  <2>2. Collects(NewBuffer(f), n, count)
    BY <1>2, NewBufferCollects DEF DefragInv
  <2>3. MapType' /\ BuffersCollect'
    BY <1>2, <1>5, <2>1, <2>2, MapStep
  <2>4. result'.is = "none"
    BY <2>1
  <2>5. ReassembledWhole' /\ RefusedOnlyAsCopy'
    BY <2>4 DEF ReassembledWhole, RefusedOnlyAsCopy
  <2>. QED  BY <1>6, <2>3, <2>4, <2>5 DEF DefragInv
<1>9. CASE buffer # NoBuffer
  <2>1. PICK c \in Nat \ {0} : Collects(buffer, n, c)
    BY <1>9 DEF DefragInv, BuffersCollect
  <2>2. DOMAIN buffer.fragments = 0 .. c - 1
    BY <2>1 DEF Collects
  <2>3. DOMAIN buffer.fragments = 0 .. f.count - 1 => c = count
    <3>. SUFFICES ASSUME 0 .. c - 1 = 0 .. count - 1 PROVE c = count
      BY <1>4, <2>2
    <3>1. c - 1 \in 0 .. count - 1 /\ count - 1 \in 0 .. c - 1
      OBVIOUS
    <3>. QED  BY <3>1
  <2>4. CASE Refuses(buffer, f)
    <3>1. result' = [is |-> "refused", f |-> f] /\ UNCHANGED fragment_map
      BY <1>4, <1>9, <2>4 DEF ReceivedFragment
    <3>2. MapType' /\ BuffersCollect'
      BY <1>5, <3>1, MapKept
    <3>3. result'.is = "refused" /\ result'.f = f
      BY <3>1
    <3>4. ASSUME DOMAIN buffer.fragments = 0 .. f.count - 1 PROVE f \in buffer.fragments[no]
      <4>1. ~(f.to - f.from > buffer.fragment_max_size)
        BY <1>3, <1>4, <2>1, <2>3, <3>4 DEF Collects
      <4>2. buffer.fragments[no] # {}
        BY <1>4, <2>4, <3>4, <4>1 DEF Refuses
      <4>. QED  BY <1>2, <2>1, <2>3, <3>4, <4>2 DEF Collects
    <3>5. ReassembledWhole' /\ RefusedOnlyAsCopy'
      BY <1>4, <3>1, <3>3, <3>4 DEF ReassembledWhole, RefusedOnlyAsCopy
    <3>. QED  BY <1>6, <3>2, <3>3, <3>5 DEF DefragInv
  <2>5. CASE ~Refuses(buffer, f)
    <3>1. /\ result' = IF Complete(Added(buffer, f), f.count)
                       THEN [is |-> "packet", f |-> f, packet |-> InOrder(Added(buffer, f), f.count)]
                       ELSE [is |-> "none", f |-> f]
          /\ fragment_map' = [fragment_map EXCEPT ![n] = Added(buffer, f)]
      BY <1>4, <1>9, <2>5 DEF ReceivedFragment
    <3>2. c = count
      BY <2>3, <2>5 DEF Refuses
    <3>3. PICK b : b = Added(buffer, f)
      OBVIOUS
    <3>4. Collects(b, n, count)
      BY <1>2, <2>1, <3>2, <3>3, AddedCollects DEF DefragInv
    <3>5. MapType' /\ BuffersCollect'
      BY <1>2, <1>5, <3>1, <3>3, <3>4, MapStep
    <3>6. CASE Complete(b, f.count)
      <4>1. PICK p : p = InOrder(b, f.count)
        OBVIOUS
      <4>2. result'.is = "packet" /\ result'.f = f /\ result'.packet = p
        BY <3>1, <3>3, <3>6, <4>1
      <4>3. ASSUME NEW k \in 1 .. count
            PROVE  (CHOOSE g \in b.fragments[k - 1] : TRUE) = Cut(n, len, count, k - 1)
        <5>1. k - 1 \in 0 .. count - 1
          OBVIOUS
        <5>2. b.fragments[k - 1] # {} /\ b.fragments[k - 1] \subseteq {Cut(n, len, count, k - 1)}
          BY <1>3, <1>4, <3>4, <3>6, <5>1 DEF Complete, Collects
        <5>. QED  BY <5>2
      <4>4. p = Pieces(n, len, count)
        BY <1>4, <4>1, <4>3 DEF InOrder, Pieces
      <4>5. Whole(p, len)
        BY <4>4, WholePacket
      <4>6. ReassembledWhole' /\ RefusedOnlyAsCopy'
        BY <1>3, <1>4, <1>5, <4>2, <4>5 DEF ReassembledWhole, RefusedOnlyAsCopy, Whole
      <4>. QED  BY <1>6, <3>5, <4>2, <4>6 DEF DefragInv
    <3>7. CASE ~Complete(b, f.count)
      <4>1. result'.is = "none"
        BY <3>1, <3>3, <3>7
      <4>2. ReassembledWhole' /\ RefusedOnlyAsCopy'
        BY <4>1 DEF ReassembledWhole, RefusedOnlyAsCopy
      <4>. QED  BY <1>6, <3>5, <4>1, <4>2 DEF DefragInv
    <3>. QED  BY <3>6, <3>7
  <2>. QED  BY <2>4, <2>5
<1>10. f.count = 1 \/ f.count > 1
  BY <1>4
<1>. QED  BY <1>7, <1>8, <1>9, <1>10

\* The inductive step.
LEMMA DefragStep == DefragInv /\ [DefragNext]_defragVars => DefragInv'
<1>. SUFFICES ASSUME DefragInv, [DefragNext]_defragVars PROVE DefragInv'
  OBVIOUS
<1>1. ASSUME UNCHANGED <<lengths, wire, fragment_map, result>>, time' \in Nat PROVE DefragInv'
  BY <1>1, SMTT(30) DEF DefragInv, DefragTypeOK, MapType, IsCut, BuffersCollect, Collects,
              ReassembledWhole, RefusedOnlyAsCopy
<1>2. CASE Pass
  BY <1>1, <1>2 DEF Pass, DefragInv, DefragTypeOK
<1>3. CASE ServiceBuffer
  <2>1. /\ UNCHANGED <<lengths, wire, time>> /\ result'.is = "none"
        /\ \A n \in Nonces : fragment_map'[n] # NoBuffer => fragment_map'[n] = fragment_map[n]
    BY <1>3 DEF ServiceBuffer
  <2>2. MapType'
    BY <1>3 DEF ServiceBuffer, MapType
  <2>3. BuffersCollect'
    BY <2>1 DEF DefragInv, BuffersCollect, Collects
  <2>4. ReassembledWhole' /\ RefusedOnlyAsCopy'
    BY <2>1 DEF ReassembledWhole, RefusedOnlyAsCopy
  <2>. QED  BY <2>1, <2>2, <2>3, <2>4 DEF DefragInv, DefragTypeOK, IsCut
<1>4. CASE UNCHANGED defragVars
  BY <1>1, <1>4 DEF defragVars, DefragInv, DefragTypeOK
<1>. QED  BY <1>2, <1>3, <1>4, SendInv, ReceivedInv DEF DefragNext

\* ReassembledWhole: for every packet length, every MTU and every order, repetition and loss of
\* fragments, what received_fragment returns is the packet.
THEOREM ReassembledWholeHolds == DefragSpec => []ReassembledWhole
<1>1. DefragInv => ReassembledWhole
  BY DEF DefragInv
<1>. QED  BY <1>1, DefragInitInv, DefragStep, PTL DEF DefragSpec

\* RefusedOnlyAsCopy: the size limit of a buffer refuses no fragment of an honest sender.
THEOREM RefusedOnlyAsCopyHolds == DefragSpec => []RefusedOnlyAsCopy
<1>1. DefragInv => RefusedOnlyAsCopy
  BY DEF DefragInv
<1>. QED  BY <1>1, DefragInitInv, DefragStep, PTL DEF DefragSpec

=============================================================================
