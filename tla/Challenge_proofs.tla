-------------------------- MODULE Challenge_proofs --------------------------
(***************************************************************************)
(* Bob accepts a response only to a challenge of his own, to the address   *)
(* it was sent to, and not again once it was accepted; Alice never goes    *)
(* back to an older challenge, and her answer is good until it is used or  *)
(* late.  For every set of clients, addresses and threads, every window    *)
(* and word size and every number of restarts and moves.                   *)
(***************************************************************************)
EXTENDS Challenge, Window_proofs, FiniteSetTheorems, FunctionTheorems

Responses == [c : 0 .. MaxChallenges, mac : Challenges \cup {None}, pow : Nat, solved : BOOLEAN]

X1Packets == [type : {"X1"}, from : Addresses, client : Clients, response : Responses]

ChallengePackets ==
    [type : {"Challenge"}, to : Addresses, client : Clients, c : 0 .. MaxChallenges,
     mac : Challenges, pow : Nat]

TypeOK ==
    /\ counter \in 0 .. MaxChallenges /\ window \in Windows /\ salt \in 0 .. MaxMoves
    /\ thread \in [Threads -> X1Packets \cup {None}]
    /\ response \in [Clients -> Responses]
    /\ address \in [Clients -> Addresses]
    /\ wire \subseteq X1Packets \cup ChallengePackets
    /\ pows \in Nat /\ moves \in 0 .. MaxMoves
    /\ issued \subseteq Challenges
    /\ accepted \in [Challenges -> Nat]
    /\ answered \in [Clients -> Challenges \cup {None}]

\* Challenge j was issued after challenge i.
Newer(j, i) == j.salt > i.salt \/ (j.salt = i.salt /\ j.c > i.c)

\* The present ChallengeContext has issued nothing from its counter on, and one challenge for
\* each counter; the salts of the contexts so far number the restarts.
Issuance ==
    /\ salt <= moves
    /\ \A i \in issued : i.salt <= salt /\ i.c < MaxChallenges /\ (i.salt = salt => i.c < counter)
    /\ \A i, j \in issued : i.salt = j.salt /\ i.c = j.c => i = j

\* A response with a MAC answers a challenge that was issued.
Genuine(r) == r.mac # None => r.mac \in issued /\ r.mac.c = r.c

\* Only Bob makes MACs, and Alice returns them with their counter.
MacsIssued ==
    /\ \A a \in Clients : Genuine(response[a]) /\ (response[a].mac # None => response[a].solved)
    /\ \A p \in wire : p.type = "X1" => Genuine(p.response)
    /\ \A p \in wire : p.type = "Challenge" => p.mac \in issued /\ p.mac.c = p.c
    /\ \A a \in Clients : answered[a] # None => answered[a] \in issued

\* The proofs of work in use were drawn.
PowsDrawn ==
    /\ \A a \in Clients : response[a].pow <= pows
    /\ \A p \in wire : p.type = "X1" => p.response.pow <= pows
    /\ \A p \in wire : p.type = "Challenge" => p.pow <= pows

\* A challenge that the client would answer is newer than the one it answered last.
ChallengesNewer ==
    \A p \in wire, a \in Clients :
        p.type = "Challenge" /\ p.client = a /\ p.pow = response[a].pow /\ answered[a] # None =>
            Newer(p.mac, answered[a])

\* What AcceptHello records for the X1 x1.
Accepted(x1) == [c |-> x1.response.c, salt |-> salt, address |-> x1.from]

\* A thread between the two halves of process_hello holds a response to one of the present
\* context's challenges.
ThreadsVerified == \A t \in Threads : thread[t] # None => Accepted(thread[t]) \in issued

\* The window of the present context stands for the challenges it accepted.
Records ==
    /\ \A i \in Challenges : accepted[i] > 0 =>
            i \in issued /\ (i.salt = salt => window[Slot(i.c)] > i.c)
    /\ \A k \in 0 .. L - 1 : window[k] > 0 =>
            \E i \in Challenges : /\ accepted[i] > 0 /\ i.salt = salt
                                  /\ i.c + 1 = window[k] /\ Slot(i.c) = k

IInv ==
    /\ TypeOK /\ Issuance /\ MacsIssued /\ PowsDrawn
    /\ ChallengesNewer /\ ThreadsVerified /\ Records

USE ChallengeAssumption, WindowAssumption

-----------------------------------------------------------------------------

\* The slots of a window hold numbers.
LEMMA WindowNat == \A w \in Windows, k \in 0 .. L - 1 : w[k] \in Nat
  BY DEF Windows, Counters

\* The clients can draw different numbers, so the first proofs of work are numbers drawn.
LEMMA FirstPows == FirstPow \in [Clients -> 1 .. Cardinality(Clients)] /\ Cardinality(Clients) \in Nat
<1>1. /\ Cardinality(Clients) \in Nat
      /\ ExistsBijection(1 .. Cardinality(Clients), Clients)
  BY FS_CardinalityType
<1>2. PICK f \in Bijection(Clients, 1 .. Cardinality(Clients)) : TRUE
  BY <1>1, Fun_ExistsBijSymmetric DEF ExistsBijection
<1>3. f \in [Clients -> 1 .. Cardinality(Clients)] /\ \A a, b \in Clients : f[a] = f[b] => a = b
  BY <1>2 DEF Bijection, Injection, IsInjective
<1>. QED  BY <1>1, <1>3 DEF FirstPow

\* At first nothing has been issued, sent or accepted.
LEMMA InitIInv == Init => IInv
<1>. SUFFICES ASSUME Init PROVE IInv
  OBVIOUS
<1>1. \A a \in Clients : FirstPow[a] \in Nat /\ FirstPow[a] <= Cardinality(Clients)
  BY FirstPows
<1>2. NewWindow \in Windows /\ \A k \in 0 .. L - 1 : NewWindow[k] = 0
  BY DEF NewWindow, Windows, Counters
<1>3. \A a \in Clients : /\ response[a] = NullResponse(FirstPow[a])
                         /\ response[a] \in Responses /\ response[a].mac = None
                         /\ response[a].pow = FirstPow[a]
  BY <1>1 DEF Init, NullResponse, Responses
<1>4. response \in [Clients -> Responses]
  BY <1>3 DEF Init
<1>5. TypeOK
  BY <1>2, <1>4, FirstPows DEF Init, TypeOK
<1>6. Issuance /\ ThreadsVerified
  BY <1>2 DEF Init, Issuance, ThreadsVerified
<1>7. MacsIssued /\ PowsDrawn /\ ChallengesNewer
  BY <1>1, <1>3 DEF Init, MacsIssued, PowsDrawn, ChallengesNewer, Genuine
<1>8. Records
  BY <1>2 DEF Init, Records
<1>. QED  BY <1>5, <1>6, <1>7, <1>8 DEF IInv

\* A packet is of one of the two types.
LEMMA Packets ==
    ASSUME TypeOK, NEW p \in wire
    PROVE  /\ p.type = "X1" => p \in X1Packets
           /\ p.type = "Challenge" => p \in ChallengePackets
  BY DEF TypeOK, X1Packets, ChallengePackets

\* A good response is one to a challenge of the present context.
LEMMA VerifiedIssued ==
    ASSUME IInv, NEW x1 \in wire, x1.type = "X1", Verified(x1.from, x1.response)
    PROVE  /\ x1 \in X1Packets
           /\ Accepted(x1) \in issued
<1>1. x1 \in X1Packets
  BY Packets DEF IInv
<1>2. x1.response \in Responses /\ x1.from \in Addresses
  BY <1>1 DEF X1Packets
<1>3. x1.response.mac = Accepted(x1)
  BY DEF Verified, CreateMac, Accepted
<1>4. Accepted(x1) \in Challenges
  BY <1>2 DEF Accepted, Challenges, Responses, IInv, TypeOK
<1>5. x1.response.mac \in issued
  BY <1>3, <1>4, NoneAssumption DEF IInv, MacsIssued, Genuine
<1>. QED  BY <1>1, <1>3, <1>5

\* What each step writes keeps the types.
LEMMA TypeStep ==
    ASSUME IInv, [Next]_vars PROVE TypeOK'
<1>. USE DEF IInv, TypeOK
<1>1. ASSUME NEW t \in Threads, NEW x1 \in wire, x1.type = "X1", VerifyHello(t, x1) PROVE TypeOK'
  <2>1. x1 \in X1Packets
    BY <1>1, Packets
  <2>. QED  BY <1>1, <2>1 DEF VerifyHello, alice
<1>2. ASSUME NEW t \in Threads, NEW x1 \in wire, x1.type = "X1", ChallengeHello(t, x1) PROVE TypeOK'
  <2>1. x1 \in X1Packets
    BY <1>2, Packets
  <2>2. /\ x1.from \in Addresses /\ x1.client \in Clients /\ x1.response.pow \in Nat
        /\ counter \in 0 .. MaxChallenges - 1
    BY <1>2, <2>1 DEF X1Packets, Responses, ChallengeHello
  <2>3. [c |-> counter, salt |-> salt, address |-> x1.from] \in Challenges
    BY <2>2 DEF Challenges
  <2>4. \A m \in Challenges : [type |-> "Challenge", to |-> x1.from, client |-> x1.client,
            c |-> counter, mac |-> m, pow |-> x1.response.pow] \in ChallengePackets
    BY <2>2 DEF ChallengePackets
  <2>5. wire' \subseteq X1Packets \cup ChallengePackets /\ issued' \subseteq Challenges
    BY <1>2, <2>3, <2>4 DEF ChallengeHello, CreateMac
  <2>. QED  BY <1>2, <2>2, <2>5 DEF ChallengeHello, alice
<1>3. ASSUME NEW t \in Threads, AcceptHello(t) PROVE TypeOK'
  <2>1. thread[t] \in X1Packets
    BY <1>3 DEF AcceptHello
  <2>2. thread[t].response.c \in Counters /\ thread[t].response.c \in 0 .. MaxChallenges
    BY <2>1 DEF X1Packets, Responses, Counters
  <2>3. window' \in Windows
    BY <1>3, <2>2, UpdateType DEF AcceptHello, RecordHello
  <2>4. accepted' \in [Challenges -> Nat]
    <3>1. PICK i \in Challenges : i = Accepted(thread[t])
      BY <1>3 DEF AcceptHello, ThreadsVerified
    <3>2. accepted' = [accepted EXCEPT ![i] = @ + 1]
      BY <1>3, <3>1 DEF AcceptHello, Accepted
    <3>. QED  BY <3>2
  <2>. QED  BY <1>3, <2>3, <2>4 DEF AcceptHello, alice
<1>4. CASE Restart
  <2>1. NewWindow \in Windows
    BY DEF NewWindow, Windows, Counters
  <2>. QED  BY <1>4, <2>1 DEF Restart, alice, Issuance
<1>5. ASSUME NEW a \in Clients, SendX1(a) PROVE TypeOK'
  <2>1. [type |-> "X1", from |-> address[a], client |-> a, response |-> response[a]] \in X1Packets
    BY DEF X1Packets
  <2>. QED  BY <1>5, <2>1 DEF SendX1, alice, bob
<1>6. ASSUME NEW a \in Clients, TimeoutX1(a) PROVE TypeOK'
  <2>1. NullResponse(pows') \in Responses
    BY <1>6 DEF TimeoutX1, NullResponse, Responses
  <2>. QED  BY <1>6, <2>1 DEF TimeoutX1, bob
<1>7. ASSUME NEW a \in Clients, NEW p \in wire, p.type = "Challenge", ReceiveChallenge(a, p)
      PROVE  TypeOK'
  <2>1. p \in ChallengePackets
    BY <1>7, Packets
  <2>2. pows' \in Nat /\ p.c \in 0 .. MaxChallenges /\ p.mac \in Challenges
    BY <1>7, <2>1 DEF ChallengePackets, ReceiveChallenge
  <2>3. [c |-> p.c, mac |-> p.mac, pow |-> pows', solved |-> TRUE] \in Responses
    BY <2>2 DEF Responses
  <2>4. response' \in [Clients -> Responses] /\ answered' \in [Clients -> Challenges \cup {None}]
    BY <1>7, <2>2, <2>3 DEF ReceiveChallenge
  <2>. QED  BY <1>7, <2>2, <2>4 DEF ReceiveChallenge, bob
<1>8. ASSUME NEW a \in Clients, NEW to \in Addresses, Move(a, to) PROVE TypeOK'
  BY <1>8 DEF Move, bob
<1>9. CASE UNCHANGED vars
  BY <1>9 DEF vars, alice, bob
<1>. QED  BY <1>1, <1>2, <1>3, <1>4, <1>5, <1>6, <1>7, <1>8, <1>9 DEF Next

-----------------------------------------------------------------------------

\* The first half of process_hello: a thread holds a response to a challenge of this context.
LEMMA VerifyStep ==
    ASSUME IInv, NEW t \in Threads, NEW x1 \in wire, x1.type = "X1", VerifyHello(t, x1)
    PROVE  Issuance' /\ MacsIssued' /\ PowsDrawn' /\ ChallengesNewer' /\ ThreadsVerified' /\ Records'
<1>1. UNCHANGED <<counter, window, salt, issued, accepted, wire, moves, response, pows, answered>>
  BY DEF VerifyHello, alice
<1>2. Issuance' /\ PowsDrawn' /\ ChallengesNewer' /\ Records'
  BY <1>1 DEF IInv, Issuance, PowsDrawn, ChallengesNewer, Records, Newer
<1>3. MacsIssued'
  BY <1>1 DEF IInv, MacsIssued, Genuine
<1>4. Accepted(x1) \in issued
  BY VerifiedIssued DEF VerifyHello
<1>5. \A u \in Threads : thread'[u] = thread[u] \/ thread'[u] = x1
  BY DEF VerifyHello, IInv, TypeOK
<1>6. ThreadsVerified'
  BY <1>1, <1>4, <1>5 DEF IInv, ThreadsVerified, Accepted
<1>. QED  BY <1>2, <1>3, <1>6

\* A new challenge has the next counter of the context, so it is newer than every other.
LEMMA ChallengeStep ==
    ASSUME IInv, NEW t \in Threads, NEW x1 \in wire, x1.type = "X1", ChallengeHello(t, x1)
    PROVE  Issuance' /\ MacsIssued' /\ PowsDrawn' /\ ChallengesNewer' /\ ThreadsVerified' /\ Records'
<1>1. /\ UNCHANGED <<window, salt, thread, accepted, moves, response, pows, answered>>
      /\ counter' = counter + 1 /\ counter < MaxChallenges
  BY DEF ChallengeHello, alice
<1>2. /\ x1.from \in Addresses /\ x1.client \in Clients /\ x1.response.pow <= pows
      /\ counter \in Nat /\ salt \in Nat /\ pows \in Nat
  BY Packets DEF IInv, TypeOK, X1Packets, PowsDrawn
<1>. DEFINE m == CreateMac(counter, x1.from)
            q == [type |-> "Challenge", to |-> x1.from, client |-> x1.client, c |-> counter,
                  mac |-> m, pow |-> x1.response.pow]
<1>3. issued' = issued \cup {m} /\ m.c = counter /\ m.salt = salt
  BY DEF ChallengeHello, CreateMac
<1>4. /\ wire' = wire \cup {q} /\ q.type = "Challenge" /\ q.client = x1.client
      /\ q.c = counter /\ q.mac = m /\ q.pow = x1.response.pow
  BY DEF ChallengeHello
<1>. HIDE DEF m, q
<1>5. \A i \in issued : i.salt \in Nat /\ i.c \in Nat
  BY DEF IInv, TypeOK, Challenges
<1>6. \A i \in issued : Newer(m, i) /\ (i.salt = salt => i.c # counter)
  BY <1>2, <1>3, <1>5 DEF IInv, Issuance, Newer
<1>7. Issuance'
  <2>1. \A i, j \in issued' : i.salt = j.salt /\ i.c = j.c => i = j
    BY <1>3, <1>6 DEF IInv, Issuance
  <2>2. \A i \in issued' : i.salt <= salt /\ i.c < MaxChallenges /\ (i.salt = salt => i.c < counter + 1)
    BY <1>1, <1>2, <1>3, <1>5 DEF IInv, Issuance
  <2>. QED  BY <1>1, <2>1, <2>2 DEF IInv, Issuance
<1>8. MacsIssued'
  BY <1>1, <1>3, <1>4 DEF IInv, MacsIssued, Genuine
<1>9. PowsDrawn'
  BY <1>1, <1>2, <1>4 DEF IInv, PowsDrawn
<1>10. ChallengesNewer'
  <2>. SUFFICES ASSUME NEW p \in wire', NEW a \in Clients, p.type = "Challenge", p.client = a,
                       p.pow = response[a].pow, answered[a] # None
                PROVE  Newer(p.mac, answered[a])
    BY <1>1 DEF ChallengesNewer, Newer
  <2>1. CASE p \in wire
    BY <2>1 DEF IInv, ChallengesNewer
  <2>2. CASE p = q
    BY <2>2, <1>4, <1>6 DEF IInv, MacsIssued
  <2>. QED  BY <2>1, <2>2, <1>4
<1>11. ThreadsVerified'
  BY <1>1, <1>3 DEF IInv, ThreadsVerified, Accepted
<1>12. Records'
  BY <1>1, <1>3 DEF IInv, Records
<1>. QED  BY <1>7, <1>8, <1>9, <1>10, <1>11, <1>12

\* The second half of process_hello: the slot of the counter goes above it, and to the counter
\* that is accepted if it moves at all.
LEMMA AcceptStep ==
    ASSUME IInv, NEW t \in Threads, AcceptHello(t)
    PROVE  Issuance' /\ MacsIssued' /\ PowsDrawn' /\ ChallengesNewer' /\ ThreadsVerified' /\ Records'
<1>1. UNCHANGED <<counter, salt, issued, wire, moves, response, pows, answered>>
  BY DEF AcceptHello, alice
<1>2. Issuance' /\ PowsDrawn' /\ ChallengesNewer'
  BY <1>1 DEF IInv, Issuance, PowsDrawn, ChallengesNewer, Newer
<1>3. MacsIssued'
  BY <1>1 DEF IInv, MacsIssued, Genuine
<1>4. \A u \in Threads : thread'[u] = thread[u] \/ thread'[u] = None
  BY DEF AcceptHello, IInv, TypeOK
<1>5. ThreadsVerified'
  BY <1>1, <1>4 DEF IInv, ThreadsVerified, Accepted
<1>6. PICK c, m : /\ c = thread[t].response.c /\ m = Accepted(thread[t])
                  /\ m \in issued /\ m.c = c /\ m.salt = salt
  BY DEF IInv, ThreadsVerified, AcceptHello, Accepted
<1>7. accepted' = [accepted EXCEPT ![m] = @ + 1] /\ window' = Update(window, c)
  BY <1>6 DEF AcceptHello, RecordHello, Accepted
<1>8. m \in Challenges /\ accepted \in [Challenges -> Nat] /\ window \in Windows
  BY <1>6 DEF IInv, TypeOK
<1>9. c \in Counters /\ c # Modulus - 1
  BY <1>6, <1>8 DEF IInv, Issuance, Challenges, Counters
<1>10. \A i \in Challenges : i.c \in Counters /\ Slot(i.c) \in 0 .. L - 1 /\ i.c \in Nat
  BY SlotInRange DEF Challenges, Counters
<1>11. accepted'[m] > 0 /\ \A i \in Challenges : i # m => accepted'[i] = accepted[i]
  BY <1>7, <1>8
<1>12. /\ \A k \in 0 .. L - 1 : window[k] \in Nat /\ window'[k] \in Nat /\ window[k] <= window'[k]
       /\ \A k \in 0 .. L - 1 : k # Slot(c) => window'[k] = window[k]
       /\ window'[Slot(c)] > c
       /\ window'[Slot(c)] = c + 1 \/ window'[Slot(c)] = window[Slot(c)]
  BY <1>7, <1>8, <1>9, UpdateGrows
<1>13. ASSUME NEW i \in Challenges, accepted'[i] > 0
       PROVE  i \in issued /\ (i.salt = salt => window'[Slot(i.c)] > i.c)
  <2>1. CASE i = m
    BY <2>1, <1>6, <1>12
  <2>2. CASE i # m
    <3>1. i \in issued /\ (i.salt = salt => window[Slot(i.c)] > i.c)
      BY <2>2, <1>11, <1>13 DEF IInv, Records
    <3>. QED  BY <3>1, <1>10, <1>12
  <2>. QED  BY <2>1, <2>2
<1>14. ASSUME NEW k \in 0 .. L - 1, window'[k] > 0
       PROVE  \E i \in Challenges : /\ accepted'[i] > 0 /\ i.salt = salt
                                    /\ i.c + 1 = window'[k] /\ Slot(i.c) = k
  <2>1. CASE window'[k] = window[k]
    <3>1. PICK i \in Challenges : /\ accepted[i] > 0 /\ i.salt = salt
                                  /\ i.c + 1 = window[k] /\ Slot(i.c) = k
      BY <2>1, <1>14 DEF IInv, Records
    <3>2. accepted'[i] > 0
      BY <3>1, <1>11
    <3>. QED  BY <3>1, <3>2, <2>1
  <2>2. CASE window'[k] # window[k]
    BY <2>2, <1>6, <1>8, <1>11, <1>12
  <2>. QED  BY <2>1, <2>2
<1>15. Records'
  BY <1>1, <1>13, <1>14 DEF Records
<1>. QED  BY <1>2, <1>3, <1>5, <1>15

\* A new context starts with a salt no challenge has, so it owes nothing to what was accepted.
LEMMA RestartStep ==
    ASSUME IInv, Restart
    PROVE  Issuance' /\ MacsIssued' /\ PowsDrawn' /\ ChallengesNewer' /\ ThreadsVerified' /\ Records'
<1>1. /\ UNCHANGED <<issued, accepted, wire, response, pows, answered>>
      /\ moves' = moves + 1 /\ salt' = salt + 1 /\ counter' = 0
      /\ thread' = [t \in Threads |-> None] /\ window' = NewWindow
  BY DEF Restart, alice
<1>2. PowsDrawn' /\ ChallengesNewer'
  BY <1>1 DEF IInv, PowsDrawn, ChallengesNewer, Newer
<1>3. MacsIssued' /\ ThreadsVerified'
  BY <1>1 DEF IInv, MacsIssued, Genuine, ThreadsVerified
<1>4. \A i \in issued : i.salt \in Nat /\ i.salt <= salt /\ i.salt # salt + 1
  BY DEF IInv, TypeOK, Issuance, Challenges
<1>5. Issuance'
  BY <1>1, <1>4 DEF IInv, TypeOK, Issuance
<1>6. \A k \in 0 .. L - 1 : window'[k] = 0
  BY <1>1 DEF NewWindow
<1>7. Records'
  BY <1>1, <1>4, <1>6 DEF IInv, Records
<1>. QED  BY <1>2, <1>3, <1>5, <1>7

\* An X1 carries the response of its client.
LEMMA SendStep ==
    ASSUME IInv, NEW a \in Clients, SendX1(a)
    PROVE  Issuance' /\ MacsIssued' /\ PowsDrawn' /\ ChallengesNewer' /\ ThreadsVerified' /\ Records'
<1>1. UNCHANGED <<counter, window, salt, thread, issued, accepted, moves, response, pows, answered>>
  BY DEF SendX1, alice, bob
<1>2. Issuance' /\ ThreadsVerified' /\ Records'
  BY <1>1 DEF IInv, Issuance, ThreadsVerified, Accepted, Records
<1>. DEFINE q == [type |-> "X1", from |-> address[a], client |-> a, response |-> response[a]]
<1>3. wire' = wire \cup {q} /\ q.type = "X1" /\ q.response = response[a]
  BY DEF SendX1
<1>. HIDE DEF q
<1>4. MacsIssued'
  BY <1>1, <1>3 DEF IInv, MacsIssued, Genuine
<1>5. PowsDrawn' /\ ChallengesNewer'
  BY <1>1, <1>3 DEF IInv, PowsDrawn, ChallengesNewer, Newer
<1>. QED  BY <1>2, <1>4, <1>5

\* A client that changes its X1 draws a number that no packet holds: nothing in flight is a
\* challenge to the new X1.
LEMMA ResponseStep ==
    ASSUME IInv, TypeOK', NEW a \in Clients,
           UNCHANGED <<counter, window, salt, thread, issued, accepted, wire, moves>>,
           pows' = pows + 1, response'[a].pow = pows + 1,
           Genuine(response'[a]), response'[a].mac # None => response'[a].solved,
           \A b \in Clients : b # a => response'[b] = response[b] /\ answered'[b] = answered[b],
           answered'[a] # None => answered'[a] \in issued
    PROVE  Issuance' /\ MacsIssued' /\ PowsDrawn' /\ ChallengesNewer' /\ ThreadsVerified' /\ Records'
<1>1. Issuance' /\ ThreadsVerified' /\ Records'
  BY DEF IInv, Issuance, ThreadsVerified, Accepted, Records
<1>2. MacsIssued'
  BY DEF IInv, MacsIssued, Genuine
<1>3. \A p \in wire : /\ p.type = "X1" => p.response.pow \in Nat
                      /\ p.type = "Challenge" => p.pow \in Nat /\ p.pow <= pows
  <2>1. \A p \in X1Packets : p.response.pow \in Nat
    BY DEF X1Packets, Responses
  <2>2. \A p \in ChallengePackets : p.pow \in Nat
    BY DEF ChallengePackets
  <2>. QED  BY <2>1, <2>2, Packets DEF IInv, PowsDrawn
<1>4. \A b \in Clients : response[b].pow \in Nat
  BY DEF IInv, TypeOK, Responses
<1>5. pows \in Nat
  BY DEF IInv, TypeOK
<1>6. PowsDrawn'
  <2>0. wire' = wire /\ pows' = pows + 1
    OBVIOUS
  <2>1. \A b \in Clients : response'[b].pow <= pows'
    BY <1>4, <1>5, <2>0 DEF IInv, PowsDrawn
  <2>2. \A p \in wire' : p.type = "X1" => p.response.pow <= pows'
    BY <1>3, <1>5, <2>0 DEF IInv, PowsDrawn
  <2>3. \A p \in wire' : p.type = "Challenge" => p.pow <= pows'
    BY <1>3, <1>5, <2>0 DEF IInv, PowsDrawn
  <2>. QED  BY <2>1, <2>2, <2>3 DEF PowsDrawn
<1>7. ChallengesNewer'
  <2>. SUFFICES ASSUME NEW p \in wire, NEW b \in Clients, p.type = "Challenge", p.client = b,
                       p.pow = response'[b].pow, answered'[b] # None
                PROVE  Newer(p.mac, answered'[b])
    BY DEF ChallengesNewer, Newer
  <2>1. b # a
    BY <1>3, <1>5
  <2>. QED  BY <2>1 DEF IInv, ChallengesNewer
<1>. QED  BY <1>1, <1>2, <1>6, <1>7

\* The inductive step.
LEMMA Step ==
    ASSUME IInv, [Next]_vars PROVE IInv'
<1>. SUFFICES Issuance' /\ MacsIssued' /\ PowsDrawn' /\ ChallengesNewer' /\ ThreadsVerified' /\ Records'
  BY TypeStep DEF IInv
<1>1. ASSUME NEW t \in Threads, NEW p \in wire, p.type = "X1", VerifyHello(t, p) \/ ChallengeHello(t, p)
      PROVE  Issuance' /\ MacsIssued' /\ PowsDrawn' /\ ChallengesNewer' /\ ThreadsVerified' /\ Records'
  BY <1>1, VerifyStep, ChallengeStep
<1>2. ASSUME NEW t \in Threads, AcceptHello(t)
      PROVE  Issuance' /\ MacsIssued' /\ PowsDrawn' /\ ChallengesNewer' /\ ThreadsVerified' /\ Records'
  BY <1>2, AcceptStep
<1>3. CASE Restart
  BY <1>3, RestartStep
<1>4. ASSUME NEW a \in Clients, SendX1(a)
      PROVE  Issuance' /\ MacsIssued' /\ PowsDrawn' /\ ChallengesNewer' /\ ThreadsVerified' /\ Records'
  BY <1>4, SendStep
<1>5. ASSUME NEW a \in Clients, TimeoutX1(a)
      PROVE  Issuance' /\ MacsIssued' /\ PowsDrawn' /\ ChallengesNewer' /\ ThreadsVerified' /\ Records'
  <2>1. UNCHANGED <<counter, window, salt, thread, issued, accepted, wire, moves, answered>>
    BY <1>5 DEF TimeoutX1, bob
  <2>2. /\ pows' = pows + 1 /\ response'[a].pow = pows + 1 /\ response'[a].mac = None
        /\ \A b \in Clients : b # a => response'[b] = response[b]
    BY <1>5 DEF TimeoutX1, NullResponse, IInv, TypeOK
  <2>3. Genuine(response'[a]) /\ (answered'[a] # None => answered'[a] \in issued)
    BY <2>1, <2>2 DEF Genuine, IInv, MacsIssued
  <2>. QED  BY <2>1, <2>2, <2>3, TypeStep, ResponseStep
<1>6. ASSUME NEW a \in Clients, NEW p \in wire, p.type = "Challenge", ReceiveChallenge(a, p)
      PROVE  Issuance' /\ MacsIssued' /\ PowsDrawn' /\ ChallengesNewer' /\ ThreadsVerified' /\ Records'
  <2>1. UNCHANGED <<counter, window, salt, thread, issued, accepted, wire, moves>>
    BY <1>6 DEF ReceiveChallenge, bob
  <2>2. /\ pows' = pows + 1 /\ response'[a].pow = pows + 1 /\ response'[a].mac = p.mac
        /\ response'[a].c = p.c /\ response'[a].solved /\ answered'[a] = p.mac
        /\ \A b \in Clients : b # a => response'[b] = response[b] /\ answered'[b] = answered[b]
    BY <1>6 DEF ReceiveChallenge, IInv, TypeOK
  <2>3. Genuine(response'[a]) /\ answered'[a] \in issued
    BY <1>6, <2>2 DEF Genuine, IInv, MacsIssued
  <2>. QED  BY <2>1, <2>2, <2>3, TypeStep, ResponseStep
<1>7. ASSUME NEW a \in Clients, NEW to \in Addresses, Move(a, to)
      PROVE  Issuance' /\ MacsIssued' /\ PowsDrawn' /\ ChallengesNewer' /\ ThreadsVerified' /\ Records'
  <2>1. /\ UNCHANGED <<counter, window, salt, thread, issued, accepted, wire, response, pows, answered>>
        /\ moves' = moves + 1
    BY <1>7 DEF Move, bob
  <2>2. Issuance' /\ PowsDrawn' /\ ChallengesNewer'
    BY <2>1 DEF IInv, TypeOK, Issuance, PowsDrawn, ChallengesNewer, Newer
  <2>3. MacsIssued' /\ ThreadsVerified' /\ Records'
    BY <2>1 DEF IInv, MacsIssued, Genuine, ThreadsVerified, Accepted, Records
  <2>. QED  BY <2>2, <2>3
<1>8. CASE UNCHANGED vars
  <2>1. UNCHANGED <<counter, window, salt, thread, issued, accepted, wire, moves, response, pows, answered>>
    BY <1>8 DEF vars, alice, bob
  <2>2. Issuance' /\ PowsDrawn' /\ ChallengesNewer'
    BY <2>1 DEF IInv, Issuance, PowsDrawn, ChallengesNewer, Newer
  <2>3. MacsIssued' /\ ThreadsVerified' /\ Records'
    BY <2>1 DEF IInv, MacsIssued, Genuine, ThreadsVerified, Accepted, Records
  <2>. QED  BY <2>2, <2>3
<1>. QED  BY <1>1, <1>2, <1>3, <1>4, <1>5, <1>6, <1>7, <1>8 DEF Next

\* The inductive invariant holds of every reachable state.
THEOREM Invariance == Spec => []IInv
  BY InitIInv, Step, PTL DEF Spec

-----------------------------------------------------------------------------

\* AddressProven: every response that process_hello let through answers a challenge that was
\* sent, with the salt of that time, to the address it came from.
THEOREM AddressProvenHolds == Spec => []AddressProven
<1>1. IInv => AddressProven
  BY DEF IInv, Records, AddressProven
<1>. QED  BY <1>1, Invariance, PTL

\* AnswerVerifies: the response a client holds, for Bob's present salt and from the address it
\* was challenged at, verifies unless it was used or overtaken by L challenges.
THEOREM AnswerVerifiesHolds == Spec => []AnswerVerifies
<1>1. ASSUME IInv PROVE AnswerVerifies
  <2>. SUFFICES ASSUME NEW a \in Clients, NEW r, r = response[a],
                       r.mac # None, r.mac.salt = salt, r.mac.address = address[a],
                       ~Verified(address[a], r), ~(accepted[r.mac] > 0)
                PROVE  \E i \in Challenges : accepted[i] > 0 /\ i.salt = salt /\ i.c >= r.c + L
    BY DEF AnswerVerifies
  <2>1. /\ r.mac \in issued /\ r.mac.c = r.c /\ r.solved /\ r.mac \in Challenges
    BY <1>1 DEF IInv, MacsIssued, Genuine, TypeOK
  <2>2. r.mac = CreateMac(r.c, address[a])
    BY <2>1 DEF Challenges, CreateMac
  <2>3. r.c \in Nat /\ r.c < MaxChallenges /\ r.c \in Counters
    BY <1>1, <2>1 DEF IInv, Issuance, Challenges, Counters
  <2>4. Slot(r.c) \in 0 .. L - 1 /\ window[Slot(r.c)] \in Nat
    BY <1>1, <2>3, SlotInRange, WindowNat DEF IInv, TypeOK
  <2>5. ~Check(window, r.c)
    BY <2>1, <2>2 DEF Verified
  <2>6. window[Slot(r.c)] >= r.c + 1
    <3>1. WrappingSucc(r.c) = r.c + 1 /\ r.c + 1 <= MAX
      BY <2>3 DEF WrappingSucc
    <3>. QED  BY <3>1, <2>3, <2>4, <2>5 DEF Check, Accepts
  <2>7. PICK i \in Challenges : /\ accepted[i] > 0 /\ i.salt = salt
                                /\ i.c + 1 = window[Slot(r.c)] /\ Slot(i.c) = Slot(r.c)
    BY <1>1, <2>3, <2>4, <2>6 DEF IInv, Records
  <2>8. i \in issued /\ i.c \in Counters /\ i.c \in Nat
    BY <1>1, <2>7 DEF IInv, Records, Challenges, Counters
  <2>9. i.c # r.c
    BY <1>1, <2>1, <2>7, <2>8 DEF IInv, Issuance
  <2>10. i.c >= r.c + L
    BY <2>3, <2>6, <2>7, <2>8, <2>9, SameSlotApart
  <2>. QED  BY <2>7, <2>10
<1>. QED  BY <1>1, Invariance, PTL

\* NotVerifiedAgain: a response that was accepted is not found good again.
THEOREM NotVerifiedAgainHolds == Spec => NotVerifiedAgain
<1>1. ASSUME IInv, Next, NEW t \in Threads, thread[t] = None, thread'[t] # None
      PROVE  accepted[[c |-> thread'[t].response.c, salt |-> salt, address |-> thread'[t].from]] = 0
  <2>1. PICK u \in Threads, x1 \in wire : x1.type = "X1" /\ VerifyHello(u, x1)
    <3>1. ASSUME NEW u \in Threads, AcceptHello(u) PROVE FALSE
      BY <1>1, <3>1 DEF AcceptHello, IInv, TypeOK
    <3>2. ASSUME NEW u \in Threads, NEW p \in wire, ChallengeHello(u, p) PROVE FALSE
      BY <1>1, <3>2 DEF ChallengeHello
    <3>3. ~Restart
      BY <1>1 DEF Restart
    <3>4. ASSUME NEW a \in Clients,
                 \/ SendX1(a)
                 \/ TimeoutX1(a)
                 \/ \E p \in wire : ReceiveChallenge(a, p)
                 \/ \E to \in Addresses : Move(a, to)
          PROVE  FALSE
      BY <1>1, <3>4 DEF SendX1, TimeoutX1, ReceiveChallenge, Move, bob
    <3>. QED  BY <1>1, <3>1, <3>2, <3>3, <3>4 DEF Next
  <2>2. thread'[t] = x1
    BY <1>1, <2>1 DEF VerifyHello, IInv, TypeOK
  <2>3. Verified(x1.from, x1.response)
    BY <2>1 DEF VerifyHello
  <2>. DEFINE m == Accepted(x1)
  <2>4. m = Accepted(x1) /\ m \in issued /\ m.c = x1.response.c /\ m.salt = salt
    <3>1. m \in issued
      BY <1>1, <2>1, <2>3, VerifiedIssued
    <3>. QED  BY <3>1 DEF Accepted
  <2>. HIDE DEF m
  <2>5. m \in Challenges /\ accepted[m] \in Nat /\ m.c \in Nat /\ m.c < MaxChallenges
    <3>1. m \in Challenges /\ accepted[m] \in Nat /\ m.c < MaxChallenges
      BY <1>1, <2>4 DEF IInv, TypeOK, Issuance
    <3>. QED  BY <3>1 DEF Challenges
  <2>6. Slot(m.c) \in 0 .. L - 1 /\ window[Slot(m.c)] \in Nat
    <3>1. m.c \in Counters
      BY <2>5 DEF Counters
    <3>. QED  BY <1>1, <3>1, SlotInRange, WindowNat DEF IInv, TypeOK
  <2>7. window[Slot(m.c)] <= m.c
    BY <2>3, <2>4, <2>5, <2>6 DEF Verified, Check, Accepts, WrappingSucc
  <2>8. accepted[m] = 0
    BY <1>1, <2>4, <2>5, <2>6, <2>7 DEF IInv, Records
  <2>. QED  BY <2>2, <2>4, <2>8 DEF Accepted
<1>2. IInv /\ [Next]_vars =>
        [\A t \in Threads :
            LET x1 == thread'[t] IN
            thread[t] = None /\ x1 # None =>
                accepted[[c |-> x1.response.c, salt |-> salt, address |-> x1.from]] = 0]_vars
  BY <1>1
<1>. QED  BY <1>2, Invariance, PTL DEF Spec, NotVerifiedAgain

\* AnswersAdvance: a client never answers a challenge older than the one it answered last.
THEOREM AnswersAdvanceHolds == Spec => AnswersAdvance
<1>1. ASSUME IInv, Next, NEW a \in Clients, answered[a] # None, answered'[a] # answered[a]
      PROVE  Newer(answered'[a], answered[a])
  <2>1. PICK b \in Clients, p \in wire : p.type = "Challenge" /\ ReceiveChallenge(b, p)
    <3>1. ASSUME NEW u \in Threads,
                 \/ AcceptHello(u)
                 \/ \E p \in wire : VerifyHello(u, p) \/ ChallengeHello(u, p)
          PROVE  FALSE
      BY <1>1, <3>1 DEF AcceptHello, VerifyHello, ChallengeHello, alice
    <3>2. ~Restart
      BY <1>1 DEF Restart, alice
    <3>3. ASSUME NEW b \in Clients, SendX1(b) \/ TimeoutX1(b) \/ \E to \in Addresses : Move(b, to)
          PROVE  FALSE
      BY <1>1, <3>3 DEF SendX1, TimeoutX1, Move, alice
    <3>. QED  BY <1>1, <3>1, <3>2, <3>3 DEF Next
  <2>2. b = a /\ answered'[a] = p.mac
    BY <1>1, <2>1 DEF ReceiveChallenge, IInv, TypeOK
  <2>. QED  BY <1>1, <2>1, <2>2 DEF IInv, ChallengesNewer, ReceiveChallenge, AnswersChallenge
<1>2. IInv /\ [Next]_vars =>
        [\A a \in Clients : answered[a] # None /\ answered'[a] # answered[a] =>
           \/ answered'[a].salt > answered[a].salt
           \/ answered'[a].salt = answered[a].salt /\ answered'[a].c > answered[a].c]_vars
  BY <1>1 DEF Newer, vars, alice
<1>. QED  BY <1>2, Invariance, PTL DEF Spec, AnswersAdvance

=============================================================================
