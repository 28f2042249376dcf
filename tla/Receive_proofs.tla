-------------------------- MODULE Receive_proofs ---------------------------
(***************************************************************************)
(* What the receive path of performance/ guarantees, for every window      *)
(* size, skip bound, word size and set of threads, for every packet        *)
(* length, MTU and number of buffers, and for every size of the cache of   *)
(* fragments without a session.                                            *)
(*                                                                         *)
(* The window: no counter of a session is accepted twice, and the window   *)
(* only costs packets that are late.  The inductive invariant is           *)
(* SlotsRecord: a slot of the window is one more than the largest accepted *)
(* counter of its class.                                                   *)
(*                                                                         *)
(* The fragments of a session: what is put together is what was sent,      *)
(* every fragment fits, and no slot is read or dropped that was not        *)
(* written.  FraggedInv says of every fragment on its way which part of    *)
(* which packet it is, and of every buffer that it has collected fragments *)
(* of one packet.                                                          *)
(*                                                                         *)
(* The fragments without a session: the ring of the cache is what its      *)
(* counters say, packets come out of it whole, and it drops nothing early. *)
(* Sound says where on the ring the slots of an entry lie and that entries *)
(* lie in the order of their age; it is a predicate of any cache, so that  *)
(* the operations that a call is made of are taken one by one.             *)
(***************************************************************************)
EXTENDS AntiReplay, Fragged, FragCache, Window_proofs, WellFoundedInduction, SequenceTheorems, FiniteSetTheorems

\* Every variable keeps its type.
LEMMA TypeStep == AntiReplayTypeOK /\ [AntiReplayNext]_antiReplayVars => AntiReplayTypeOK'
<1>. SUFFICES ASSUME AntiReplayTypeOK, [AntiReplayNext]_antiReplayVars PROVE AntiReplayTypeOK'
  OBVIOUS
<1>. USE DEF AntiReplayTypeOK
<1>1. CASE Send
  BY <1>1, AntiReplayAssumption, WindowAssumption DEF Send, Counters
<1>2. ASSUME NEW t \in Threads, NEW c \in Counters, ReceiveCheck(t, c) PROVE AntiReplayTypeOK'
  BY <1>2 DEF ReceiveCheck
<1>3. ASSUME NEW t \in Threads, FailedAuth(t) PROVE AntiReplayTypeOK'
  BY <1>3 DEF FailedAuth
<1>4. ASSUME NEW t \in Threads, Authenticated(t) PROVE AntiReplayTypeOK'
  <2>1. checked[t] \in Counters
    BY <1>4 DEF Authenticated
  <2>2. window' \in Windows
    BY <1>4, <2>1, UpdateType DEF Authenticated
  <2>3. delivered' \in [Counters -> Nat] /\ rejected' \subseteq Counters
    BY <1>4, <2>1 DEF Authenticated
  <2>. QED  BY <1>4, <2>2, <2>3 DEF Authenticated
<1>5. CASE UNCHANGED antiReplayVars
  BY <1>5 DEF antiReplayVars
<1>. QED  BY <1>1, <1>2, <1>3, <1>4, <1>5 DEF AntiReplayNext

\* AntiReplayTypeOK is invariant: no update or wrap-around takes a slot out of the words.
THEOREM TypeCorrect == AntiReplaySpec => []AntiReplayTypeOK
<1>1. AntiReplayInit => AntiReplayTypeOK
  BY WindowAssumption, AntiReplayAssumption
  DEF AntiReplayInit, AntiReplayTypeOK, NewWindow, Windows, Counters
<1>. QED  BY <1>1, TypeStep, PTL DEF AntiReplaySpec

\* A packet that passed the check does not wrap around, and slots only grow, so it stays
\* within MAX of its slot until its update.
InRange == \A t \in Threads : checked[t] # None =>
               checked[t] # Modulus - 1 /\ checked[t] + 1 <= MAX + window[Slot(checked[t])]

\* The inductive invariant of the safety theorems.
IInv == AntiReplayTypeOK /\ SlotsRecord /\ NoReplay /\ RefusedOnlyIfLate /\ InRange

\* The step that matters: a packet whose handler updates the window.
LEMMA AuthenticatedStep ==
    ASSUME IInv, NEW t \in Threads, Authenticated(t)
    PROVE  SlotsRecord' /\ NoReplay' /\ RefusedOnlyIfLate'
<1>. DEFINE c == checked[t]
            i == Slot(c)
<1>1. c \in Counters /\ i \in 0 .. L - 1
  BY SlotInRange DEF IInv, AntiReplayTypeOK, Authenticated
<1>2. /\ window \in Windows /\ delivered \in [Counters -> Nat]
      /\ window' = Update(window, c)
      /\ rejected \subseteq Counters
  BY DEF IInv, AntiReplayTypeOK, Authenticated
<1>3. window[i] \in Nat /\ c \in Nat /\ \A d \in Counters : delivered[d] \in Nat /\ d \in Nat
  BY <1>1, <1>2, WindowAssumption DEF Windows, Counters
<1>4. CASE Delivers(c)
  <2>1. window[i] <= c /\ WrappingSucc(c) = c + 1 /\ c # Modulus - 1
    BY <1>4, <1>3 DEF Delivers, Check, Accepts, WrappingSucc
  <2>2. window' = [window EXCEPT ![i] = c + 1]
    <3>1. window[i] < WrappingSucc(c)
      BY <1>3, <2>1
    <3>. QED  BY <1>2, <2>1, <3>1 DEF Update
  <2>3. delivered' = [delivered EXCEPT ![c] = @ + 1] /\ rejected' = rejected
    BY <1>4 DEF Authenticated
  <2>4. delivered[c] = 0
    BY <1>1, <1>3, <2>1 DEF IInv, SlotsRecord
  <2>5. delivered'[c] = 1 /\ \A d \in Counters : d # c => delivered'[d] = delivered[d]
    BY <1>1, <1>2, <2>3, <2>4
  <2>6. NoReplay'
    BY <2>5, <1>1 DEF IInv, NoReplay
  <2>7. \A d \in Counters : delivered'[d] > 0 => window'[Slot(d)] > d
    <3>. SUFFICES ASSUME NEW d \in Counters, delivered'[d] > 0 PROVE window'[Slot(d)] > d
      OBVIOUS
    <3>1. CASE d = c
      BY <3>1, <1>1, <1>2, <1>3, <2>2 DEF Windows
    <3>2. CASE d # c /\ Slot(d) # i
      <4>1. Slot(d) \in 0 .. L - 1
        BY SlotInRange
      <4>. HIDE DEF i
      <4>. QED  BY <3>2, <4>1, <1>1, <1>2, <2>2, <2>5 DEF Windows, IInv, SlotsRecord
    <3>3. CASE d # c /\ Slot(d) = i
      <4>1. window[i] > d
        BY <3>3, <2>5 DEF IInv, SlotsRecord
      <4>2. window'[i] = c + 1
        BY <1>1, <1>2, <2>2 DEF Windows
      <4>. QED  BY <3>3, <4>1, <4>2, <1>3, <2>1
    <3>. QED  BY <3>1, <3>2, <3>3
  <2>8. \A k \in 0 .. L - 1 : window'[k] > 0 =>
            delivered'[window'[k] - 1] > 0 /\ Slot(window'[k] - 1) = k
    <3>. SUFFICES ASSUME NEW k \in 0 .. L - 1, window'[k] > 0
                  PROVE  delivered'[window'[k] - 1] > 0 /\ Slot(window'[k] - 1) = k
      OBVIOUS
    <3>1. CASE k = i
      <4>1. window'[k] = c + 1 /\ window'[k] - 1 = c
        BY <3>1, <1>1, <1>2, <1>3, <2>2 DEF Windows
      <4>. QED  BY <3>1, <4>1, <2>5
    <3>2. CASE k # i
      <4>1. window'[k] = window[k] /\ window[k] \in Counters
        BY <3>2, <1>1, <1>2, <2>2 DEF Windows
      <4>2. window[k] - 1 \in Counters
        BY <4>1, WindowAssumption DEF Counters
      <4>3. delivered[window[k] - 1] > 0 /\ Slot(window[k] - 1) = k
        BY <4>1 DEF IInv, SlotsRecord
      <4>. QED  BY <4>1, <4>2, <4>3, <2>5
    <3>. QED  BY <3>1, <3>2
  <2>9. RefusedOnlyIfLate'
    <3>1. \A d \in Counters : delivered[d] > 0 => delivered'[d] > 0
      BY <2>5
    <3>. QED  BY <3>1, <2>3, <1>2 DEF IInv, RefusedOnlyIfLate
  <2>. QED  BY <2>6, <2>7, <2>8, <2>9 DEF SlotsRecord
<1>5. CASE ~Delivers(c)
  <2>1. delivered' = delivered /\ rejected' = rejected \cup {c}
    BY <1>5 DEF Authenticated
  <2>2. c # Modulus - 1 /\ c + 1 <= MAX + window[i]
    BY DEF IInv, InRange, Authenticated
  <2>3. WrappingSucc(c) = c + 1 /\ window[i] >= c + 1
    BY <1>3, <1>5, <2>2, WindowAssumption DEF Delivers, Check, Accepts, WrappingSucc
  <2>4. window' = window
    <3>1. ~(window[i] < WrappingSucc(c))
      BY <1>3, <2>3
    <3>. QED  BY <1>2, <3>1 DEF Update, Windows
  <2>5. SlotsRecord' /\ NoReplay'
    BY <2>1, <2>4 DEF IInv, SlotsRecord, NoReplay
  <2>6. delivered[c] > 0 \/ \E d \in Counters : delivered[d] > 0 /\ d >= c + L
    <3>. DEFINE d == window[i] - 1
    <3>1. d \in Counters /\ d >= c
      <4>1. window[i] \in Counters
        BY <1>1, <1>2 DEF Windows
      <4>. HIDE DEF i, c
      <4>. QED  BY <1>3, <2>3, <4>1, WindowAssumption DEF Counters
    <3>2. delivered[d] > 0 /\ Slot(d) = i
      BY <1>1, <1>3, <2>3 DEF IInv, SlotsRecord
    <3>. HIDE DEF d, i
    <3>3. CASE d = c
      BY <3>2, <3>3
    <3>4. CASE d > c
      <4>1. d >= c + L
        BY <1>1, <3>1, <3>2, <3>4, SameSlotApart DEF i
      <4>. QED  BY <3>1, <3>2, <4>1
    <3>. QED  BY <1>3, <3>1, <3>3, <3>4
  <2>7. RefusedOnlyIfLate'
    BY <2>1, <2>6 DEF IInv, RefusedOnlyIfLate
  <2>. QED  BY <2>5, <2>7
<1>. QED  BY <1>4, <1>5

\* No slot ever decreases, so a packet between check and update stays in range.
LEMMA InRangeStep == IInv /\ [AntiReplayNext]_antiReplayVars => InRange'
<1>. SUFFICES ASSUME IInv, [AntiReplayNext]_antiReplayVars PROVE InRange'
  OBVIOUS
<1>0. /\ window \in Windows /\ checked \in [Threads -> Counters \cup {None}]
      /\ \A c \in Counters : c \in Nat /\ Slot(c) \in 0 .. L - 1
  BY SlotInRange, WindowAssumption DEF IInv, AntiReplayTypeOK, Counters
<1>1. CASE Send
  BY <1>1 DEF Send, IInv, InRange
<1>2. ASSUME NEW t \in Threads, NEW c \in Counters, ReceiveCheck(t, c) PROVE InRange'
  <2>1. c # Modulus - 1 /\ c + 1 <= MAX + window[Slot(c)]
    <3>1. window[Slot(c)] \in Nat /\ c \in Nat
      BY <1>0, WindowAssumption DEF Windows, Counters
    <3>. QED  BY <1>2, <3>1, WindowAssumption DEF ReceiveCheck, Check, Accepts, WrappingSucc
  <2>. QED  BY <1>0, <1>2, <2>1 DEF ReceiveCheck, IInv, InRange
<1>3. ASSUME NEW t \in Threads, FailedAuth(t) PROVE InRange'
  BY <1>0, <1>3 DEF FailedAuth, IInv, InRange
<1>4. ASSUME NEW t \in Threads, Authenticated(t) PROVE InRange'
  <2>1. checked[t] \in Counters /\ window' = Update(window, checked[t])
    BY <1>0, <1>4 DEF Authenticated
  <2>2. \A k \in 0 .. L - 1 : window[k] \in Nat /\ window'[k] \in Nat /\ window[k] <= window'[k]
    BY <1>0, <2>1, UpdateGrows
  <2>. SUFFICES ASSUME NEW u \in Threads, checked'[u] # None
                PROVE  /\ checked'[u] # Modulus - 1
                       /\ checked'[u] + 1 <= MAX + window'[Slot(checked'[u])]
    BY DEF InRange
  <2>3. checked'[u] = checked[u] /\ checked[u] \in Counters
    BY <1>0, <1>4 DEF Authenticated
  <2>4. checked[u] # Modulus - 1 /\ checked[u] + 1 <= MAX + window[Slot(checked[u])]
    BY <2>3, AntiReplayAssumption DEF IInv, InRange
  <2>5. Slot(checked[u]) \in 0 .. L - 1 /\ checked[u] \in Nat
    BY <1>0, <2>3
  <2>. QED  BY <2>2, <2>3, <2>4, <2>5, WindowAssumption
<1>5. CASE UNCHANGED antiReplayVars
  BY <1>5 DEF antiReplayVars, IInv, InRange
<1>. QED  BY <1>1, <1>2, <1>3, <1>4, <1>5 DEF AntiReplayNext

\* IInv is inductive.
LEMMA SafeStep == IInv /\ [AntiReplayNext]_antiReplayVars => IInv'
<1>. SUFFICES ASSUME IInv, [AntiReplayNext]_antiReplayVars PROVE IInv'
  OBVIOUS
<1>1. AntiReplayTypeOK' /\ InRange'
  BY TypeStep, InRangeStep DEF IInv
<1>2. SlotsRecord' /\ NoReplay' /\ RefusedOnlyIfLate'
  <2>1. ASSUME UNCHANGED <<window, delivered, rejected>>
        PROVE  SlotsRecord' /\ NoReplay' /\ RefusedOnlyIfLate'
    BY <2>1 DEF IInv, SlotsRecord, NoReplay, RefusedOnlyIfLate
  <2>2. \/ UNCHANGED <<window, delivered, rejected>>
        \/ \E t \in Threads : Authenticated(t)
    BY DEF AntiReplayNext, antiReplayVars, Send, ReceiveCheck, FailedAuth
  <2>. QED  BY <2>1, <2>2, AuthenticatedStep
<1>. QED  BY <1>1, <1>2 DEF IInv

\* The safety invariants hold of every behaviour.
LEMMA Safe == AntiReplaySpec => []IInv
<1>1. AntiReplayInit => IInv
  <2>. SUFFICES ASSUME AntiReplayInit PROVE IInv
    OBVIOUS
  <2>1. AntiReplayTypeOK
    BY WindowAssumption, AntiReplayAssumption
    DEF AntiReplayInit, AntiReplayTypeOK, NewWindow, Windows, Counters
  <2>. QED  BY <2>1 DEF AntiReplayInit, IInv, SlotsRecord, NoReplay, RefusedOnlyIfLate, InRange, NewWindow
<1>. QED  BY <1>1, SafeStep, PTL DEF AntiReplaySpec

\* No counter is accepted twice, whatever the threads of Context::receive interleave.
THEOREM ReplaysRefused == AntiReplaySpec => []NoReplay
<1>1. IInv => NoReplay
  BY DEF IInv
<1>. QED  BY <1>1, Safe, PTL

\* Window::update refuses an authentic packet that passed the check only if it is a copy
\* or a packet L counters further on was accepted.
THEOREM InWindowAccepted == AntiReplaySpec => []RefusedOnlyIfLate
<1>1. IInv => RefusedOnlyIfLate
  BY DEF IInv
<1>. QED  BY <1>1, Safe, PTL

-----------------------------------------------------------------------------
(***************************************************************************)
(* Fragments of a session: cutting up, collecting, putting together.       *)
(***************************************************************************)

\* A set of natural numbers has a least element.
LEMMA LeastNatural ==
    ASSUME NEW T, T \subseteq Nat, T # {}
    PROVE  \E x \in T : \A y \in T : x <= y
<1>1. PICK x \in T : \A y \in T : ~ (<<y, x>> \in OpToRel(<, Nat))
  BY NatLessThanWellFounded, WFMin
<1>2. \A y \in T : ~(y < x)
  BY <1>1 DEF OpToRel
<1>. QED  BY <1>2

\* Where fragment no of count begins in a packet of len bytes.
Offset(len, count, no) ==
    no * (len \div count) + (IF no <= len % count THEN no ELSE len % count)

\* Division with remainder.
LEMMA Quotient ==
    ASSUME NEW len \in Nat, NEW count \in Nat \ {0}
    PROVE  /\ len \div count \in Nat /\ len % count \in Nat /\ len % count < count
           /\ len = count * (len \div count) + (len % count)
  OBVIOUS

\* The fragments lie end to end from the beginning of the packet to its end.
LEMMA Offsets ==
    ASSUME NEW len \in Nat, NEW count \in Nat \ {0}
    PROVE  /\ Offset(len, count, 0) = 0
           /\ Offset(len, count, count) = len
           /\ \A no \in 0 .. count : Offset(len, count, no) \in Nat
           /\ \A no \in 0 .. count - 1 : FragmentLen(len, count, no) \in Nat
           /\ \A no \in 0 .. count - 1 :
                Offset(len, count, no + 1) = Offset(len, count, no) + FragmentLen(len, count, no)
           /\ \A no \in 0 .. count, m \in 0 .. count :
                m <= no => Offset(len, count, m) <= Offset(len, count, no)
<1>. DEFINE q == len \div count
            r == len % count
<1>1. q \in Nat /\ r \in Nat /\ r < count /\ len = count * q + r
  BY Quotient
<1>2. \A no : Offset(len, count, no) = no * q + (IF no <= r THEN no ELSE r)
  BY DEF Offset
<1>3. \A no : FragmentLen(len, count, no) = q + (IF no < r THEN 1 ELSE 0)
  BY DEF FragmentLen
<1>. HIDE DEF q, r
<1>4. Offset(len, count, 0) = 0
  <2>1. 0 * q = 0
    BY <1>1
  <2>. QED  BY <1>1, <1>2, <2>1
<1>5. Offset(len, count, count) = len
  <2>1. ~(count <= r)
    BY <1>1
  <2>. QED  BY <1>1, <1>2, <2>1
<1>6. ASSUME NEW no \in 0 .. count PROVE Offset(len, count, no) \in Nat
  <2>1. no * q \in Nat
    BY <1>1
  <2>. QED  BY <1>1, <1>2, <2>1
<1>7. ASSUME NEW no \in 0 .. count - 1
      PROVE  Offset(len, count, no + 1) = Offset(len, count, no) + FragmentLen(len, count, no)
  <2>1. (no + 1) * q = no * q + q /\ no * q \in Nat /\ (no + 1) * q \in Nat
    BY <1>1
  <2>. QED  BY <1>1, <1>2, <1>3, <2>1
<1>8. ASSUME NEW no \in 0 .. count, NEW m \in 0 .. count, m <= no
      PROVE  Offset(len, count, m) <= Offset(len, count, no)
  <2>1. PICK d \in Nat : no = m + d
    <3>1. no - m \in Nat /\ no = m + (no - m)
      BY <1>8
    <3>. QED  BY <3>1
  <2>2. no * q = m * q + d * q /\ m * q \in Nat /\ d * q \in Nat
    BY <1>1, <2>1
  <2>. QED  BY <1>1, <1>2, <2>1, <2>2
<1>. QED  BY <1>1, <1>3, <1>4, <1>5, <1>6, <1>7, <1>8

\* The number of fragments is not zero, and they are as many as it takes.
LEMMA Counts ==
    ASSUME NEW len \in Nat \ {0}, NEW mtu \in Nat \ {0}, NEW count, count = FragmentCount(len, mtu)
    PROVE  /\ count \in Nat \ {0}
           /\ len <= count * mtu
           /\ (count - 1) * mtu < len
<1>1. PICK x \in Nat : x = len + mtu - 1 /\ x >= mtu
  OBVIOUS
<1>2. /\ x \div mtu \in Nat /\ x % mtu \in Nat /\ x % mtu < mtu
      /\ x = mtu * (x \div mtu) + (x % mtu)
  BY Quotient
<1>3. count = x \div mtu
  BY <1>1 DEF FragmentCount
<1>4. PICK r \in Nat : r < mtu /\ x = mtu * count + r
  BY <1>2, <1>3
<1>5. count \in Nat
  BY <1>2, <1>3
<1>6. count # 0
  <2>. SUFFICES ASSUME count = 0 PROVE FALSE
    OBVIOUS
  <2>1. mtu * count = 0
    OBVIOUS
  <2>. QED  BY <1>1, <1>4, <2>1
<1>7. mtu * count = count * mtu /\ (count - 1) * mtu = count * mtu - mtu /\ count * mtu \in Nat
  BY <1>5
<1>. QED  BY <1>1, <1>4, <1>5, <1>6, <1>7

\* A fragment is no longer than the MTU, and no shorter than the tag.
LEMMA FragmentLens ==
    ASSUME NEW len \in Nat \ {0}, NEW mtu \in Nat \ {0}, TAG_SIZE <= len, 2 * TAG_SIZE <= mtu,
           NEW count, count = FragmentCount(len, mtu), NEW no \in 0 .. count - 1
    PROVE  TAG_SIZE <= FragmentLen(len, count, no) /\ FragmentLen(len, count, no) <= mtu
<1>. DEFINE q == len \div count
            r == len % count
<1>1. count \in Nat \ {0} /\ len <= count * mtu /\ (count - 1) * mtu < len
  BY Counts
<1>2. q \in Nat /\ r \in Nat /\ r < count /\ len = count * q + r
  BY <1>1, Quotient
<1>3. FragmentLen(len, count, no) = q + (IF no < r THEN 1 ELSE 0)
  BY DEF FragmentLen
<1>. HIDE DEF q, r
<1>4. TAG_SIZE \in Nat \ {0}
  BY FraggedAssumption
<1>5. q <= mtu /\ (r > 0 => q + 1 <= mtu)
  <2>1. ASSUME mtu + 1 <= q PROVE FALSE
    <3>1. PICK d \in Nat : q = mtu + 1 + d
      <4>1. q - (mtu + 1) \in Nat /\ q = mtu + 1 + (q - (mtu + 1))
        BY <1>2, <2>1
      <4>. QED  BY <4>1
    <3>2. count * q = count * mtu + count + count * d /\ count * d \in Nat /\ count * mtu \in Nat
      BY <1>1, <3>1
    <3>. QED  BY <1>1, <1>2, <3>2
  <2>2. ASSUME r > 0, q = mtu PROVE FALSE
    <3>1. count * q = count * mtu /\ count * mtu \in Nat
      BY <1>1, <2>2
    <3>. QED  BY <1>1, <1>2, <2>2, <3>1
  <2>. QED  BY <1>2, <2>1, <2>2
<1>6. TAG_SIZE <= q
  <2>1. CASE count = 1
    <3>1. r = 0 /\ count * q = q
      BY <1>2, <2>1
    <3>. QED  BY <1>2, <3>1
  <2>2. CASE count # 1
    <3>1. ASSUME q + 1 <= TAG_SIZE PROVE FALSE
      <4>1. PICK d \in Nat : TAG_SIZE = q + 1 + d
        <5>1. TAG_SIZE - (q + 1) \in Nat /\ TAG_SIZE = q + 1 + (TAG_SIZE - (q + 1))
          BY <1>2, <1>4, <3>1
        <5>. QED  BY <5>1
      <4>2. PICK e \in Nat : mtu = 2 * TAG_SIZE + e
        <5>1. mtu - 2 * TAG_SIZE \in Nat /\ mtu = 2 * TAG_SIZE + (mtu - 2 * TAG_SIZE)
          BY <1>4
        <5>. QED  BY <5>1
      <4>3. PICK k \in Nat : count = k + 2
        <5>1. count - 2 \in Nat /\ count = (count - 2) + 2
          BY <1>1, <2>2
        <5>. QED  BY <5>1
      <4>4. count * TAG_SIZE = count * q + count + count * d /\ count * d \in Nat /\ count * q \in Nat
        BY <1>1, <1>2, <4>1
      <4>5. (count - 1) * mtu = (k + 1) * mtu /\ (k + 1) * mtu = (k + 1) * (2 * TAG_SIZE) + (k + 1) * e
        BY <4>2, <4>3, <1>4
      <4>6. (k + 1) * e \in Nat
        BY <4>2, <4>3
      <4>7. (k + 1) * (2 * TAG_SIZE) = (k + 2) * TAG_SIZE + k * TAG_SIZE /\ k * TAG_SIZE \in Nat
        BY <4>3, <1>4
      <4>8. (k + 2) * TAG_SIZE = count * TAG_SIZE /\ count * TAG_SIZE \in Nat
        BY <4>3, <1>4
      <4>. QED  BY <1>1, <1>2, <4>4, <4>5, <4>6, <4>7, <4>8
    <3>. QED  BY <1>2, <1>4, <3>1
  <2>. QED  BY <2>1, <2>2
<1>. QED  BY <1>2, <1>3, <1>4, <1>5, <1>6

\* The running index of the senders is the offset.
LEMMA Starts ==
    ASSUME NEW len \in Nat, NEW count \in Nat \ {0}
    PROVE  \A no \in 0 .. count : Start(len, count)[no] = Offset(len, count, no)
<1>. DEFINE i[no \in 0 .. count] == IF no = 0 THEN 0 ELSE i[no - 1] + FragmentLen(len, count, no - 1)
<1>1. \E f : f = [no \in 0 .. count |-> IF no = 0 THEN 0 ELSE f[no - 1] + FragmentLen(len, count, no - 1)]
  <2>. DEFINE g == [no \in 0 .. count |-> Offset(len, count, no)]
  <2>1. ASSUME NEW no \in 0 .. count
        PROVE  g[no] = IF no = 0 THEN 0 ELSE g[no - 1] + FragmentLen(len, count, no - 1)
    <3>1. CASE no = 0
      BY <3>1, Offsets
    <3>2. CASE no # 0
      <4>1. no - 1 \in 0 .. count - 1 /\ no - 1 \in 0 .. count /\ no - 1 + 1 = no
        BY <3>2
      <4>. QED  BY <3>2, <4>1, Offsets
    <3>. QED  BY <3>1, <3>2
  <2>2. g = [no \in 0 .. count |-> g[no]]
    OBVIOUS
  <2>. HIDE DEF g
  <2>3. g = [no \in 0 .. count |-> IF no = 0 THEN 0 ELSE g[no - 1] + FragmentLen(len, count, no - 1)]
    BY <2>1, <2>2
  <2>. QED  BY <2>3
<1>2. i = [no \in 0 .. count |-> IF no = 0 THEN 0 ELSE i[no - 1] + FragmentLen(len, count, no - 1)]
  BY <1>1
<1>3. Start(len, count) = i
  BY DEF Start
<1>. HIDE DEF i
<1>4. \A no \in 0 .. count : i[no] = IF no = 0 THEN 0 ELSE i[no - 1] + FragmentLen(len, count, no - 1)
  BY <1>2
<1>5. \A no \in 0 .. count : i[no] = Offset(len, count, no)
  <2>. DEFINE T == {no \in 0 .. count : i[no] # Offset(len, count, no)}
  <2>. SUFFICES ASSUME T # {} PROVE FALSE
    OBVIOUS
  <2>1. PICK x \in T : \A y \in T : x <= y
    <3>1. T \subseteq Nat
      OBVIOUS
    <3>. HIDE DEF T
    <3>. QED  BY <3>1, LeastNatural
  <2>2. x # 0 /\ x \in 0 .. count
    <3>1. 0 \in 0 .. count
      OBVIOUS
    <3>2. i[0] = Offset(len, count, 0)
      BY <1>4, <3>1, Offsets
    <3>. QED  BY <2>1, <3>2
  <2>3. x - 1 \in 0 .. count /\ x - 1 \in 0 .. count - 1 /\ x - 1 + 1 = x /\ ~(x <= x - 1)
    BY <2>2
  <2>4. i[x - 1] = Offset(len, count, x - 1)
    BY <2>1, <2>3
  <2>5. Offset(len, count, x) = Offset(len, count, x - 1) + FragmentLen(len, count, x - 1)
    BY <2>3, Offsets
  <2>. QED  BY <1>4, <2>2, <2>4, <2>5
<1>. QED  BY <1>3, <1>5

-----------------------------------------------------------------------------

\* Packet c of len bytes.
Bytes(c, len) == [k \in 1 .. len |-> Byte(c, k)]

\* What fragment no of count has of it.
Piece(c, len, count, no) ==
    [k \in 1 .. FragmentLen(len, count, no) |-> Byte(c, Offset(len, count, no) + k)]

\* The fragment as it is sent.
Fragment(c, len, count, no) ==
    [c |-> c, no |-> no, count |-> count, bytes |-> Masked(Piece(c, len, count, no))]

\* p has n elements, and s has the same from its element a + 1 on.
Elements(p, s, a, n) == p = [k \in 1 .. n |-> p[k]] /\ \A k \in 1 .. n : p[k] = s[a + k]

\* A part of a sequence.
LEMMA Part ==
    ASSUME NEW s, NEW n \in Nat, s = [k \in 1 .. n |-> s[k]], NEW a \in Nat, NEW b \in Nat, a <= b, b <= n
    PROVE  Elements(SubSeq(s, a + 1, b), s, a, b - a)
  BY DEF Elements

\* p has the n elements of q and then the m elements of r.
Concatenates(p, q, n, r, m) ==
    /\ p = [k \in 1 .. n + m |-> p[k]]
    /\ \A k \in 1 .. n : p[k] = q[k]
    /\ \A k \in 1 .. m : p[n + k] = r[k]

\* One sequence after another.
LEMMA Concatenation ==
    ASSUME NEW n \in Nat, NEW q, q = [k \in 1 .. n |-> q[k]],
           NEW m \in Nat, NEW r, r = [k \in 1 .. m |-> r[k]]
    PROVE  Concatenates(q \o r, q, n, r, m)
<1>1. Len(q) = n /\ Len(r) = m
  OBVIOUS
<1>2. q \o r = [k \in 1 .. n + m |-> IF k <= n THEN q[k] ELSE r[k - n]]
  BY <1>1
<1>. QED  BY <1>2 DEF Concatenates

\* Where fragment no of n bytes begins and ends.
EndsAt(len, count, i, no, n) ==
    /\ n \in Nat /\ i[no] \in Nat /\ i[no] = Offset(len, count, no)
    /\ i[no + 1] = i[no] + n /\ i[no + 1] <= len
    /\ \A m \in 0 .. no : i[m] \in Nat /\ i[m] <= i[no]
    /\ no + 1 = count => i[no + 1] = len

\* It begins where the last one ends.
LEMMA Ends ==
    ASSUME NEW len \in Nat, NEW count \in Nat \ {0}, NEW i, i = Start(len, count),
           NEW no \in 0 .. count - 1, NEW n, n = FragmentLen(len, count, no)
    PROVE  EndsAt(len, count, i, no, n)
<1>1. /\ no \in 0 .. count /\ no + 1 \in 0 .. count /\ count \in 0 .. count /\ no + 1 <= count
      /\ \A m \in 0 .. no : m \in 0 .. count /\ m <= no
  OBVIOUS
<1>2. \A m \in 0 .. count : i[m] = Offset(len, count, m)
  BY Starts
<1>3. Offset(len, count, no + 1) <= Offset(len, count, count) /\ Offset(len, count, count) = len
  BY <1>1, Offsets
<1>4. /\ Offset(len, count, no) \in Nat /\ n \in Nat
      /\ Offset(len, count, no + 1) = Offset(len, count, no) + n
  BY <1>1, Offsets
<1>5. \A m \in 0 .. no : Offset(len, count, m) \in Nat /\ Offset(len, count, m) <= Offset(len, count, no)
  BY <1>1, Offsets
<1>6. i[no] = Offset(len, count, no) /\ i[no + 1] = Offset(len, count, no + 1)
  BY <1>1, <1>2
<1>7. \A m \in 0 .. no : i[m] \in Nat /\ i[m] <= i[no]
  BY <1>1, <1>2, <1>5
<1>8. no + 1 = count => i[no + 1] = len
  BY <1>3, <1>6
<1>. QED  BY <1>3, <1>4, <1>6, <1>7, <1>8 DEF EndsAt

\* What both senders have to show of their fragments.
IsPiece(p, c, o, n) == p = [k \in 1 .. n |-> p[k]] /\ \A k \in 1 .. n : p[k] = Byte(c, o + k)

\* Such a sequence of bytes is the fragment's.
LEMMA Pieces ==
    ASSUME NEW c, NEW len, NEW count, NEW no, NEW p, NEW n \in Nat, n = FragmentLen(len, count, no),
           NEW o, o = Offset(len, count, no), IsPiece(p, c, o, n)
    PROVE  p = Piece(c, len, count, no)
  BY DEF Piece, IsPiece

\* send_with_fragmentation sends the fragments of the packet: a header overwrites nothing that
\* is still to be sent.
LEMMA ControlCuts ==
    ASSUME NEW c, NEW len \in Nat \ {0}, NEW mtu \in Nat \ {0}, NEW count, count = FragmentCount(len, mtu),
           NEW f \in ControlFragments(c, Bytes(c, len), mtu)
    PROVE  \E no \in 0 .. count - 1 : f = Fragment(c, len, count, no)
<1>. DEFINE packet   == Bytes(c, len)
            headered == [k \in 1 .. HEADER_SIZE |-> Byte(c, 0)] \o packet
<1>1. Len(packet) = len
  BY DEF Bytes
<1>2. PICK i : i = Start(len, count)
  OBVIOUS
<1>3. PICK h : h = headered
  OBVIOUS
<1>. DEFINE buffer(no) == [k \in DOMAIN h |->
                              IF \E m \in 0 .. no : i[m] < k /\ k <= i[m] + HEADER_SIZE
                              THEN Byte(c, 0) ELSE h[k]]
<1>4. PICK no \in 0 .. count - 1 :
        f = [c |-> c, no |-> no, count |-> count,
             bytes |-> Masked(SubSeq(buffer(no), HEADER_SIZE + i[no] + 1, HEADER_SIZE + i[no + 1]))]
  BY <1>1, <1>2, <1>3 DEF ControlFragments
<1>5. /\ DOMAIN h = 1 .. HEADER_SIZE + len
      /\ \A k \in 1 .. len : HEADER_SIZE + k \in 1 .. HEADER_SIZE + len /\ h[HEADER_SIZE + k] = Byte(c, k)
  BY <1>3, FraggedAssumption, SMTT(30) DEF Bytes
<1>6. count \in Nat \ {0}
  BY Counts
<1>7. PICK n : n = FragmentLen(len, count, no)
  OBVIOUS
<1>8. /\ n \in Nat /\ i[no] \in Nat /\ i[no] = Offset(len, count, no)
      /\ i[no + 1] = i[no] + n /\ i[no + 1] <= len
      /\ \A m \in 0 .. no : i[m] \in Nat /\ i[m] <= i[no]
  <2>1. EndsAt(len, count, i, no, n)
    BY <1>2, <1>6, <1>7, Ends
  <2>. QED  BY <2>1 DEF EndsAt
<1>9. PICK b : b = buffer(no)
  OBVIOUS
<1>10. PICK x \in Nat, y \in Nat : x = HEADER_SIZE + i[no] /\ y = HEADER_SIZE + i[no + 1]
  BY <1>8, FraggedAssumption
<1>11. x <= y /\ y <= HEADER_SIZE + len /\ y - x = n
  BY <1>8, <1>10, FraggedAssumption
<1>12. b = [k \in 1 .. HEADER_SIZE + len |-> b[k]]
  BY <1>5, <1>9
<1>13. ASSUME NEW k \in 1 .. n PROVE b[x + k] = Byte(c, i[no] + k)
  <2>1. i[no] + k \in 1 .. len /\ x + k = HEADER_SIZE + (i[no] + k)
    BY <1>8, <1>10, FraggedAssumption
  <2>2. x + k \in DOMAIN h /\ h[x + k] = Byte(c, i[no] + k)
    BY <1>5, <2>1
  <2>3. ~ \E m \in 0 .. no : i[m] < x + k /\ x + k <= i[m] + HEADER_SIZE
    BY <1>8, <1>10, FraggedAssumption
  <2>. QED  BY <1>9, <2>2, <2>3
<1>14. PICK p : p = SubSeq(b, x + 1, y)
  OBVIOUS
<1>15. Elements(p, b, x, n)
  <2>1. PICK z \in Nat : z = HEADER_SIZE + len
    BY FraggedAssumption
  <2>2. Elements(SubSeq(b, x + 1, y), b, x, y - x)
    BY <1>11, <1>12, <2>1, Part
  <2>. QED  BY <1>11, <1>14, <2>2
<1>16. IsPiece(p, c, i[no], n)
  BY <1>13, <1>15 DEF Elements, IsPiece
<1>17. p = Piece(c, len, count, no)
  BY <1>7, <1>8, <1>16, Pieces
<1>. QED  BY <1>4, <1>9, <1>10, <1>14, <1>17 DEF Fragment

\* send_payload sends them too: the tag is no longer than the last fragment.
LEMMA DataCuts ==
    ASSUME NEW c, NEW len \in Nat \ {0}, NEW mtu \in Nat \ {0}, TAG_SIZE <= len, 2 * TAG_SIZE <= mtu,
           NEW count, count = FragmentCount(len, mtu),
           NEW f \in DataFragments(c, Bytes(c, len), mtu)
    PROVE  \E no \in 0 .. count - 1 : f = Fragment(c, len, count, no)
<1>0. PICK packet : packet = Bytes(c, len)
  OBVIOUS
<1>1. Len(packet) = len
  BY <1>0 DEF Bytes
<1>2. PICK i : i = Start(len, count)
  OBVIOUS
<1>3. PICK payload : payload = SubSeq(packet, 1, len - TAG_SIZE)
  OBVIOUS
<1>4. PICK tag : tag = SubSeq(packet, len - TAG_SIZE + 1, len)
  OBVIOUS
<1>. DEFINE piece(no) == IF no < count - 1
                         THEN SubSeq(payload, i[no] + 1, i[no + 1])
                         ELSE SubSeq(payload, i[no] + 1, Len(payload)) \o tag
<1>5. PICK no \in 0 .. count - 1 : f = [c |-> c, no |-> no, count |-> count, bytes |-> Masked(piece(no))]
  BY <1>0, <1>1, <1>2, <1>3, <1>4 DEF DataFragments
<1>6. PICK rest \in Nat : rest = len - TAG_SIZE /\ TAG_SIZE \in Nat /\ len - rest = TAG_SIZE
  BY FraggedAssumption
<1>7. packet = [k \in 1 .. len |-> packet[k]] /\ \A k \in 1 .. len : packet[k] = Byte(c, k)
  BY <1>0 DEF Bytes
<1>8. payload = [k \in 1 .. rest |-> payload[k]] /\ \A k \in 1 .. rest : payload[k] = Byte(c, k)
  <2>1. PICK z \in Nat : z = 0
    OBVIOUS
  <2>2. rest <= len
    BY <1>6
  <2>3. Elements(SubSeq(packet, z + 1, rest), packet, z, rest - z)
    BY <1>7, <2>1, <2>2, Part
  <2>4. Elements(payload, packet, 0, rest)
    BY <1>3, <1>6, <2>1, <2>3
  <2>5. \A k \in 1 .. rest : 0 + k = k /\ k \in 1 .. len
    BY <1>6
  <2>6. \A k \in 1 .. rest : payload[k] = Byte(c, k)
    BY <1>7, <2>4, <2>5 DEF Elements
  <2>. QED  BY <2>4, <2>6 DEF Elements
<1>9. /\ tag = [k \in 1 .. TAG_SIZE |-> tag[k]]
      /\ \A k \in 1 .. TAG_SIZE : tag[k] = Byte(c, rest + k)
  <2>1. rest <= len
    BY <1>6
  <2>2. Elements(SubSeq(packet, rest + 1, len), packet, rest, len - rest)
    BY <1>7, <2>1, Part
  <2>3. Elements(tag, packet, rest, TAG_SIZE)
    BY <1>4, <1>6, <2>2
  <2>4. \A k \in 1 .. TAG_SIZE : rest + k \in 1 .. len
    BY <1>6
  <2>5. \A k \in 1 .. TAG_SIZE : tag[k] = Byte(c, rest + k)
    BY <1>7, <2>3, <2>4 DEF Elements
  <2>. QED  BY <2>3, <2>5 DEF Elements
<1>10. count \in Nat \ {0}
  BY Counts
<1>11. PICK n : n = FragmentLen(len, count, no)
  OBVIOUS
<1>12. /\ n \in Nat /\ i[no] \in Nat /\ i[no] = Offset(len, count, no)
       /\ i[no + 1] = i[no] + n /\ i[no + 1] <= len
       /\ no + 1 = count => i[no + 1] = len
  <2>1. EndsAt(len, count, i, no, n)
    BY <1>2, <1>10, <1>11, Ends
  <2>. QED  BY <2>1 DEF EndsAt
<1>13. TAG_SIZE <= n
  BY <1>11, FragmentLens
<1>14. PICK p : p = piece(no)
  OBVIOUS
<1>15. CASE no < count - 1
  <2>1. i[no + 1] <= rest
    <3>1. no + 1 \in 0 .. count - 1
      BY <1>10, <1>15
    <3>2. PICK m : m = FragmentLen(len, count, no + 1)
      OBVIOUS
    <3>3. m \in Nat /\ i[no + 1 + 1] = i[no + 1] + m /\ i[no + 1 + 1] <= len
      <4>1. EndsAt(len, count, i, no + 1, m)
        BY <1>2, <1>10, <3>1, <3>2, Ends
      <4>. QED  BY <4>1 DEF EndsAt
    <3>4. TAG_SIZE <= m
      BY <3>1, <3>2, FragmentLens
    <3>. QED  BY <1>6, <1>12, <3>3, <3>4
  <2>2. PICK a \in Nat, b \in Nat : a = i[no] /\ b = i[no + 1] /\ b - a = n /\ a <= b
    BY <1>12
  <2>3. Elements(SubSeq(payload, a + 1, b), payload, a, b - a)
    BY <1>8, <2>1, <2>2, Part
  <2>4. Elements(p, payload, a, n)
    BY <1>14, <1>15, <2>2, <2>3
  <2>5. IsPiece(p, c, a, n)
    <3>1. \A k \in 1 .. n : a + k \in 1 .. rest
      BY <1>6, <1>12, <2>1, <2>2
    <3>. QED  BY <1>8, <2>4, <3>1 DEF Elements, IsPiece
  <2>6. p = Piece(c, len, count, no)
    BY <1>11, <1>12, <2>2, <2>5, Pieces
  <2>. QED  BY <1>5, <1>14, <2>6 DEF Fragment
<1>16. CASE ~(no < count - 1)
  <2>1. i[no + 1] = len
    BY <1>10, <1>12, <1>16
  <2>2. PICK a \in Nat, m \in Nat : a = i[no] /\ m = rest - a /\ m + TAG_SIZE = n /\ a <= rest
    BY <1>6, <1>12, <1>13, <2>1
  <2>3. PICK q : q = SubSeq(payload, a + 1, rest)
    OBVIOUS
  <2>4. Len(payload) = rest
    BY <1>8
  <2>5. Elements(q, payload, a, m)
    <3>1. Elements(SubSeq(payload, a + 1, rest), payload, a, rest - a)
      BY <1>8, <2>2, Part
    <3>. QED  BY <2>2, <2>3, <3>1
  <2>6. Concatenates(q \o tag, q, m, tag, TAG_SIZE)
    BY <1>6, <1>9, <2>5, Concatenation DEF Elements
  <2>7. p = q \o tag
    BY <1>14, <1>16, <2>2, <2>3, <2>4
  <2>8. Concatenates(p, q, m, tag, TAG_SIZE)
    BY <2>6, <2>7
  <2>9. ASSUME NEW k \in 1 .. n PROVE p[k] = Byte(c, a + k)
    <3>1. CASE k <= m
      <4>1. k \in 1 .. m /\ a + k \in 1 .. rest
        BY <1>6, <2>2, <3>1
      <4>. QED  BY <1>8, <2>5, <2>8, <4>1 DEF Elements, Concatenates
    <3>2. CASE ~(k <= m)
      <4>1. PICK j \in 1 .. TAG_SIZE : k = m + j /\ rest + j = a + k
        <5>1. k - m \in 1 .. TAG_SIZE /\ k = m + (k - m) /\ rest + (k - m) = a + k
          BY <1>6, <1>12, <2>2, <3>2
        <5>. QED  BY <5>1
      <4>. QED  BY <1>9, <2>8, <4>1 DEF Concatenates
    <3>. QED  BY <3>1, <3>2
  <2>10. IsPiece(p, c, a, n)
    BY <2>2, <2>8, <2>9 DEF IsPiece, Concatenates
  <2>11. p = Piece(c, len, count, no)
    BY <1>11, <1>12, <2>2, <2>10, Pieces
  <2>. QED  BY <1>5, <1>14, <2>11 DEF Fragment
<1>. QED  BY <1>15, <1>16

\* The header cipher on a byte.
Flip(b) == [b EXCEPT !.masked = ~@]

\* Applied twice it gives the byte back.
LEMMA Flipped ==
    ASSUME NEW a, NEW k, NEW b, b = [packet |-> a, at |-> k, masked |-> FALSE]
    PROVE  Flip(Flip(b)) = b
<1>1. PICK e : e = [packet |-> a, at |-> k, masked |-> TRUE]
  OBVIOUS
<1>2. Flip(b) = e
  <2>1. b.masked = FALSE
    OBVIOUS
  <2>2. PICK v : v = ~b.masked
    OBVIOUS
  <2>3. v = TRUE
    BY <2>1, <2>2, Zenon
  <2>4. [b EXCEPT !.masked = v] = [packet |-> a, at |-> k, masked |-> v]
    OBVIOUS
  <2>. QED  BY <1>1, <2>2, <2>3, <2>4, Zenon DEF Flip
<1>3. Flip(e) = b
  <2>1. e.masked = TRUE
    BY <1>1
  <2>2. PICK v : v = ~e.masked
    OBVIOUS
  <2>3. v = FALSE
    BY <2>1, <2>2, Zenon
  <2>4. [e EXCEPT !.masked = v] = [packet |-> a, at |-> k, masked |-> v]
    BY <1>1
  <2>. QED  BY <2>2, <2>3, <2>4, Zenon DEF Flip
<1>. QED  BY <1>2, <1>3

\* Whoever takes the header cipher off a fragment has the bytes of the packet.
LEMMA Unmasked ==
    ASSUME NEW c, NEW len, NEW count, NEW no
    PROVE  Masked(Masked(Piece(c, len, count, no))) = Piece(c, len, count, no)
<1>. DEFINE byte(k) == Byte(c, Offset(len, count, no) + k)
<1>1. PICK D : D = 1 .. FragmentLen(len, count, no)
  OBVIOUS
<1>2. PICK p : p = Piece(c, len, count, no)
  OBVIOUS
<1>3. p = [k \in D |-> byte(k)]
  BY <1>1, <1>2 DEF Piece
<1>4. \A k \in D : Flip(Flip(byte(k))) = byte(k)
  BY Flipped DEF Byte
<1>. HIDE DEF byte
<1>5. \A b : DOMAIN b = D => Masked(b) = [k \in D |-> IF k <= AUTH_SIZE THEN Flip(b[k]) ELSE b[k]]
  BY DEF Masked, Flip
<1>6. PICK m : m = Masked(p)
  OBVIOUS
<1>7. m = [k \in D |-> IF k <= AUTH_SIZE THEN Flip(p[k]) ELSE p[k]]
  BY <1>3, <1>5, <1>6
<1>8. Masked(m) = [k \in D |-> IF k <= AUTH_SIZE THEN Flip(m[k]) ELSE m[k]]
  BY <1>5, <1>7
<1>9. \A k \in D : (IF k <= AUTH_SIZE THEN Flip(m[k]) ELSE m[k]) = byte(k)
  BY <1>3, <1>4, <1>7
<1>. QED  BY <1>2, <1>3, <1>6, <1>8, <1>9

\* The bytes before fragment no and those of the fragment are the bytes before the next one.
LEMMA JoinStep ==
    ASSUME NEW c, NEW len \in Nat, NEW count \in Nat \ {0}, NEW no \in 0 .. count - 1,
           NEW o, o = Offset(len, count, no)
    PROVE  Bytes(c, o) \o Piece(c, len, count, no) = Bytes(c, Offset(len, count, no + 1))
<1>1. PICK n : n = FragmentLen(len, count, no)
  OBVIOUS
<1>2. o \in Nat /\ n \in Nat /\ Offset(len, count, no + 1) = o + n
  <2>1. no \in 0 .. count
    OBVIOUS
  <2>. QED  BY <1>1, <2>1, Offsets
<1>3. PICK q : q = Bytes(c, o)
  OBVIOUS
<1>4. PICK r : r = Piece(c, len, count, no)
  OBVIOUS
<1>5. q = [k \in 1 .. o |-> q[k]] /\ \A k \in 1 .. o : q[k] = Byte(c, k)
  BY <1>3 DEF Bytes
<1>6. r = [k \in 1 .. n |-> r[k]] /\ \A k \in 1 .. n : r[k] = Byte(c, o + k)
  BY <1>1, <1>4 DEF Piece
<1>7. Concatenates(q \o r, q, o, r, n)
  BY <1>2, <1>5, <1>6, Concatenation
<1>8. PICK j : j = q \o r
  OBVIOUS
<1>9. ASSUME NEW k \in 1 .. o + n PROVE j[k] = Byte(c, k)
  <2>1. CASE k <= o
    BY <1>2, <1>5, <1>7, <1>8, <2>1 DEF Concatenates
  <2>2. CASE ~(k <= o)
    <3>1. PICK m \in 1 .. n : k = o + m
      <4>1. k - o \in 1 .. n /\ k = o + (k - o)
        BY <1>2, <2>2
      <4>. QED  BY <4>1
    <3>. QED  BY <1>6, <1>7, <1>8, <3>1 DEF Concatenates
  <2>. QED  BY <2>1, <2>2
<1>10. j = [k \in 1 .. o + n |-> j[k]]
  BY <1>7, <1>8 DEF Concatenates
<1>11. j = Bytes(c, o + n)
  BY <1>9, <1>10 DEF Bytes
<1>. QED  BY <1>2, <1>3, <1>4, <1>8, <1>11

\* All the fragments in their order are the packet.
LEMMA Joined ==
    ASSUME NEW c, NEW len \in Nat, NEW count \in Nat \ {0},
           NEW seqs, seqs = [n \in 1 .. count |-> Piece(c, len, count, n - 1)]
    PROVE  FlattenSeq(seqs) = Bytes(c, len)
<1>. DEFINE Cat(q, r) == q \o r
            flatten[i \in 1 .. Len(seqs)] == IF i = 1 THEN seqs[i] ELSE Cat(flatten[i - 1], seqs[i])
            Before(i) == Bytes(c, Offset(len, count, i))
<1>1. Len(seqs) = count
  OBVIOUS
<1>2. ASSUME NEW i \in 1 .. count
      PROVE  /\ seqs[i] = Piece(c, len, count, i - 1)
             /\ i = 1 => Before(i) = seqs[i]
             /\ i # 1 => i - 1 \in 1 .. count /\ Before(i) = Cat(Before(i - 1), seqs[i])
  <2>1. seqs[i] = Piece(c, len, count, i - 1) /\ i - 1 \in 0 .. count - 1 /\ i - 1 + 1 = i
    OBVIOUS
  <2>2. ASSUME i = 1 PROVE Before(i) = seqs[i]
    <3>1. Offset(len, count, i) = 0 + FragmentLen(len, count, i - 1) /\ Offset(len, count, i - 1) = 0
          /\ FragmentLen(len, count, i - 1) \in Nat
      BY <2>1, <2>2, Offsets
    <3>2. \A k \in 1 .. FragmentLen(len, count, i - 1) : 0 + k = k
      BY <3>1
    <3>. QED  BY <2>1, <3>1, <3>2 DEF Bytes, Piece
  <2>3. Before(i) = Cat(Before(i - 1), seqs[i])
    <3>1. PICK no \in 0 .. count - 1 : no = i - 1 /\ no + 1 = i
      BY <2>1
    <3>2. Bytes(c, Offset(len, count, no)) \o Piece(c, len, count, no) = Bytes(c, Offset(len, count, no + 1))
      BY JoinStep
    <3>. QED  BY <2>1, <3>1, <3>2
  <2>4. i # 1 => i - 1 \in 1 .. count
    OBVIOUS
  <2>. QED  BY <2>1, <2>2, <2>3, <2>4
<1>3. FlattenSeq(seqs) = flatten[count]
  BY <1>1 DEF FlattenSeq
<1>. HIDE DEF Before, Cat
<1>4. \E f : f = [i \in 1 .. Len(seqs) |-> IF i = 1 THEN seqs[i] ELSE Cat(f[i - 1], seqs[i])]
  <2>1. PICK g : g = [i \in 1 .. count |-> Before(i)]
    OBVIOUS
  <2>2. \A i \in 1 .. count : g[i] = IF i = 1 THEN seqs[i] ELSE Cat(g[i - 1], seqs[i])
    BY <1>2, <2>1
  <2>3. g = [i \in 1 .. Len(seqs) |-> IF i = 1 THEN seqs[i] ELSE Cat(g[i - 1], seqs[i])]
    BY <1>1, <2>1, <2>2
  <2>. QED  BY <2>3
<1>5. flatten = [i \in 1 .. Len(seqs) |-> IF i = 1 THEN seqs[i] ELSE Cat(flatten[i - 1], seqs[i])]
  BY <1>4
<1>. HIDE DEF flatten
<1>6. \A i \in 1 .. count : flatten[i] = IF i = 1 THEN seqs[i] ELSE Cat(flatten[i - 1], seqs[i])
  BY <1>1, <1>5
<1>7. \A i \in 1 .. count : flatten[i] = Before(i)
  <2>. DEFINE T == {i \in 1 .. count : flatten[i] # Before(i)}
  <2>. SUFFICES ASSUME T # {} PROVE FALSE
    OBVIOUS
  <2>1. PICK x \in T : \A y \in T : x <= y
    <3>1. T \subseteq Nat
      OBVIOUS
    <3>. HIDE DEF T
    <3>. QED  BY <3>1, LeastNatural
  <2>2. x \in 1 .. count /\ flatten[x] # Before(x)
    OBVIOUS
  <2>3. x # 1
    BY <1>2, <1>6, <2>2
  <2>4. x - 1 \in 1 .. count /\ ~(x <= x - 1)
    BY <2>2, <2>3
  <2>5. flatten[x - 1] = Before(x - 1)
    BY <2>1, <2>4
  <2>6. flatten[x] = Cat(flatten[x - 1], seqs[x]) /\ Before(x) = Cat(Before(x - 1), seqs[x])
    BY <1>2, <1>6, <2>2, <2>3
  <2>. QED  BY <2>2, <2>5, <2>6
<1>8. flatten[count] = Before(count)
  BY <1>7
<1>. QED  BY <1>3, <1>8, Offsets DEF Before

-----------------------------------------------------------------------------
(* The inductive invariant *)

PacketRecords == [len : TAG_SIZE .. MaxLen, mtu : MIN_MTU .. MaxMtu]

\* The number of fragments of packet c.
CountOf(pkts, c) == FragmentCount(pkts[c].len, pkts[c].mtu)

\* f is a fragment of one of the packets sent.
IsSent(f, pkts) ==
    /\ f.c \in 1 .. Len(pkts)
    /\ \E no \in 0 .. CountOf(pkts, f.c) - 1 : f = Fragment(f.c, pkts[f.c].len, CountOf(pkts, f.c), no)

\* Buffer d is initialised where its bits say so.
Owned(d) == \A n \in 0 .. MAX_FRAGMENTS - 1 : (d.frags[n] # <<>>) = (n \in d.have)

\* Buffer d has fragments of the packet it is named after, each in its place.
Collected(d, pkts) ==
    /\ d = [nonce |-> d.nonce, count |-> d.count, have |-> d.have, frags |-> d.frags]
    /\ d.frags = [n \in 0 .. MAX_FRAGMENTS - 1 |-> d.frags[n]]
    /\ d.count \in 0 .. MAX_FRAGMENTS /\ d.have \subseteq 0 .. d.count - 1
    /\ Owned(d)
    /\ d.nonce # 0 =>
        /\ d.nonce \in 1 .. Len(pkts) /\ d.count = CountOf(pkts, d.nonce)
        /\ \A n \in d.have : d.frags[n] = Piece(d.nonce, pkts[d.nonce].len, d.count, n)

FraggedInv ==
    /\ packets \in Seq(PacketRecords)
    /\ \A f \in net : IsSent(f, packets)
    /\ defrag = [slot \in 0 .. DefragSize - 1 |-> defrag[slot]]
    /\ \A slot \in 0 .. DefragSize - 1 : Collected(defrag[slot], packets)
    /\ reassembled # <<>> => /\ reassembled.c \in 1 .. Len(packets)
                             /\ reassembled.bytes = Bytes(reassembled.c, packets[reassembled.c].len)

\* At first nothing was sent and the buffers are empty.
LEMMA FraggedInitInv == FraggedInit => FraggedInv
<1>. SUFFICES ASSUME FraggedInit PROVE FraggedInv
  OBVIOUS
<1>1. packets \in Seq(PacketRecords)
  BY DEF FraggedInit
<1>2. ASSUME NEW d, d = NewFragged PROVE Collected(d, packets)
  BY <1>2, FraggedAssumption DEF NewFragged, Collected, Owned
<1>3. \A slot \in 0 .. DefragSize - 1 : Collected(defrag[slot], packets)
  BY <1>2 DEF FraggedInit
<1>. QED  BY <1>1, <1>3 DEF FraggedInit, FraggedInv

\* What a packet that was sent is like.
LEMMA SentFacts ==
    ASSUME NEW pkts \in Seq(PacketRecords), NEW c \in 1 .. Len(pkts), NEW count, count = CountOf(pkts, c)
    PROVE  /\ pkts[c].len \in Nat \ {0} /\ pkts[c].mtu \in Nat \ {0} /\ count \in Nat \ {0}
           /\ \A no \in 0 .. count - 1 :
                /\ TAG_SIZE <= FragmentLen(pkts[c].len, count, no)
                /\ FragmentLen(pkts[c].len, count, no) <= pkts[c].mtu
                /\ FragmentLen(pkts[c].len, count, no) \in Nat
<1>1. pkts[c] \in PacketRecords
  OBVIOUS
<1>2. PICK len, mtu : len = pkts[c].len /\ mtu = pkts[c].mtu
  OBVIOUS
<1>3. len \in TAG_SIZE .. MaxLen /\ mtu \in MIN_MTU .. MaxMtu
  BY <1>1, <1>2 DEF PacketRecords
<1>4. len \in Nat \ {0} /\ mtu \in Nat \ {0} /\ TAG_SIZE <= len /\ 2 * TAG_SIZE <= mtu
  BY <1>3, FraggedAssumption
<1>5. count = FragmentCount(len, mtu)
  BY <1>2 DEF CountOf
<1>6. count \in Nat \ {0}
  BY <1>4, <1>5, Counts
<1>7. \A no \in 0 .. count - 1 : TAG_SIZE <= FragmentLen(len, count, no) /\ FragmentLen(len, count, no) <= mtu
  BY <1>4, <1>5, FragmentLens
<1>8. \A no \in 0 .. count - 1 : FragmentLen(len, count, no) \in Nat
  BY <1>4, <1>6, Offsets
<1>. QED  BY <1>2, <1>4, <1>6, <1>7, <1>8

\* A fragment has at least one byte.
LEMMA PieceNotEmpty ==
    ASSUME NEW pkts \in Seq(PacketRecords), NEW c \in 1 .. Len(pkts), NEW count, count = CountOf(pkts, c),
           NEW no \in 0 .. count - 1
    PROVE  Piece(c, pkts[c].len, count, no) # <<>>
<1>1. PICK n : n = FragmentLen(pkts[c].len, count, no)
  OBVIOUS
<1>2. n \in Nat /\ TAG_SIZE <= n
  BY <1>1, SentFacts
<1>3. 1 \in DOMAIN Piece(c, pkts[c].len, count, no)
  BY <1>1, <1>2, FraggedAssumption DEF Piece
<1>. QED  BY <1>3

\* One packet more, as number c, leaves the others what they are.
SentToo(more, pkts, c, r) ==
    /\ more \in Seq(PacketRecords)
    /\ c \in 1 .. Len(more) /\ more[c] = r
    /\ \A k \in 1 .. Len(pkts) : k \in 1 .. Len(more) /\ more[k] = pkts[k]
    /\ \A f : IsSent(f, pkts) => IsSent(f, more)
    /\ \A d : Collected(d, pkts) => Collected(d, more)

\* Recording one more sent packet is such a step.
LEMMA SentStays ==
    ASSUME NEW pkts \in Seq(PacketRecords), NEW r \in PacketRecords
    PROVE  SentToo(Append(pkts, r), pkts, Len(pkts) + 1, r)
<1>0. PICK more : more = Append(pkts, r)
  OBVIOUS
<1>1. /\ more \in Seq(PacketRecords)
      /\ Len(pkts) + 1 \in 1 .. Len(more) /\ more[Len(pkts) + 1] = r
      /\ \A c \in 1 .. Len(pkts) : c \in 1 .. Len(more) /\ more[c] = pkts[c]
  BY <1>0
<1>2. \A c \in 1 .. Len(pkts) : CountOf(more, c) = CountOf(pkts, c)
  BY <1>1 DEF CountOf
<1>3. ASSUME NEW f, IsSent(f, pkts) PROVE IsSent(f, more)
  BY <1>1, <1>2, <1>3 DEF IsSent
<1>4. ASSUME NEW d, Collected(d, pkts) PROVE Collected(d, more)
  BY <1>1, <1>2, <1>4 DEF Collected
<1>. QED  BY <1>0, <1>1, <1>3, <1>4 DEF SentToo

\* Both senders.
LEMMA SendsInv ==
    ASSUME FraggedInv, NEW len \in TAG_SIZE .. MaxLen, NEW mtu \in MIN_MTU .. MaxMtu,
           SendControl(len, mtu) \/ SendData(len, mtu)
    PROVE  FraggedInv'
<1>1. PICK c : c = Len(packets) + 1
  OBVIOUS
<1>2. PICK r : r = [len |-> len, mtu |-> mtu]
  OBVIOUS
<1>3. PICK more : more = Append(packets, r)
  OBVIOUS
<1>4. packets' = more /\ UNCHANGED <<defrag, reassembled>>
  BY <1>2, <1>3 DEF SendControl, SendData
<1>5. \A f \in net' : \/ f \in net
                       \/ f \in ControlFragments(c, Bytes(c, len), mtu)
                       \/ f \in DataFragments(c, Bytes(c, len), mtu)
  BY <1>1 DEF SendControl, SendData, Bytes
<1>6. packets \in Seq(PacketRecords) /\ r \in PacketRecords
  BY <1>2 DEF FraggedInv, PacketRecords
<1>7. /\ more \in Seq(PacketRecords)
      /\ c \in 1 .. Len(more) /\ more[c] = r
      /\ \A k \in 1 .. Len(packets) : k \in 1 .. Len(more) /\ more[k] = packets[k]
      /\ \A f : IsSent(f, packets) => IsSent(f, more)
      /\ \A d : Collected(d, packets) => Collected(d, more)
  <2>1. SentToo(more, packets, c, r)
    BY <1>1, <1>3, <1>6, SentStays
  <2>. QED  BY <2>1 DEF SentToo
<1>8. /\ len \in Nat \ {0} /\ mtu \in Nat \ {0} /\ TAG_SIZE <= len /\ 2 * TAG_SIZE <= mtu
  BY FraggedAssumption
<1>9. PICK count : count = FragmentCount(len, mtu)
  OBVIOUS
<1>10. more[c].len = len /\ CountOf(more, c) = count
  BY <1>2, <1>7, <1>9 DEF CountOf
<1>11. ASSUME NEW f, \E no \in 0 .. count - 1 : f = Fragment(c, len, count, no) PROVE IsSent(f, more)
  <2>1. f.c = c
    BY <1>11 DEF Fragment
  <2>. QED  BY <1>7, <1>10, <1>11, <2>1 DEF IsSent
<1>12. \A f \in net' : IsSent(f, more)
  <2>1. ASSUME NEW f \in ControlFragments(c, Bytes(c, len), mtu) PROVE IsSent(f, more)
    BY <1>8, <1>9, <1>11, ControlCuts
  <2>2. ASSUME NEW f \in DataFragments(c, Bytes(c, len), mtu) PROVE IsSent(f, more)
    BY <1>8, <1>9, <1>11, DataCuts
  <2>. QED  BY <1>5, <1>7, <2>1, <2>2 DEF FraggedInv
<1>. QED  BY <1>4, <1>7, <1>12 DEF FraggedInv

\* What is received was sent, and comes out as the bytes of the packet.
LEMMA Opened ==
    ASSUME NEW pkts \in Seq(PacketRecords), NEW f, IsSent(f, pkts)
    PROVE  /\ f.c \in 1 .. Len(pkts) /\ f.count = CountOf(pkts, f.c) /\ f.no \in 0 .. f.count - 1
           /\ Masked(f.bytes) = Piece(f.c, pkts[f.c].len, f.count, f.no)
<1>1. PICK c, len, count : c = f.c /\ len = pkts[c].len /\ count = CountOf(pkts, c)
  OBVIOUS
<1>2. PICK no \in 0 .. count - 1 : c \in 1 .. Len(pkts) /\ f = Fragment(c, len, count, no)
  BY <1>1 DEF IsSent
<1>3. f.no = no /\ f.count = count /\ f.bytes = Masked(Piece(c, len, count, no))
  BY <1>2 DEF Fragment
<1>4. Masked(Masked(Piece(c, len, count, no))) = Piece(c, len, count, no)
  BY Unmasked
<1>. QED  BY <1>1, <1>2, <1>3, <1>4

\* The buffer as it is when fragment f is put into it.
Prepared(d, f) ==
    IF f.c # d.nonce THEN [DropInPlace(d) EXCEPT !.count = f.count, !.nonce = f.c] ELSE d

\* A buffer that gives way is empty, one that does not is for the packet of f.
LEMMA PreparedFacts ==
    ASSUME NEW pkts \in Seq(PacketRecords), NEW d0, Collected(d0, pkts),
           NEW f, IsSent(f, pkts), ParseFragmentHeader(f), NEW d, d = Prepared(d0, f)
    PROVE  Collected(d, pkts) /\ d.nonce = f.c /\ d.count = f.count
<1>1. f.c \in 1 .. Len(pkts) /\ f.count = CountOf(pkts, f.c) /\ f.no \in 0 .. f.count - 1
  BY Opened
<1>2. f.count \in Nat \ {0} /\ f.c # 0
  BY <1>1, SentFacts
<1>3. CASE f.c = d0.nonce
  BY <1>1, <1>2, <1>3 DEF Prepared, Collected
<1>4. CASE f.c # d0.nonce
  <2>1. PICK fr : fr = [n \in 0 .. MAX_FRAGMENTS - 1 |-> IF n \in d0.have THEN <<>> ELSE d0.frags[n]]
    OBVIOUS
  <2>2. d = [nonce |-> f.c, count |-> f.count, have |-> {}, frags |-> fr]
    BY <1>4, <2>1 DEF Prepared, DropInPlace
  <2>3. d.nonce = f.c /\ d.count = f.count /\ d.have = {} /\ d.frags = fr
    BY <2>2
  <2>4. \A n \in 0 .. MAX_FRAGMENTS - 1 : fr[n] = <<>>
    BY <2>1 DEF Collected, Owned
  <2>5. Owned(d)
    BY <2>3, <2>4 DEF Owned
  <2>6. f.count \in 0 .. MAX_FRAGMENTS
    BY <1>2, FraggedAssumption DEF ParseFragmentHeader
  <2>7. fr = [n \in 0 .. MAX_FRAGMENTS - 1 |-> fr[n]]
    BY <2>1
  <2>. QED  BY <1>1, <2>2, <2>3, <2>5, <2>6, <2>7 DEF Collected
<1>. QED  BY <1>3, <1>4

\* assemble puts the fragment in its place or ignores a copy.
LEMMA AssembledFacts ==
    ASSUME NEW pkts \in Seq(PacketRecords), NEW d0, Collected(d0, pkts),
           NEW f, IsSent(f, pkts), ParseFragmentHeader(f),
           NEW d, d = AssembleInto(d0, f, Masked(f.bytes))
    PROVE  Collected(d, pkts) /\ d.nonce = f.c /\ d.count = f.count
<1>1. PICK e : e = Prepared(d0, f)
  OBVIOUS
<1>2. Collected(e, pkts) /\ e.nonce = f.c /\ e.count = f.count
  BY <1>1, PreparedFacts
<1>3. PICK bytes : bytes = Masked(f.bytes)
  OBVIOUS
<1>4. d = [e EXCEPT !.have = IF IsNew(e, f) THEN @ \cup {f.no} ELSE @,
                    !.frags[f.no] = IF IsNew(e, f) THEN bytes ELSE @]
  BY <1>1, <1>3 DEF AssembleInto, Prepared
<1>5. /\ f.c \in 1 .. Len(pkts) /\ f.count = CountOf(pkts, f.c) /\ f.no \in 0 .. f.count - 1
      /\ bytes = Piece(f.c, pkts[f.c].len, f.count, f.no)
  BY <1>3, Opened
<1>6. f.count \in Nat \ {0} /\ f.count \in 0 .. MAX_FRAGMENTS /\ f.no \in 0 .. MAX_FRAGMENTS - 1 /\ f.c # 0
  <2>1. f.count \in Nat \ {0}
    BY <1>5, SentFacts
  <2>2. f.count \in 0 .. MAX_FRAGMENTS
    BY <1>2 DEF Collected
  <2>3. f.no \in 0 .. MAX_FRAGMENTS - 1 /\ f.c # 0
    BY <1>5, <2>1, <2>2, FraggedAssumption
  <2>. QED  BY <2>1, <2>2, <2>3
<1>7. /\ e = [nonce |-> e.nonce, count |-> e.count, have |-> e.have, frags |-> e.frags]
      /\ e.frags = [n \in 0 .. MAX_FRAGMENTS - 1 |-> e.frags[n]]
  BY <1>2 DEF Collected
<1>8. CASE IsNew(e, f)
  <2>1. PICK fr : fr = [e.frags EXCEPT ![f.no] = bytes]
    OBVIOUS
  <2>2. d = [nonce |-> e.nonce, count |-> e.count, have |-> e.have \cup {f.no}, frags |-> fr]
    BY <1>4, <1>7, <1>8, <2>1
  <2>3. d.nonce = f.c /\ d.count = f.count /\ d.have = e.have \cup {f.no} /\ d.frags = fr
    BY <1>2, <2>2
  <2>4. /\ fr = [n \in 0 .. MAX_FRAGMENTS - 1 |-> fr[n]]
        /\ fr[f.no] = bytes /\ \A n \in 0 .. MAX_FRAGMENTS - 1 : n # f.no => fr[n] = e.frags[n]
    BY <1>6, <1>7, <2>1
  <2>5. bytes # <<>>
    BY <1>5, PieceNotEmpty
  <2>6. Owned(d)
    BY <1>2, <2>3, <2>4, <2>5 DEF Collected, Owned
  <2>7. \A n \in d.have : d.frags[n] = Piece(d.nonce, pkts[d.nonce].len, d.count, n)
    <3>1. \A n \in e.have : n \in 0 .. MAX_FRAGMENTS - 1 /\ e.frags[n] = Piece(f.c, pkts[f.c].len, f.count, n)
      <4>1. \A n \in e.have : e.frags[n] = Piece(f.c, pkts[f.c].len, f.count, n)
        BY <1>2, <1>6 DEF Collected
      <4>2. e.have \subseteq 0 .. f.count - 1
        BY <1>2 DEF Collected
      <4>3. \A n \in 0 .. f.count - 1 : n \in 0 .. MAX_FRAGMENTS - 1
        BY <1>6, FraggedAssumption
      <4>. QED  BY <4>1, <4>2, <4>3
    <3>. QED  BY <1>5, <2>3, <2>4, <3>1
  <2>8. d.have \subseteq 0 .. d.count - 1
    BY <1>2, <1>5, <2>3 DEF Collected
  <2>. QED  BY <1>5, <1>6, <2>2, <2>3, <2>4, <2>6, <2>7, <2>8 DEF Collected
<1>9. CASE ~IsNew(e, f)
  <2>1. d = e
    BY <1>4, <1>6, <1>7, <1>9
  <2>. QED  BY <1>2, <2>1
<1>. QED  BY <1>8, <1>9

\* A buffer that has all fragments has the packet.
LEMMA Complete ==
    ASSUME NEW pkts \in Seq(PacketRecords), NEW d, Collected(d, pkts), d.nonce # 0, d.have = 0 .. d.count - 1
    PROVE  FlattenSeq([n \in 1 .. d.count |-> d.frags[n - 1]]) = Bytes(d.nonce, pkts[d.nonce].len)
<1>1. PICK c, len, count : c = d.nonce /\ len = pkts[c].len /\ count = d.count
  OBVIOUS
<1>2. c \in 1 .. Len(pkts) /\ count = CountOf(pkts, c)
  BY <1>1 DEF Collected
<1>3. len \in Nat \ {0} /\ count \in Nat \ {0}
  BY <1>1, <1>2, SentFacts
<1>4. \A n \in 1 .. count : d.frags[n - 1] = Piece(c, len, count, n - 1)
  <2>1. \A n \in 1 .. count : n - 1 \in 0 .. count - 1
    BY <1>3
  <2>. QED  BY <1>1, <2>1 DEF Collected
<1>5. PICK seqs : seqs = [n \in 1 .. count |-> d.frags[n - 1]]
  OBVIOUS
<1>6. seqs = [n \in 1 .. count |-> Piece(c, len, count, n - 1)]
  BY <1>4, <1>5
<1>7. FlattenSeq(seqs) = Bytes(c, len)
  BY <1>3, <1>6, Joined
<1>. QED  BY <1>1, <1>5, <1>7

\* A buffer that has been handed out holds nothing.
LEMMA HandedOut ==
    ASSUME NEW pkts, NEW d, Collected(d, pkts), d.have = 0 .. d.count - 1,
           NEW e, e = [nonce |-> 0, count |-> 0, have |-> {},
                       frags |-> [n \in DOMAIN d.frags |-> IF n < d.count THEN <<>> ELSE d.frags[n]]]
    PROVE  Collected(e, pkts)
<1>1. PICK fr : fr = [n \in 0 .. MAX_FRAGMENTS - 1 |-> IF n < d.count THEN <<>> ELSE d.frags[n]]
  OBVIOUS
<1>2. d.frags = [n \in 0 .. MAX_FRAGMENTS - 1 |-> d.frags[n]]
  BY DEF Collected
<1>3. DOMAIN d.frags = 0 .. MAX_FRAGMENTS - 1
  BY <1>2
<1>4. e = [nonce |-> 0, count |-> 0, have |-> {}, frags |-> fr]
  BY <1>1, <1>3
<1>5. e.nonce = 0 /\ e.count = 0 /\ e.have = {} /\ e.frags = fr
  BY <1>4
<1>6. \A n \in 0 .. MAX_FRAGMENTS - 1 : fr[n] = <<>>
  <2>1. ASSUME NEW n \in 0 .. MAX_FRAGMENTS - 1, ~(n < d.count) PROVE d.frags[n] = <<>>
    <3>1. d.count \in 0 .. MAX_FRAGMENTS
      BY DEF Collected
    <3>2. n \notin d.have
      BY <2>1, <3>1
    <3>. QED  BY <3>2 DEF Collected, Owned
  <2>. QED  BY <1>1, <2>1
<1>7. Owned(e)
  BY <1>5, <1>6 DEF Owned
<1>8. fr = [n \in 0 .. MAX_FRAGMENTS - 1 |-> fr[n]]
  BY <1>1
<1>9. 0 \in 0 .. MAX_FRAGMENTS
  BY FraggedAssumption
<1>. QED  BY <1>4, <1>5, <1>7, <1>8, <1>9 DEF Collected

\* A fragment is received.
LEMMA ReceiveInv ==
    ASSUME FraggedInv, NEW f \in net, Receive(f)
    PROVE  FraggedInv'
<1>1. PICK slot, bytes : slot = f.c % DefragSize /\ bytes = Masked(f.bytes)
  OBVIOUS
<1>2. PICK d : d = AssembleInto(defrag[slot], f, bytes)
  OBVIOUS
<1>3. PICK e : e = [nonce |-> 0, count |-> 0, have |-> {},
                    frags |-> [n \in DOMAIN d.frags |-> IF n < d.count THEN <<>> ELSE d.frags[n]]]
  OBVIOUS
<1>4. /\ ParseFragmentHeader(f) /\ UNCHANGED <<packets, net>>
      /\ \/ f.count = 1 /\ reassembled' = [c |-> f.c, bytes |-> bytes] /\ defrag' = defrag
         \/ /\ d.have = 0 .. d.count - 1
            /\ reassembled' = [c |-> f.c, bytes |-> FlattenSeq([n \in 1 .. d.count |-> d.frags[n - 1]])]
            /\ defrag' = [defrag EXCEPT ![slot] = e]
         \/ reassembled' = <<>> /\ defrag' = [defrag EXCEPT ![slot] = d]
  BY <1>1, <1>2, <1>3 DEF Receive
<1>5. IsSent(f, packets) /\ packets \in Seq(PacketRecords)
  BY DEF FraggedInv
<1>6. /\ f.c \in 1 .. Len(packets) /\ f.count = CountOf(packets, f.c) /\ f.no \in 0 .. f.count - 1
      /\ bytes = Piece(f.c, packets[f.c].len, f.count, f.no)
  BY <1>1, <1>5, Opened
<1>7. slot \in 0 .. DefragSize - 1
  <2>1. f.c \in Nat
    BY <1>5, <1>6
  <2>2. DefragSize \in Nat \ {0}
    BY FraggedAssumption
  <2>3. f.c % DefragSize \in 0 .. DefragSize - 1
    BY <2>1, <2>2
  <2>. QED  BY <1>1, <2>3
<1>8. Collected(d, packets) /\ d.nonce = f.c /\ d.count = f.count
  <2>1. Collected(defrag[slot], packets)
    BY <1>7 DEF FraggedInv
  <2>. QED  BY <1>1, <1>2, <1>4, <1>5, <2>1, AssembledFacts
<1>9. d.have = 0 .. d.count - 1 => Collected(e, packets)
  BY <1>3, <1>8, HandedOut
<1>10. /\ defrag' = [s \in 0 .. DefragSize - 1 |-> defrag'[s]]
       /\ \A s \in 0 .. DefragSize - 1 : Collected(defrag'[s], packets)
  <2>1. defrag = [s \in 0 .. DefragSize - 1 |-> defrag[s]] /\ \A s \in 0 .. DefragSize - 1 : Collected(defrag[s], packets)
    BY DEF FraggedInv
  <2>2. ASSUME NEW x, Collected(x, packets), defrag' = [defrag EXCEPT ![slot] = x]
        PROVE  /\ defrag' = [s \in 0 .. DefragSize - 1 |-> defrag'[s]]
               /\ \A s \in 0 .. DefragSize - 1 : Collected(defrag'[s], packets)
    BY <1>7, <2>1, <2>2
  <2>. QED  BY <1>4, <1>8, <1>9, <2>1, <2>2
<1>11. reassembled' # <<>> => /\ reassembled'.c \in 1 .. Len(packets)
                             /\ reassembled'.bytes = Bytes(reassembled'.c, packets[reassembled'.c].len)
  <2>1. ASSUME f.count = 1, reassembled' = [c |-> f.c, bytes |-> bytes]
        PROVE  bytes = Bytes(f.c, packets[f.c].len)
    <3>1. PICK len : len = packets[f.c].len /\ len \in Nat
      BY <1>5, <1>6, SentFacts
    <3>2. PICK one \in Nat \ {0} : one = 1
      OBVIOUS
    <3>3. /\ Offset(len, one, 0) = 0 /\ Offset(len, one, one) = len
          /\ Offset(len, one, 0 + 1) = Offset(len, one, 0) + FragmentLen(len, one, 0)
          /\ FragmentLen(len, one, 0) \in Nat
      BY <3>1, <3>2, Offsets
    <3>4. FragmentLen(len, one, 0) = len
      BY <3>1, <3>2, <3>3
    <3>5. bytes = Piece(f.c, len, one, 0)
      BY <1>6, <2>1, <3>1, <3>2
    <3>6. \A k \in 1 .. len : 0 + k = k
      BY <3>1
    <3>. QED  BY <3>1, <3>3, <3>4, <3>5, <3>6 DEF Piece, Bytes
  <2>2. ASSUME d.have = 0 .. d.count - 1
        PROVE  FlattenSeq([n \in 1 .. d.count |-> d.frags[n - 1]]) = Bytes(f.c, packets[f.c].len)
    <3>1. d.nonce # 0
      BY <1>6, <1>8
    <3>. QED  BY <1>5, <1>8, <2>2, <3>1, Complete
  <2>3. PICK whole : whole = FlattenSeq([n \in 1 .. d.count |-> d.frags[n - 1]])
    OBVIOUS
  <2>. QED  BY <1>4, <1>6, <2>1, <2>2, <2>3
<1>. QED  BY <1>4, <1>10, <1>11 DEF FraggedInv

\* The invariant holds throughout.
LEMMA FraggedInvariance == FraggedSpec => []FraggedInv
<1>1. FraggedInv /\ [FraggedNext]_fraggedVars => FraggedInv'
  <2>. SUFFICES ASSUME FraggedInv, [FraggedNext]_fraggedVars PROVE FraggedInv'
    OBVIOUS
  <2>1. CASE UNCHANGED fraggedVars
    BY <2>1 DEF fraggedVars, FraggedInv
  <2>. QED  BY <2>1, SendsInv, ReceiveInv DEF FraggedNext
<1>. QED  BY <1>1, FraggedInitInv, PTL DEF FraggedSpec

\* DeliveredAsSent: for every length, MTU and number of buffers, and whatever fragments are lost,
\* repeated and mixed with those of other packets, what assemble hands out is a packet as it was
\* given to send_with_fragmentation or send_payload, byte for byte.
THEOREM DeliveredAsSentHolds == FraggedSpec => []DeliveredAsSent
<1>1. FraggedInv => DeliveredAsSent
  BY DEF FraggedInv, DeliveredAsSent, PacketOf, Bytes
<1>. QED  BY <1>1, FraggedInvariance, PTL

\* FragmentsFit: every fragment of either sender is within the MTU, long enough for receive, and has
\* all the bytes that the header cipher takes, because a packet is cut evenly and an MTU has room for two tags.
THEOREM FragmentsFitHolds == FraggedSpec => []FragmentsFit
<1>1. ASSUME FraggedInv, NEW f \in net
      PROVE  /\ AUTH_SIZE <= Len(f.bytes) /\ TAG_SIZE <= Len(f.bytes)
             /\ Len(f.bytes) <= packets[f.c].mtu
  <2>1. PICK c, len, count : c = f.c /\ len = packets[c].len /\ count = CountOf(packets, c)
    OBVIOUS
  <2>2. PICK no \in 0 .. count - 1 : c \in 1 .. Len(packets) /\ f = Fragment(c, len, count, no)
    BY <1>1, <2>1 DEF FraggedInv, IsSent
  <2>3. PICK n : n = FragmentLen(len, count, no)
    OBVIOUS
  <2>4. n \in Nat /\ TAG_SIZE <= n /\ n <= packets[c].mtu /\ packets[c].mtu \in Nat
    BY <1>1, <2>1, <2>2, <2>3, SentFacts DEF FraggedInv
  <2>5. Len(f.bytes) = n
    <3>1. f.bytes = Masked(Piece(c, len, count, no))
      BY <2>2 DEF Fragment
    <3>2. DOMAIN Piece(c, len, count, no) = 1 .. n
      BY <2>3 DEF Piece
    <3>3. PICK p : p = Piece(c, len, count, no)
      OBVIOUS
    <3>4. Len(Masked(p)) = n
      BY <2>4, <3>2, <3>3 DEF Masked
    <3>. QED  BY <3>1, <3>3, <3>4
  <2>. QED  BY <2>1, <2>4, <2>5, FraggedAssumption
<1>2. FraggedInv => FragmentsFit
  BY <1>1 DEF FragmentsFit
<1>. QED  BY <1>2, FraggedInvariance, PTL

\* BuffersOwned: a slot of a buffer is initialised exactly where the bits of the buffer say so, so
\* that drop_in_place and assemble neither read what was never written nor drop anything twice.
THEOREM BuffersOwnedHolds == FraggedSpec => []BuffersOwned
<1>1. FraggedInv => BuffersOwned
  BY DEF FraggedInv, BuffersOwned, Collected, Owned
<1>. QED  BY <1>1, FraggedInvariance, PTL

-----------------------------------------------------------------------------
(***************************************************************************)
(* Fragments without a session: the ring and the table of the cache.       *)
(***************************************************************************)

\* Min of a set of natural numbers.
LEMMA MinIsLeast ==
    ASSUME NEW T, T \subseteq Nat, T # {}
    PROVE  Min(T) \in T /\ \A y \in T : Min(T) <= y
<1>1. \E x \in T : \A y \in T : x <= y
  BY LeastNatural
<1>. QED  BY <1>1 DEF Min

-----------------------------------------------------------------------------
(* The ring *)

\* The number of slots from s on the way round the ring to t.
Distance(s, t) == IF t >= s THEN t - s ELSE t + RingSize - s

\* Sizes are natural numbers, and the ring is not empty.
LEMMA Sizes ==
    /\ MapSize \in Nat /\ RingSize \in Nat /\ MaxFragments \in Nat /\ ResendTime \in Nat /\ AssemblyTimeout \in Nat
    /\ 0 < RingSize /\ MaxFragments < RingSize
  BY FragCacheAssumption

\* A sum of less than two rounds wraps at most once.
LEMMA Wraps ==
    ASSUME NEW a \in Nat, a < RingSize + RingSize
    PROVE  a % RingSize = IF a < RingSize THEN a ELSE a - RingSize
<1>1. PICK q, r : q = a \div RingSize /\ r = a % RingSize
  OBVIOUS
<1>2. RingSize \in Nat /\ 0 < RingSize
  BY Sizes
<1>3. q \in Nat /\ r \in Nat /\ r < RingSize /\ a = RingSize * q + r
  BY <1>1, <1>2
<1>4. CASE q = 0
  BY <1>1, <1>2, <1>3, <1>4
<1>5. CASE q = 1
  BY <1>1, <1>2, <1>3, <1>5
<1>6. q <= 1
  <2>. SUFFICES ASSUME 2 <= q PROVE FALSE
    BY <1>3
  <2>1. RingSize * 2 <= RingSize * q
    BY <1>2, <1>3
  <2>. QED  BY <1>2, <1>3, <2>1
<1>. QED  BY <1>3, <1>4, <1>5, <1>6

\* After without the remainder.
LEMMA AfterIs ==
    ASSUME NEW s \in Slots, NEW n \in 0 .. RingSize
    PROVE  /\ After(s, n) = IF s + n < RingSize THEN s + n ELSE s + n - RingSize
           /\ After(s, n) \in Slots
  BY Wraps, Sizes DEF After, Slots

\* Distance and After are inverse to each other.
LEMMA Distances ==
    ASSUME NEW s \in Slots
    PROVE  /\ \A t \in Slots : Distance(s, t) \in Slots /\ After(s, Distance(s, t)) = t
           /\ \A n \in Slots : Distance(s, After(s, n)) = n
           /\ \A t, u \in Slots : Distance(s, t) = Distance(s, u) => t = u
<1>1. \A t \in Slots : Distance(s, t) \in Slots /\ Distance(s, t) \in 0 .. RingSize
  BY Sizes DEF Slots, Distance
<1>2. ASSUME NEW t \in Slots PROVE After(s, Distance(s, t)) = t
  <2>1. PICK n \in 0 .. RingSize : n = Distance(s, t)
    BY <1>1
  <2>2. After(s, n) = IF s + n < RingSize THEN s + n ELSE s + n - RingSize
    BY AfterIs
  <2>. QED  BY <2>1, <2>2, Sizes DEF Slots, Distance
<1>3. ASSUME NEW n \in Slots PROVE Distance(s, After(s, n)) = n
  <2>1. n \in 0 .. RingSize
    BY Sizes DEF Slots
  <2>2. After(s, n) = IF s + n < RingSize THEN s + n ELSE s + n - RingSize
    BY <2>1, AfterIs
  <2>. QED  BY <2>2, Sizes DEF Slots, Distance
<1>4. ASSUME NEW t \in Slots, NEW u \in Slots, Distance(s, t) = Distance(s, u) PROVE t = u
  BY <1>2, <1>4
<1>. QED  BY <1>1, <1>2, <1>3, <1>4

\* Going on from t is going further from s.
LEMMA Further ==
    ASSUME NEW s \in Slots, NEW t \in Slots, NEW n \in Nat, Distance(s, t) + n < RingSize
    PROVE  After(t, n) \in Slots /\ Distance(s, After(t, n)) = Distance(s, t) + n
<1>1. Distance(s, t) \in Slots
  BY Distances
<1>2. n \in 0 .. RingSize
  BY <1>1, Sizes DEF Slots
<1>3. After(t, n) \in Slots /\ After(t, n) = IF t + n < RingSize THEN t + n ELSE t + n - RingSize
  BY <1>2, AfterIs
<1>. QED  BY <1>3, Sizes DEF Slots, Distance

\* The slots of an entry that begins d slots from s.
LEMMA Members ==
    ASSUME NEW s \in Slots, NEW e, e.frags_idx \in Slots, e.fragment_count \in Nat,
           NEW d, d = Distance(s, e.frags_idx), d + e.fragment_count <= RingSize
    PROVE  /\ \A n \in 0 .. e.fragment_count - 1 :
                /\ After(e.frags_idx, n) \in Slots /\ After(e.frags_idx, n) \in SlotsOf(e)
                /\ Distance(s, After(e.frags_idx, n)) = d + n
           /\ \A t \in Slots : t \in SlotsOf(e) <=> d <= Distance(s, t) /\ Distance(s, t) < d + e.fragment_count
<1>0. d \in Slots
  BY Distances
<1>1. ASSUME NEW n \in 0 .. e.fragment_count - 1
      PROVE  /\ After(e.frags_idx, n) \in Slots /\ After(e.frags_idx, n) \in SlotsOf(e)
             /\ Distance(s, After(e.frags_idx, n)) = d + n
  <2>1. n \in Nat /\ Distance(s, e.frags_idx) + n < RingSize
    BY <1>0, Sizes DEF Slots
  <2>2. After(e.frags_idx, n) \in SlotsOf(e)
    BY DEF SlotsOf
  <2>. QED  BY <2>1, <2>2, Further
<1>2. ASSUME NEW t \in Slots, t \in SlotsOf(e)
      PROVE  d <= Distance(s, t) /\ Distance(s, t) < d + e.fragment_count
  <2>1. PICK n \in 0 .. e.fragment_count - 1 : t = After(e.frags_idx, n)
    BY <1>2 DEF SlotsOf
  <2>. QED  BY <1>0, <1>1, <2>1, Sizes DEF Slots
<1>3. ASSUME NEW t \in Slots, d <= Distance(s, t), Distance(s, t) < d + e.fragment_count
      PROVE  t \in SlotsOf(e)
  <2>1. PICK n : n = Distance(s, t) - d
    OBVIOUS
  <2>2. Distance(s, t) \in Slots
    BY Distances
  <2>3. n \in 0 .. e.fragment_count - 1 /\ d + n = Distance(s, t)
    BY <1>0, <1>3, <2>1, <2>2, Sizes DEF Slots
  <2>. QED  BY <1>1, <2>3, Distances
<1>. QED  BY <1>1, <1>2, <1>3

-----------------------------------------------------------------------------
(* The inductive invariant *)

EntryRecords ==
    [key : Packets \cup {Nothing}, frags_idx : Slots, fragment_have : SUBSET (0 .. MaxFragments - 1),
     fragment_count : 0 .. MaxFragments, packet_size : Nat, creation_time : Nat]

FragmentRecords == [key : Packets, no : Nat, count : Nat]

Caches ==
    [first_unused : Slots, unused_size : 0 .. RingSize, map : [Entries -> EntryRecords],
     frags : [Slots -> FragmentRecords \cup {Nothing}], map_idx : [Slots -> Entries \cup {Nothing}]]

LiveIn(c) == {i \in Entries : c.map[i].key # Nothing}

\* Where the slots of entry i begin, from the first unused slot.
Place(c, i) == Distance(c.first_unused, c.map[i].frags_idx)

\* The slots of a live entry are in the used part, one after the other.
InUse(c) ==
    \A i \in LiveIn(c) :
        /\ 0 < c.map[i].fragment_count
        /\ c.unused_size <= Place(c, i) /\ Place(c, i) + c.map[i].fragment_count <= RingSize

\* A slot names the live entry it belongs to.
Indexed(c) ==
    \A i \in Entries, s \in Slots : c.map_idx[s] = i <=> i \in LiveIn(c) /\ s \in SlotsOf(c.map[i])

\* The first slot of the used part is taken.
FirstTaken(c) == c.unused_size < RingSize => c.map_idx[FirstUsed(c)] # Nothing

\* A live entry holds the fragments it has, in their slots.
Holding(c) ==
    \A i \in LiveIn(c) : \A n \in c.map[i].fragment_have :
        /\ n < c.map[i].fragment_count
        /\ c.frags[After(c.map[i].frags_idx, n)] =
               [key |-> c.map[i].key, no |-> n, count |-> c.map[i].fragment_count]

\* Nothing else is held.
HeldOnly(c) ==
    \A s \in Slots : c.frags[s] # Nothing =>
        \E i \in LiveIn(c) : \E n \in c.map[i].fragment_have : s = After(c.map[i].frags_idx, n)

\* The live entries are in the order of their age, and none was created after now.
Aged(c, now) ==
    /\ \A i \in LiveIn(c) : c.map[i].creation_time <= now
    /\ \A i, j \in LiveIn(c) : Place(c, i) <= Place(c, j) => c.map[i].creation_time <= c.map[j].creation_time

Ring(c) == c \in Caches /\ InUse(c) /\ Indexed(c) /\ FirstTaken(c)

Sound(c, now) == Ring(c) /\ Holding(c) /\ HeldOnly(c) /\ Aged(c, now)

\* What the fields of a cache are.
LEMMA Fields ==
    ASSUME NEW c \in Caches
    PROVE  /\ c.first_unused \in Slots /\ c.unused_size \in 0 .. RingSize
           /\ \A i \in Entries : c.map[i] \in EntryRecords
           /\ \A s \in Slots : c.map_idx[s] \in Entries \cup {Nothing}
           /\ \A s \in Slots : c.frags[s] \in FragmentRecords \cup {Nothing}
           /\ \A i \in Entries : /\ c.map[i].key \in Packets \cup {Nothing} /\ c.map[i].frags_idx \in Slots
                                 /\ c.map[i].fragment_have \subseteq 0 .. MaxFragments - 1
                                 /\ c.map[i].fragment_count \in 0 .. MaxFragments
                                 /\ c.map[i].packet_size \in Nat /\ c.map[i].creation_time \in Nat
           /\ Nothing \notin Entries
<1>1. /\ c.first_unused \in Slots /\ c.unused_size \in 0 .. RingSize
      /\ c.map \in [Entries -> EntryRecords]
      /\ c.frags \in [Slots -> FragmentRecords \cup {Nothing}] /\ c.map_idx \in [Slots -> Entries \cup {Nothing}]
  BY DEF Caches
<1>2. /\ \A i \in Entries : c.map[i] \in EntryRecords
      /\ \A s \in Slots : c.map_idx[s] \in Entries \cup {Nothing}
      /\ \A s \in Slots : c.frags[s] \in FragmentRecords \cup {Nothing}
  BY <1>1
<1>3. ASSUME NEW e \in EntryRecords
      PROVE  /\ e.key \in Packets \cup {Nothing} /\ e.frags_idx \in Slots
             /\ e.fragment_have \subseteq 0 .. MaxFragments - 1 /\ e.fragment_count \in 0 .. MaxFragments
             /\ e.packet_size \in Nat /\ e.creation_time \in Nat
  BY DEF EntryRecords
<1>4. Nothing \notin Entries
  <2>1. Nothing \notin Nat /\ MapSize \in Nat
    BY FragCacheAssumption
  <2>. QED  BY <2>1 DEF Entries
<1>. QED  BY <1>1, <1>2, <1>3, <1>4

\* The slots of a live entry.
LEMMA EntrySlots ==
    ASSUME NEW c, Ring(c), NEW i \in LiveIn(c)
    PROVE  /\ Place(c, i) \in Slots
           /\ \A n \in 0 .. c.map[i].fragment_count - 1 :
                /\ After(c.map[i].frags_idx, n) \in Slots /\ After(c.map[i].frags_idx, n) \in SlotsOf(c.map[i])
                /\ Distance(c.first_unused, After(c.map[i].frags_idx, n)) = Place(c, i) + n
                /\ c.map_idx[After(c.map[i].frags_idx, n)] = i
           /\ \A s \in Slots :
                s \in SlotsOf(c.map[i]) <=>
                    /\ Place(c, i) <= Distance(c.first_unused, s)
                    /\ Distance(c.first_unused, s) < Place(c, i) + c.map[i].fragment_count
<1>1. PICK e, s, d : e = c.map[i] /\ s = c.first_unused /\ d = Place(c, i)
  OBVIOUS
<1>2. /\ s \in Slots /\ e.frags_idx \in Slots /\ e.fragment_count \in Nat
      /\ d = Distance(s, e.frags_idx) /\ d + e.fragment_count <= RingSize
  BY <1>1, Fields, Sizes DEF Ring, InUse, Place, LiveIn
<1>3. d \in Slots
  BY <1>2, Distances
<1>4. /\ \A n \in 0 .. e.fragment_count - 1 :
           /\ After(e.frags_idx, n) \in Slots /\ After(e.frags_idx, n) \in SlotsOf(e)
           /\ Distance(s, After(e.frags_idx, n)) = d + n
      /\ \A t \in Slots : t \in SlotsOf(e) <=> d <= Distance(s, t) /\ Distance(s, t) < d + e.fragment_count
  BY <1>2, Members
<1>5. \A t \in Slots : t \in SlotsOf(e) => c.map_idx[t] = i
  BY <1>1 DEF Ring, Indexed, LiveIn
<1>. QED  BY <1>1, <1>3, <1>4, <1>5

\* The slots of two live entries are not the same.
LEMMA Disjoint ==
    ASSUME NEW c, Ring(c), NEW i \in LiveIn(c), NEW j \in LiveIn(c), i # j, NEW s \in Slots,
           s \in SlotsOf(c.map[i])
    PROVE  s \notin SlotsOf(c.map[j])
  BY DEF Ring, Indexed, LiveIn

\* The first slot of the used part.
LEMMA FirstSlot ==
    ASSUME NEW c \in Caches
    PROVE  /\ FirstUsed(c) \in Slots
           /\ c.unused_size < RingSize => Distance(c.first_unused, FirstUsed(c)) = c.unused_size
           /\ \A n \in 0 .. RingSize - c.unused_size : After(FirstUsed(c), n) = After(c.first_unused, c.unused_size + n)
<1>1. PICK s, u : s = c.first_unused /\ u = c.unused_size
  OBVIOUS
<1>2. s \in Slots /\ u \in 0 .. RingSize /\ FirstUsed(c) = After(s, u)
  BY <1>1, Fields DEF FirstUsed
<1>3. After(s, u) \in Slots /\ After(s, u) = IF s + u < RingSize THEN s + u ELSE s + u - RingSize
  BY <1>2, AfterIs
<1>4. u < RingSize => Distance(s, After(s, u)) = u
  BY <1>2, Distances, Sizes DEF Slots
<1>5. ASSUME NEW n \in 0 .. RingSize - u PROVE After(After(s, u), n) = After(s, u + n)
  <2>1. PICK t \in Slots : t = After(s, u)
    BY <1>3
  <2>2. n \in 0 .. RingSize /\ u + n \in 0 .. RingSize
    BY <1>2, Sizes
  <2>3. After(t, n) = IF t + n < RingSize THEN t + n ELSE t + n - RingSize
    BY <2>2, AfterIs
  <2>4. After(s, u + n) = IF s + (u + n) < RingSize THEN s + (u + n) ELSE s + (u + n) - RingSize
    BY <1>2, <2>2, AfterIs
  <2>. QED  BY <1>2, <1>3, <2>1, <2>2, <2>3, <2>4, Sizes DEF Slots
<1>. QED  BY <1>1, <1>2, <1>3, <1>4, <1>5

\* The first slot of the used part is the first of the first entry.
LEMMA FirstEntry ==
    ASSUME NEW c, Ring(c), c.unused_size < RingSize
    PROVE  /\ c.map_idx[FirstUsed(c)] \in LiveIn(c)
           /\ Place(c, c.map_idx[FirstUsed(c)]) = c.unused_size
           /\ FirstUsed(c) = c.map[c.map_idx[FirstUsed(c)]].frags_idx
<1>1. PICK s, i : s = FirstUsed(c) /\ i = c.map_idx[s]
  OBVIOUS
<1>2. s \in Slots /\ Distance(c.first_unused, s) = c.unused_size
  BY <1>1, FirstSlot DEF Ring
<1>3. i \in Entries
  BY <1>1, <1>2, Fields DEF Ring, FirstTaken
<1>4. i \in LiveIn(c) /\ s \in SlotsOf(c.map[i])
  BY <1>1, <1>2, <1>3 DEF Ring, Indexed
<1>5. Place(c, i) <= c.unused_size /\ Place(c, i) \in Slots
  BY <1>2, <1>4, EntrySlots
<1>6. c.unused_size <= Place(c, i)
  BY <1>4 DEF Ring, InUse
<1>7. Place(c, i) = c.unused_size
  BY <1>5, <1>6, Fields DEF Ring, Slots
<1>8. s = c.map[i].frags_idx
  <2>1. c.first_unused \in Slots /\ c.map[i].frags_idx \in Slots
    BY <1>4, Fields DEF Ring, LiveIn
  <2>2. PICK f, g : f = c.first_unused /\ g = c.map[i].frags_idx
    OBVIOUS
  <2>3. f \in Slots /\ g \in Slots /\ s \in Slots /\ Distance(f, g) = Distance(f, s)
    BY <1>2, <1>7, <2>1, <2>2 DEF Place
  <2>4. \A t, u \in Slots : Distance(f, t) = Distance(f, u) => t = u
    BY <2>3, Distances
  <2>. QED  BY <2>2, <2>3, <2>4
<1>. QED  BY <1>1, <1>4, <1>7, <1>8

\* What invalidate does to the fields of the cache.
LEMMA Invalidated ==
    ASSUME NEW c \in Caches, NEW i \in Entries, NEW d, d = Invalidate(c, i), NEW e, e = c.map[i]
    PROVE  /\ d.first_unused = c.first_unused
           /\ d.map = [c.map EXCEPT ![i] = Vacant]
           /\ d.map_idx = [s \in Slots |-> IF s \in SlotsOf(e) THEN Nothing ELSE c.map_idx[s]]
           /\ d.frags = [s \in Slots |->
                  IF \E n \in e.fragment_have : s = After(e.frags_idx, n) THEN Nothing ELSE c.frags[s]]
           /\ FirstUsed(c) # e.frags_idx => d.unused_size = c.unused_size
           /\ FirstUsed(c) = e.frags_idx =>
                /\ d.unused_size \in c.unused_size .. RingSize
                /\ d.unused_size < RingSize => d.map_idx[After(c.first_unused, d.unused_size)] # Nothing
                /\ \A u \in c.unused_size .. RingSize :
                      u < d.unused_size => d.map_idx[After(c.first_unused, u)] = Nothing
           /\ d = [first_unused |-> d.first_unused, unused_size |-> d.unused_size, map |-> d.map,
                   frags |-> d.frags, map_idx |-> d.map_idx]
<1>1. PICK freed : freed =
          [c EXCEPT !.map_idx = [s \in Slots |-> IF s \in SlotsOf(e) THEN Nothing ELSE @[s]],
                    !.frags = [s \in Slots |->
                        IF \E n \in e.fragment_have : s = After(e.frags_idx, n) THEN Nothing ELSE @[s]],
                    !.map[i] = Vacant]
  OBVIOUS
<1>2. d = [freed EXCEPT !.unused_size = Reclaimed(freed, e)]
  BY <1>1 DEF Invalidate
<1>3. PICK mi, fr : /\ mi = [s \in Slots |-> IF s \in SlotsOf(e) THEN Nothing ELSE c.map_idx[s]]
                    /\ fr = [s \in Slots |->
                         IF \E n \in e.fragment_have : s = After(e.frags_idx, n) THEN Nothing ELSE c.frags[s]]
  OBVIOUS
<1>4. freed = [first_unused |-> c.first_unused, unused_size |-> c.unused_size,
               map |-> [c.map EXCEPT ![i] = Vacant], frags |-> fr, map_idx |-> mi]
  BY <1>1, <1>3 DEF Caches
<1>5. PICK r : r = Reclaimed(freed, e)
  OBVIOUS
<1>6. d = [first_unused |-> c.first_unused, unused_size |-> r,
           map |-> [c.map EXCEPT ![i] = Vacant], frags |-> fr, map_idx |-> mi]
  BY <1>2, <1>4, <1>5
<1>7. FirstUsed(freed) = FirstUsed(c)
  BY <1>4 DEF FirstUsed
<1>8. FirstUsed(c) # e.frags_idx => r = c.unused_size
  BY <1>4, <1>5, <1>7 DEF Reclaimed
<1>9. ASSUME FirstUsed(c) = e.frags_idx
      PROVE  /\ r \in c.unused_size .. RingSize
             /\ r < RingSize => mi[After(c.first_unused, r)] # Nothing
             /\ \A u \in c.unused_size .. RingSize : u < r => mi[After(c.first_unused, u)] = Nothing
  <2>1. PICK used, T : /\ used = RingSize - c.unused_size
                       /\ T = {n \in 0 .. used : n = used \/ mi[After(FirstUsed(c), n)] # Nothing}
    OBVIOUS
  <2>2. r = c.unused_size + Min(T)
    BY <1>4, <1>5, <1>7, <1>9, <2>1 DEF Reclaimed
  <2>3. used \in Nat /\ c.unused_size \in 0 .. RingSize /\ c.unused_size + used = RingSize
    BY <2>1, Fields, Sizes
  <2>4. T \subseteq Nat /\ used \in T
    BY <2>1, <2>3
  <2>5. PICK k \in T : r = c.unused_size + k /\ \A y \in T : k <= y
    BY <2>2, <2>4, MinIsLeast
  <2>6. \A n \in 0 .. used : After(FirstUsed(c), n) = After(c.first_unused, c.unused_size + n)
    BY <2>1, FirstSlot
  <2>7. k \in 0 .. used /\ (k = used \/ mi[After(c.first_unused, c.unused_size + k)] # Nothing)
    BY <2>1, <2>5, <2>6
  <2>8. ASSUME NEW u \in c.unused_size .. RingSize, u < r PROVE mi[After(c.first_unused, u)] = Nothing
    <3>1. PICK n : n = u - c.unused_size
      OBVIOUS
    <3>2. n \in 0 .. used /\ ~(k <= n) /\ n # used /\ c.unused_size + n = u
      BY <2>3, <2>5, <2>7, <2>8, <3>1, Sizes
    <3>3. n \notin T
      BY <2>5, <3>2
    <3>. QED  BY <2>1, <2>6, <3>2, <3>3
  <2>. QED  BY <2>3, <2>5, <2>7, <2>8, Sizes
<1>. QED  BY <1>3, <1>6, <1>8, <1>9

\* The ring is sound after invalidate, with one entry less.
LEMMA InvalidateRing ==
    ASSUME NEW c, Ring(c), NEW i \in LiveIn(c), NEW d, d = Invalidate(c, i)
    PROVE  /\ Ring(d) /\ d.map = [c.map EXCEPT ![i] = Vacant]
           /\ LiveIn(d) = LiveIn(c) \ {i}
           /\ \A j \in LiveIn(d) : d.map[j] = c.map[j] /\ Place(d, j) = Place(c, j)
           /\ d.frags = [s \in Slots |->
                  IF \E n \in c.map[i].fragment_have : s = After(c.map[i].frags_idx, n)
                  THEN Nothing ELSE c.frags[s]]
<1>0. c \in Caches /\ i \in Entries
  BY DEF Ring, LiveIn
<1>1. PICK e : e = c.map[i]
  OBVIOUS
<1>2. /\ d.first_unused = c.first_unused
      /\ d.map = [c.map EXCEPT ![i] = Vacant]
      /\ d.map_idx = [s \in Slots |-> IF s \in SlotsOf(e) THEN Nothing ELSE c.map_idx[s]]
      /\ d.frags = [s \in Slots |->
             IF \E n \in e.fragment_have : s = After(e.frags_idx, n) THEN Nothing ELSE c.frags[s]]
      /\ FirstUsed(c) # e.frags_idx => d.unused_size = c.unused_size
      /\ FirstUsed(c) = e.frags_idx =>
           /\ d.unused_size \in c.unused_size .. RingSize
           /\ d.unused_size < RingSize => d.map_idx[After(c.first_unused, d.unused_size)] # Nothing
           /\ \A u \in c.unused_size .. RingSize :
                 u < d.unused_size => d.map_idx[After(c.first_unused, u)] = Nothing
      /\ d = [first_unused |-> d.first_unused, unused_size |-> d.unused_size, map |-> d.map,
              frags |-> d.frags, map_idx |-> d.map_idx]
  BY <1>0, <1>1, Invalidated
<1>3. c.first_unused \in Slots /\ c.unused_size \in 0 .. RingSize
  BY <1>0, Fields
<1>4. d.unused_size \in 0 .. RingSize
  BY <1>2, <1>3, Sizes
<1>5. d \in Caches
  <2>1. Vacant \in EntryRecords
    BY Sizes DEF Vacant, EntryRecords, Slots
  <2>2. d.map \in [Entries -> EntryRecords]
    BY <1>0, <1>2, <2>1 DEF Caches
  <2>3. d.frags \in [Slots -> FragmentRecords \cup {Nothing}]
    BY <1>0, <1>2, Fields
  <2>4. d.map_idx \in [Slots -> Entries \cup {Nothing}]
    BY <1>0, <1>2, Fields
  <2>. QED  BY <1>2, <1>3, <1>4, <2>2, <2>3, <2>4 DEF Caches
<1>6. LiveIn(d) = LiveIn(c) \ {i}
  <2>1. Vacant.key = Nothing
    BY DEF Vacant
  <2>2. c.map = [j \in Entries |-> c.map[j]]
    BY <1>0 DEF Caches
  <2>. QED  BY <1>0, <1>2, <2>1, <2>2 DEF LiveIn
<1>7. \A j \in LiveIn(d) : d.map[j] = c.map[j] /\ Place(d, j) = Place(c, j)
  <2>2. c.map = [j \in Entries |-> c.map[j]]
    BY <1>0 DEF Caches
  <2>. QED  BY <1>2, <1>6, <2>2 DEF Place, LiveIn
<1>8. \A j \in LiveIn(d), s \in Slots : s \in SlotsOf(d.map[j]) => s \notin SlotsOf(e) /\ d.map_idx[s] = j
  <2>. SUFFICES ASSUME NEW j \in LiveIn(d), NEW s \in Slots, s \in SlotsOf(d.map[j])
                PROVE  s \notin SlotsOf(e) /\ d.map_idx[s] = j
    OBVIOUS
  <2>1. c.map_idx[s] = j
    BY <1>6, <1>7 DEF Ring, Indexed, LiveIn
  <2>2. s \notin SlotsOf(e)
    BY <1>1, <1>6, <1>7, Disjoint
  <2>. QED  BY <1>2, <2>1, <2>2
<1>9. Indexed(d)
  <2>. SUFFICES ASSUME NEW j \in Entries, NEW s \in Slots, d.map_idx[s] = j
                PROVE  j \in LiveIn(d) /\ s \in SlotsOf(d.map[j])
    BY <1>8 DEF Indexed
  <2>1. s \notin SlotsOf(e) /\ c.map_idx[s] = j
    BY <1>0, <1>2, Fields
  <2>2. j \in LiveIn(c) /\ s \in SlotsOf(c.map[j])
    BY <2>1 DEF Ring, Indexed
  <2>. QED  BY <1>1, <1>6, <1>7, <2>1, <2>2
<1>10. InUse(d)
  <2>. SUFFICES ASSUME NEW j \in LiveIn(d)
                PROVE  0 < d.map[j].fragment_count /\ d.unused_size <= Place(d, j)
                       /\ Place(d, j) + d.map[j].fragment_count <= RingSize
    BY DEF InUse
  <2>1. /\ j \in LiveIn(c) /\ d.map[j] = c.map[j] /\ Place(d, j) = Place(c, j) /\ 0 < c.map[j].fragment_count
        /\ c.unused_size <= Place(c, j) /\ Place(c, j) + d.map[j].fragment_count <= RingSize
    BY <1>6, <1>7 DEF Ring, InUse
  <2>2. Place(c, j) \in Slots
    BY <2>1, EntrySlots
  <2>3. ASSUME FirstUsed(c) = e.frags_idx PROVE d.unused_size <= Place(c, j)
    <3>. SUFFICES ASSUME Place(c, j) < d.unused_size PROVE FALSE
      BY <1>4, <2>2, Sizes DEF Slots
    <3>1. Place(c, j) \in c.unused_size .. RingSize
      BY <1>3, <2>1, <2>2, Sizes DEF Slots
    <3>2. d.map_idx[After(c.first_unused, Place(c, j))] = Nothing
      BY <1>2, <2>3, <3>1
    <3>3. c.map[j].frags_idx \in Slots /\ After(c.first_unused, Place(c, j)) = c.map[j].frags_idx
      BY <1>0, <1>3, <2>1, Fields, Distances DEF Place, LiveIn
    <3>4. c.map[j].frags_idx \in SlotsOf(c.map[j])
      <4>1. Distance(c.first_unused, c.map[j].frags_idx) = Place(c, j)
        BY DEF Place
      <4>2. c.map[j].fragment_count \in Nat
        BY <1>0, <2>1, Fields, Sizes DEF LiveIn
      <4>. QED  BY <2>1, <2>2, <3>3, <4>1, <4>2, EntrySlots, Sizes DEF Slots
    <3>5. d.map_idx[c.map[j].frags_idx] = j
      BY <1>8, <2>1, <3>3, <3>4
    <3>. QED  BY <1>0, <2>1, <3>2, <3>3, <3>5, Fields DEF LiveIn
  <2>. QED  BY <1>2, <2>1, <2>3
<1>11. FirstTaken(d)
  <2>. SUFFICES ASSUME d.unused_size < RingSize PROVE d.map_idx[FirstUsed(d)] # Nothing
    BY DEF FirstTaken
  <2>1. FirstUsed(d) = After(c.first_unused, d.unused_size)
    BY <1>2 DEF FirstUsed
  <2>2. CASE FirstUsed(c) = e.frags_idx
    BY <1>2, <2>1, <2>2
  <2>3. CASE FirstUsed(c) # e.frags_idx
    <3>1. FirstUsed(d) = FirstUsed(c) /\ c.unused_size < RingSize
      BY <1>2, <2>1, <2>3 DEF FirstUsed
    <3>2. PICK j : j = c.map_idx[FirstUsed(c)]
      OBVIOUS
    <3>3. j \in LiveIn(c) /\ FirstUsed(c) = c.map[j].frags_idx
      BY <3>1, <3>2, FirstEntry
    <3>4. j # i /\ j \in LiveIn(d)
      BY <1>1, <1>6, <2>3, <3>3
    <3>5. FirstUsed(c) \in Slots /\ FirstUsed(c) \in SlotsOf(c.map[j])
      <4>1. FirstUsed(c) \in Slots
        BY <1>0, FirstSlot
      <4>. QED  BY <3>2, <3>3, <4>1 DEF Ring, Indexed, LiveIn
    <3>6. d.map_idx[FirstUsed(c)] = j
      BY <1>7, <1>8, <3>4, <3>5
    <3>. QED  BY <1>0, <3>1, <3>4, <3>6, Fields DEF LiveIn
  <2>. QED  BY <2>2, <2>3
<1>. QED  BY <1>1, <1>2, <1>5, <1>6, <1>7, <1>9, <1>10, <1>11 DEF Ring

\* The whole cache is sound after invalidate.
LEMMA InvalidateSound ==
    ASSUME NEW c, NEW now, Sound(c, now), NEW i \in LiveIn(c), NEW d, d = Invalidate(c, i)
    PROVE  Sound(d, now) /\ d.map = [c.map EXCEPT ![i] = Vacant]
<1>0. c \in Caches /\ i \in Entries /\ Ring(c)
  BY DEF Sound, Ring, LiveIn
<1>1. /\ Ring(d) /\ d.map = [c.map EXCEPT ![i] = Vacant]
      /\ LiveIn(d) = LiveIn(c) \ {i}
      /\ \A j \in LiveIn(d) : d.map[j] = c.map[j] /\ Place(d, j) = Place(c, j)
      /\ d.frags = [s \in Slots |->
             IF \E n \in c.map[i].fragment_have : s = After(c.map[i].frags_idx, n)
             THEN Nothing ELSE c.frags[s]]
  BY <1>0, InvalidateRing
<1>2. PICK e : e = c.map[i]
  OBVIOUS
<1>3. d.frags = [s \in Slots |->
             IF \E n \in e.fragment_have : s = After(e.frags_idx, n) THEN Nothing ELSE c.frags[s]]
  BY <1>1, <1>2
<1>4. ASSUME NEW j \in LiveIn(c), NEW n \in c.map[j].fragment_have
      PROVE  n < c.map[j].fragment_count /\ After(c.map[j].frags_idx, n) \in Slots
             /\ After(c.map[j].frags_idx, n) \in SlotsOf(c.map[j])
  <2>1. n < c.map[j].fragment_count
    BY DEF Sound, Holding
  <2>2. n \in 0 .. c.map[j].fragment_count - 1
    BY <1>0, <2>1, Fields, Sizes DEF LiveIn
  <2>. QED  BY <1>0, <2>1, <2>2, EntrySlots
<1>5. Holding(d)
  <2>. SUFFICES ASSUME NEW j \in LiveIn(d), NEW n \in d.map[j].fragment_have
                PROVE  /\ n < d.map[j].fragment_count
                       /\ d.frags[After(d.map[j].frags_idx, n)] =
                              [key |-> d.map[j].key, no |-> n, count |-> d.map[j].fragment_count]
    BY DEF Holding
  <2>1. j \in LiveIn(c) /\ j # i /\ d.map[j] = c.map[j]
    BY <1>1
  <2>2. PICK s : s = After(c.map[j].frags_idx, n)
    OBVIOUS
  <2>3. n < c.map[j].fragment_count /\ s \in Slots /\ s \in SlotsOf(c.map[j])
    BY <1>4, <2>1, <2>2
  <2>4. s \notin SlotsOf(e)
    BY <1>0, <1>2, <2>1, <2>3, Disjoint
  <2>5. ~ \E k \in e.fragment_have : s = After(e.frags_idx, k)
    BY <1>2, <1>4, <2>4
  <2>6. d.frags[s] = c.frags[s]
    BY <1>3, <2>3, <2>5
  <2>7. c.frags[s] = [key |-> c.map[j].key, no |-> n, count |-> c.map[j].fragment_count]
    BY <2>1, <2>2 DEF Sound, Holding
  <2>. QED  BY <2>1, <2>2, <2>3, <2>6, <2>7
<1>6. HeldOnly(d)
  <2>. SUFFICES ASSUME NEW s \in Slots, d.frags[s] # Nothing
                PROVE  \E j \in LiveIn(d) : \E n \in d.map[j].fragment_have : s = After(d.map[j].frags_idx, n)
    BY DEF HeldOnly
  <2>1. c.frags[s] # Nothing /\ ~ \E k \in e.fragment_have : s = After(e.frags_idx, k)
    BY <1>3
  <2>2. PICK j \in LiveIn(c) : \E n \in c.map[j].fragment_have : s = After(c.map[j].frags_idx, n)
    BY <2>1 DEF Sound, HeldOnly
  <2>. QED  BY <1>1, <1>2, <2>1, <2>2
<1>7. Aged(d, now)
  BY <1>1 DEF Sound, Aged
<1>. QED  BY <1>1, <1>5, <1>6, <1>7 DEF Sound

-----------------------------------------------------------------------------
(* Expiry *)

\* Entries of c are as they were in b, but for some that had expired.
KeptFrom(b, c, timeout, at) == \A i \in LiveIn(b) : c.map[i] = b.map[i] \/ IsExpired(b.map[i], timeout, at)

\* An iteration of check_for_expiry_inner.
LEMMA DropFirstSound ==
    ASSUME NEW c, NEW now, Sound(c, now), NEW timeout, NEW at, NEW b, KeptFrom(b, c, timeout, at)
    PROVE  Sound(DropFirst(c, timeout, at), now) /\ KeptFrom(b, DropFirst(c, timeout, at), timeout, at)
<1>1. PICK i, d : i = c.map_idx[FirstUsed(c)] /\ d = DropFirst(c, timeout, at)
  OBVIOUS
<1>2. CASE c.unused_size < RingSize /\ IsExpired(c.map[i], timeout, at)
  <2>1. d = Invalidate(c, i)
    BY <1>1, <1>2 DEF DropFirst
  <2>2. i \in LiveIn(c)
    BY <1>1, <1>2, FirstEntry DEF Sound
  <2>3. Sound(d, now) /\ d.map = [c.map EXCEPT ![i] = Vacant]
    BY <2>1, <2>2, InvalidateSound
  <2>4. c.map = [j \in Entries |-> c.map[j]]
    BY DEF Sound, Ring, Caches
  <2>5. ASSUME NEW j \in LiveIn(b) PROVE d.map[j] = b.map[j] \/ IsExpired(b.map[j], timeout, at)
    <3>1. CASE j = i
      BY <1>2, <3>1 DEF KeptFrom
    <3>2. CASE j # i
      <4>1. d.map[j] = c.map[j]
        BY <2>3, <2>4, <3>2 DEF LiveIn
      <4>. QED  BY <4>1 DEF KeptFrom
    <3>. QED  BY <3>1, <3>2
  <2>. QED  BY <1>1, <2>3, <2>5 DEF KeptFrom
<1>3. CASE ~(c.unused_size < RingSize /\ IsExpired(c.map[i], timeout, at))
  <2>1. d = c
    BY <1>1, <1>3 DEF DropFirst
  <2>. QED  BY <1>1, <2>1
<1>. QED  BY <1>2, <1>3

\* check_for_expiry_inner leaves a sound cache and drops nothing that has not expired.
LEMMA ExpirySound ==
    ASSUME NEW b, NEW now, Sound(b, now), NEW timeout, NEW at
    PROVE  Sound(CheckForExpiry(b, timeout, at), now) /\ KeptFrom(b, CheckForExpiry(b, timeout, at), timeout, at)
<1>. DEFINE Drop(c) == DropFirst(c, timeout, at)
            Good(c) == Sound(c, now) /\ KeptFrom(b, c, timeout, at)
            Runs(f, m) == f = [n \in 0 .. m |-> IF n = 0 THEN b ELSE Drop(f[n - 1])]
            after[n \in 0 .. MapSize] == IF n = 0 THEN b ELSE Drop(after[n - 1])
<1>1. CheckForExpiry(b, timeout, at) = after[MapSize]
  BY DEF CheckForExpiry
<1>2. Good(b)
  BY DEF KeptFrom
<1>3. ASSUME NEW c, Good(c) PROVE Good(Drop(c))
  BY <1>3, DropFirstSound
<1>4. MapSize \in Nat
  BY Sizes
<1>. HIDE DEF Drop, Good
<1>5. \A m \in Nat : \E f : Runs(f, m)
  <2>. DEFINE T == {m \in Nat : ~ \E f : Runs(f, m)}
  <2>. SUFFICES ASSUME T # {} PROVE FALSE
    OBVIOUS
  <2>1. PICK x \in T : \A y \in T : x <= y
    <3>1. T \subseteq Nat
      OBVIOUS
    <3>. HIDE DEF T
    <3>. QED  BY <3>1, LeastNatural
  <2>2. x # 0
    <3>1. Runs([n \in 0 .. 0 |-> b], 0)
      OBVIOUS
    <3>. QED  BY <3>1
  <2>3. x \in Nat /\ x - 1 \in Nat /\ ~(x <= x - 1)
    BY <2>2
  <2>4. PICK f : Runs(f, x - 1)
    BY <2>1, <2>3
  <2>5. PICK g : g = [n \in 0 .. x |-> IF n = x THEN Drop(f[x - 1]) ELSE f[n]]
    OBVIOUS
  <2>6. ASSUME NEW n \in 0 .. x PROVE g[n] = IF n = 0 THEN b ELSE Drop(g[n - 1])
    <3>1. CASE n = x
      BY <2>2, <2>3, <2>5, <3>1
    <3>2. CASE n # x
      <4>1. n \in 0 .. x - 1 /\ (n # 0 => n - 1 \in 0 .. x /\ n - 1 # x)
        BY <2>3, <3>2
      <4>2. f[n] = IF n = 0 THEN b ELSE Drop(f[n - 1])
        BY <2>4, <4>1
      <4>. QED  BY <2>5, <3>2, <4>1, <4>2
    <3>. QED  BY <3>1, <3>2
  <2>7. Runs(g, x)
    BY <2>5, <2>6
  <2>. QED  BY <2>1, <2>7
<1>6. Runs(after, MapSize)
  BY <1>4, <1>5
<1>. HIDE DEF after
<1>7. \A n \in 0 .. MapSize : after[n] = IF n = 0 THEN b ELSE Drop(after[n - 1])
  BY <1>6
<1>8. \A n \in 0 .. MapSize : Good(after[n])
  <2>. DEFINE T == {n \in 0 .. MapSize : ~Good(after[n])}
  <2>. SUFFICES ASSUME T # {} PROVE FALSE
    OBVIOUS
  <2>1. PICK x \in T : \A y \in T : x <= y
    <3>1. T \subseteq Nat
      BY <1>4
    <3>. HIDE DEF T
    <3>. QED  BY <3>1, LeastNatural
  <2>2. x \in 0 .. MapSize /\ x # 0
    BY <1>2, <1>4, <1>7
  <2>3. x - 1 \in 0 .. MapSize /\ ~(x <= x - 1)
    BY <1>4, <2>2
  <2>4. Good(after[x - 1])
    BY <2>1, <2>3
  <2>5. after[x] = Drop(after[x - 1])
    BY <1>7, <2>2
  <2>. QED  BY <1>3, <2>1, <2>4, <2>5
<1>9. Good(after[MapSize])
  BY <1>4, <1>8
<1>. QED  BY <1>1, <1>9 DEF Good

-----------------------------------------------------------------------------
(* A new entry *)

\* Distances when the first unused slot moves on by n.
LEMMA Shift ==
    ASSUME NEW s \in Slots, NEW n \in Slots, NEW t \in Slots
    PROVE  Distance(After(s, n), t) = IF n <= Distance(s, t) THEN Distance(s, t) - n ELSE Distance(s, t) + RingSize - n
<1>1. n \in 0 .. RingSize
  BY Sizes DEF Slots
<1>2. After(s, n) = IF s + n < RingSize THEN s + n ELSE s + n - RingSize
  BY <1>1, AfterIs
<1>. QED  BY <1>2, Sizes DEF Slots, Distance

\* A new entry takes the first of the unused slots.
LEMMA NewEntrySound ==
    ASSUME NEW c, clock \in Nat, Sound(c, clock), NEW p \in Packets, NEW i \in Entries, c.map[i].key = Nothing,
           NEW count \in 1 .. MaxFragments, count <= c.unused_size, NEW d, d = NewEntry(c, p, i, count)
    PROVE  /\ Sound(d, clock) /\ i \in LiveIn(d)
           /\ d.map[i].key = p
           /\ \A j \in Entries : j # i => d.map[j] = c.map[j]
<1>0. c \in Caches /\ i \in Entries /\ Ring(c) /\ i \notin LiveIn(c)
  BY DEF Sound, Ring, LiveIn
<1>1. PICK e, fu, un : /\ e = [key |-> p, frags_idx |-> fu, fragment_have |-> {}, fragment_count |-> count,
                                packet_size |-> 0, creation_time |-> clock]
                       /\ fu = c.first_unused /\ un = c.unused_size
  OBVIOUS
<1>2. /\ fu \in Slots /\ un \in 0 .. RingSize /\ count \in Nat /\ 0 < count /\ count <= un
      /\ count \in Slots /\ count \in 0 .. RingSize
  BY <1>0, <1>1, Fields, Sizes DEF Slots
<1>3. PICK mi : mi = [s \in Slots |-> IF s \in SlotsOf(e) THEN i ELSE c.map_idx[s]]
  OBVIOUS
<1>4. d = [first_unused |-> After(fu, count), unused_size |-> un - count, map |-> [c.map EXCEPT ![i] = e],
           frags |-> c.frags, map_idx |-> mi]
  BY <1>0, <1>1, <1>3 DEF NewEntry, Caches
<1>5. /\ d.first_unused = After(fu, count) /\ d.unused_size = un - count /\ d.frags = c.frags /\ d.map_idx = mi
      /\ d.map[i] = e /\ \A j \in Entries : j # i => d.map[j] = c.map[j]
  BY <1>0, <1>4 DEF Caches
<1>6. p # Nothing
  BY FragCacheAssumption
<1>7. LiveIn(d) = LiveIn(c) \cup {i} /\ i \in LiveIn(d)
  BY <1>0, <1>1, <1>5, <1>6 DEF LiveIn
<1>8. d \in Caches
  <2>1. e \in EntryRecords
    BY <1>1, <1>2 DEF EntryRecords
  <2>2. [c.map EXCEPT ![i] = e] \in [Entries -> EntryRecords]
    BY <1>0, <2>1 DEF Caches
  <2>3. mi \in [Slots -> Entries \cup {Nothing}]
    BY <1>0, <1>3, Fields
  <2>4. After(fu, count) \in Slots
    BY <1>2, AfterIs
  <2>5. un - count \in 0 .. RingSize
    BY <1>2, Sizes
  <2>6. c.frags \in [Slots -> FragmentRecords \cup {Nothing}]
    BY <1>0 DEF Caches
  <2>. QED  BY <1>4, <2>2, <2>3, <2>4, <2>5, <2>6 DEF Caches
<1>9. /\ Distance(fu, fu) = 0 /\ fu \in SlotsOf(e)
      /\ \A t \in Slots : t \in SlotsOf(e) <=> Distance(fu, t) < count
  <2>1. Distance(fu, fu) = 0
    BY <1>2 DEF Distance, Slots
  <2>2. e.frags_idx = fu /\ e.fragment_count = count
    BY <1>1
  <2>3. \A t \in Slots : t \in SlotsOf(e) <=> 0 <= Distance(fu, t) /\ Distance(fu, t) < 0 + e.fragment_count
    BY <1>2, <2>1, <2>2, Members
  <2>4. \A t \in Slots : 0 <= Distance(fu, t)
    BY <1>2, Distances DEF Slots
  <2>. QED  BY <1>2, <2>1, <2>2, <2>3, <2>4
<1>10. Place(d, i) = RingSize - count
  <2>1. Place(d, i) = Distance(After(fu, count), fu)
    BY <1>1, <1>5 DEF Place
  <2>. QED  BY <1>2, <1>9, <2>1, Shift, Sizes
<1>11. ASSUME NEW j \in LiveIn(c)
       PROVE  /\ j \in Entries /\ j # i /\ d.map[j] = c.map[j] /\ Place(d, j) = Place(c, j) - count
              /\ un <= Place(c, j) /\ Place(c, j) + c.map[j].fragment_count <= RingSize /\ Place(c, j) \in Nat
              /\ c.map[j].fragment_count \in Nat /\ 0 < c.map[j].fragment_count
              /\ \A s \in Slots : s \in SlotsOf(c.map[j]) => s \notin SlotsOf(e)
  <2>1. j \in Entries /\ j # i /\ d.map[j] = c.map[j]
    BY <1>0, <1>5 DEF LiveIn
  <2>2. /\ un <= Place(c, j) /\ Place(c, j) + c.map[j].fragment_count <= RingSize
        /\ 0 < c.map[j].fragment_count
    BY <1>0, <1>1 DEF Ring, InUse
  <2>3. Place(c, j) \in Slots
    BY <1>0, EntrySlots
  <2>4. c.map[j].fragment_count \in Nat /\ c.map[j].frags_idx \in Slots
    BY <1>0, <2>1, Fields, Sizes
  <2>5. Place(d, j) = Place(c, j) - count
    <3>1. Place(d, j) = Distance(After(fu, count), c.map[j].frags_idx) /\ Place(c, j) = Distance(fu, c.map[j].frags_idx)
      BY <1>1, <1>5, <2>1 DEF Place
    <3>. QED  BY <1>2, <2>2, <2>3, <2>4, <3>1, Shift, Sizes DEF Slots
  <2>6. ASSUME NEW s \in Slots, s \in SlotsOf(c.map[j]) PROVE s \notin SlotsOf(e)
    <3>1. Place(c, j) <= Distance(fu, s) /\ Distance(fu, s) \in Slots
      BY <1>0, <1>1, <1>2, <2>6, EntrySlots, Distances
    <3>. QED  BY <1>2, <1>9, <2>2, <2>3, <3>1, Sizes DEF Slots
  <2>. QED  BY <2>1, <2>2, <2>3, <2>4, <2>5, <2>6, Sizes DEF Slots
<1>12. InUse(d)
  <2>. SUFFICES ASSUME NEW j \in LiveIn(d)
                PROVE  0 < d.map[j].fragment_count /\ d.unused_size <= Place(d, j)
                       /\ Place(d, j) + d.map[j].fragment_count <= RingSize
    BY DEF InUse
  <2>1. CASE j = i
    <3>1. d.map[i].fragment_count = count
      BY <1>1, <1>5
    <3>. QED  BY <1>2, <1>5, <1>10, <2>1, <3>1, Sizes
  <2>2. CASE j # i
    <3>1. j \in LiveIn(c)
      BY <1>7, <2>2
    <3>. QED  BY <1>2, <1>5, <1>11, <3>1, Sizes
  <2>. QED  BY <2>1, <2>2
<1>13. Indexed(d)
  <2>. SUFFICES ASSUME NEW j \in Entries, NEW s \in Slots
                PROVE  mi[s] = j <=> j \in LiveIn(d) /\ s \in SlotsOf(d.map[j])
    BY <1>5 DEF Indexed
  <2>0. c.map_idx[s] = j <=> j \in LiveIn(c) /\ s \in SlotsOf(c.map[j])
    BY <1>0 DEF Ring, Indexed
  <2>1. CASE j = i
    BY <1>0, <1>3, <1>5, <1>7, <2>0, <2>1
  <2>2. CASE j # i
    BY <1>3, <1>7, <1>11, <2>0, <2>2
  <2>. QED  BY <2>1, <2>2
<1>14. FirstTaken(d)
  <2>1. After(fu, count) \in Slots /\ FirstUsed(d) = After(After(fu, count), un - count)
    BY <1>2, <1>5, AfterIs DEF FirstUsed
  <2>2. FirstUsed(d) = After(fu, un)
    <3>1. PICK t \in Slots : t = After(fu, count)
      BY <2>1
    <3>2. un - count \in 0 .. RingSize
      BY <1>2, Sizes
    <3>3. t = IF fu + count < RingSize THEN fu + count ELSE fu + count - RingSize
      BY <1>2, <3>1, AfterIs
    <3>4. After(t, un - count) = IF t + (un - count) < RingSize THEN t + (un - count) ELSE t + (un - count) - RingSize
      BY <3>2, AfterIs
    <3>5. After(fu, un) = IF fu + un < RingSize THEN fu + un ELSE fu + un - RingSize
      BY <1>2, AfterIs
    <3>. QED  BY <1>2, <2>1, <3>1, <3>3, <3>4, <3>5, Sizes DEF Slots
  <2>3. FirstUsed(c) = After(fu, un) /\ FirstUsed(c) \in Slots
    BY <1>0, <1>1, FirstSlot DEF FirstUsed
  <2>4. CASE un < RingSize
    <3>1. c.map_idx[FirstUsed(c)] # Nothing
      BY <1>0, <1>1, <2>4 DEF Ring, FirstTaken
    <3>. QED  BY <1>0, <1>3, <1>5, <2>2, <2>3, <3>1, Fields DEF FirstTaken
  <2>5. CASE ~(un < RingSize)
    <3>1. un = RingSize
      BY <1>2, <2>5, Sizes
    <3>2. After(fu, un) = IF fu + un < RingSize THEN fu + un ELSE fu + un - RingSize
      BY <1>2, AfterIs
    <3>3. After(fu, un) = fu
      BY <1>2, <3>1, <3>2, Sizes DEF Slots
    <3>. QED  BY <1>0, <1>2, <1>3, <1>5, <1>9, <2>2, <3>3, Fields DEF FirstTaken
  <2>. QED  BY <2>4, <2>5
<1>15. Holding(d)
  <2>1. d.map[i].fragment_have = {}
    BY <1>1, <1>5
  <2>. QED  BY <1>5, <1>7, <1>11, <2>1 DEF Sound, Holding
<1>16. HeldOnly(d)
  <2>. SUFFICES ASSUME NEW s \in Slots, c.frags[s] # Nothing
                PROVE  \E j \in LiveIn(d) : \E n \in d.map[j].fragment_have : s = After(d.map[j].frags_idx, n)
    BY <1>5 DEF HeldOnly
  <2>1. PICK j \in LiveIn(c) : \E n \in c.map[j].fragment_have : s = After(c.map[j].frags_idx, n)
    BY DEF Sound, HeldOnly
  <2>. QED  BY <1>7, <1>11, <2>1
<1>17. Aged(d, clock)
  <2>1. d.map[i].creation_time = clock
    BY <1>1, <1>5
  <2>2. \A j \in LiveIn(c) : c.map[j].creation_time <= clock
    BY DEF Sound, Aged
  <2>3. \A j \in LiveIn(d) : d.map[j].creation_time <= clock
    BY <1>7, <1>11, <2>1, <2>2
  <2>4. ASSUME NEW j \in LiveIn(d), NEW k \in LiveIn(d), Place(d, j) <= Place(d, k)
        PROVE  d.map[j].creation_time <= d.map[k].creation_time
    <3>1. CASE k = i
      BY <2>1, <2>3, <3>1
    <3>2. CASE k # i /\ j = i
      <4>1. k \in LiveIn(c)
        BY <1>7, <3>2
      <4>. QED  BY <1>2, <1>10, <1>11, <2>4, <3>2, <4>1, Sizes
    <3>3. CASE k # i /\ j # i
      <4>1. j \in LiveIn(c) /\ k \in LiveIn(c)
        BY <1>7, <3>3
      <4>2. Place(c, j) <= Place(c, k)
        BY <1>2, <1>11, <2>4, <4>1
      <4>. QED  BY <1>11, <4>1, <4>2 DEF Sound, Aged
    <3>. QED  BY <3>1, <3>2, <3>3
  <2>. QED  BY <2>3, <2>4 DEF Aged
<1>18. d.map[i].key = p
  BY <1>1, <1>5
<1>. QED  BY <1>5, <1>7, <1>8, <1>12, <1>13, <1>14, <1>15, <1>16, <1>17, <1>18 DEF Sound, Ring

-----------------------------------------------------------------------------
(* A fragment *)

\* The same entries are there, with the same keys.
SameKeys(c, d) == \A j \in LiveIn(c) : d.map[j].key = c.map[j].key

\* What assemble does with a fragment it accepts.
IsStored(c, i, no, count, size, d) ==
    d = [c EXCEPT !.map[i] = Received(c.map[i], no, size),
                  !.frags[After(c.map[i].frags_idx, no)] = [key |-> c.map[i].key, no |-> no, count |-> count]]

\* A fragment that is accepted is put into its slot.
LEMMA StoredSound ==
    ASSUME NEW c, NEW now, Sound(c, now), NEW i \in LiveIn(c), NEW e, e = c.map[i],
           NEW no \in Nat, NEW count \in Nat, NEW size \in Nat, no < count, AcceptsFragment(e, no, count, size),
           NEW d, IsStored(c, i, no, count, size, d)
    PROVE  /\ Sound(d, now) /\ LiveIn(d) = LiveIn(c) /\ SameKeys(c, d)
           /\ d.map[i].fragment_count = count /\ d.map[i].frags_idx = e.frags_idx
<1>0. c \in Caches /\ i \in Entries /\ Ring(c) /\ e \in EntryRecords
  BY Fields DEF Sound, Ring, LiveIn
<1>1. no \notin e.fragment_have /\ count = e.fragment_count
  BY DEF AcceptsFragment
<1>2. PICK slot, r, fragment : /\ slot = After(e.frags_idx, no) /\ r = Received(e, no, size)
                              /\ fragment = [key |-> e.key, no |-> no, count |-> count]
  OBVIOUS
<1>3. /\ r \in EntryRecords
      /\ r.key = e.key /\ r.frags_idx = e.frags_idx /\ r.fragment_count = e.fragment_count
      /\ r.fragment_have = e.fragment_have \cup {no} /\ r.creation_time = e.creation_time
  <2>1. no \in 0 .. MaxFragments - 1
    BY <1>0, <1>1, Sizes DEF EntryRecords
  <2>2. r = [key |-> e.key, frags_idx |-> e.frags_idx, fragment_have |-> e.fragment_have \cup {no},
             fragment_count |-> e.fragment_count, packet_size |-> e.packet_size + size, creation_time |-> e.creation_time]
    BY <1>0, <1>2 DEF Received, EntryRecords
  <2>3. e.fragment_have \cup {no} \subseteq 0 .. MaxFragments - 1 /\ e.packet_size + size \in Nat
    BY <1>0, <2>1 DEF EntryRecords
  <2>. QED  BY <1>0, <2>2, <2>3 DEF EntryRecords
<1>4. PICK m, fr : /\ m = [c.map EXCEPT ![i] = r] /\ fr = [c.frags EXCEPT ![slot] = fragment]
                   /\ d = [first_unused |-> c.first_unused, unused_size |-> c.unused_size, map |-> m,
                           frags |-> fr, map_idx |-> c.map_idx]
  BY <1>0, <1>2 DEF Caches, IsStored
<1>5. no \in 0 .. e.fragment_count - 1 /\ slot \in Slots /\ slot \in SlotsOf(e)
  <2>1. no \in 0 .. e.fragment_count - 1
    BY <1>1
  <2>. QED  BY <1>0, <1>2, <2>1, EntrySlots
<1>6. /\ d.first_unused = c.first_unused /\ d.unused_size = c.unused_size /\ d.map_idx = c.map_idx
      /\ d.map[i] = r /\ \A j \in Entries : j # i => d.map[j] = c.map[j]
      /\ d.frags[slot] = fragment /\ \A s \in Slots : s # slot => d.frags[s] = c.frags[s]
  <2>1. c.map = [j \in Entries |-> c.map[j]] /\ c.frags = [s \in Slots |-> c.frags[s]]
    BY <1>0 DEF Caches
  <2>2. m[i] = r /\ \A j \in Entries : j # i => m[j] = c.map[j]
    BY <1>0, <1>4, <2>1
  <2>3. fr[slot] = fragment /\ \A s \in Slots : s # slot => fr[s] = c.frags[s]
    BY <1>4, <1>5, <2>1
  <2>4. d.first_unused = c.first_unused /\ d.unused_size = c.unused_size /\ d.map_idx = c.map_idx /\ d.map = m /\ d.frags = fr
    BY <1>4
  <2>. QED  BY <2>2, <2>3, <2>4
<1>7. d \in Caches
  <2>1. fragment \in FragmentRecords
    <3>1. e.key \in Packets
      BY <1>0, Fields DEF LiveIn
    <3>. QED  BY <1>2, <3>1 DEF FragmentRecords
  <2>2. m \in [Entries -> EntryRecords]
    BY <1>0, <1>3, <1>4 DEF Caches
  <2>3. fr \in [Slots -> FragmentRecords \cup {Nothing}]
    BY <1>0, <1>4, <2>1 DEF Caches
  <2>. QED  BY <1>0, <1>4, <2>2, <2>3 DEF Caches
<1>8. /\ LiveIn(d) = LiveIn(c)
      /\ \A j \in LiveIn(c) : /\ d.map[j].key = c.map[j].key /\ d.map[j].frags_idx = c.map[j].frags_idx
                               /\ d.map[j].fragment_count = c.map[j].fragment_count
                               /\ d.map[j].creation_time = c.map[j].creation_time
                               /\ Place(d, j) = Place(c, j) /\ SlotsOf(d.map[j]) = SlotsOf(c.map[j])
                               /\ c.map[j].fragment_have \subseteq d.map[j].fragment_have
  <2>1. \A j \in Entries : /\ d.map[j].key = c.map[j].key /\ d.map[j].frags_idx = c.map[j].frags_idx
                            /\ d.map[j].fragment_count = c.map[j].fragment_count
                            /\ d.map[j].creation_time = c.map[j].creation_time
                            /\ c.map[j].fragment_have \subseteq d.map[j].fragment_have
    BY <1>3, <1>6
  <2>2. LiveIn(d) = LiveIn(c)
    BY <2>1 DEF LiveIn
  <2>3. \A j \in Entries : Place(d, j) = Place(c, j) /\ SlotsOf(d.map[j]) = SlotsOf(c.map[j])
    BY <1>6, <2>1 DEF Place, SlotsOf
  <2>. QED  BY <2>1, <2>2, <2>3 DEF LiveIn
<1>9. InUse(d)
  BY <1>0, <1>6, <1>8 DEF Ring, InUse
<1>10. Indexed(d)
  BY <1>0, <1>6, <1>8 DEF Ring, Indexed
<1>11. FirstTaken(d)
  BY <1>0, <1>6 DEF Ring, FirstTaken, FirstUsed
<1>12. Aged(d, now)
  BY <1>8 DEF Sound, Aged
<1>13. Holding(d)
  <2>. SUFFICES ASSUME NEW j \in LiveIn(d), NEW n \in d.map[j].fragment_have
                PROVE  /\ n < d.map[j].fragment_count
                       /\ d.frags[After(d.map[j].frags_idx, n)] =
                              [key |-> d.map[j].key, no |-> n, count |-> d.map[j].fragment_count]
    BY DEF Holding
  <2>1. CASE j = i /\ n = no
    BY <1>1, <1>2, <1>3, <1>6, <2>1
  <2>2. CASE ~(j = i /\ n = no)
    <3>1. j \in LiveIn(c) /\ j \in Entries /\ n \in c.map[j].fragment_have
      BY <1>3, <1>6, <1>8, <2>2 DEF LiveIn
    <3>2. PICK s : s = After(c.map[j].frags_idx, n)
      OBVIOUS
    <3>3. /\ n < c.map[j].fragment_count
          /\ c.frags[s] = [key |-> c.map[j].key, no |-> n, count |-> c.map[j].fragment_count]
      BY <3>1, <3>2 DEF Sound, Holding
    <3>4. n \in 0 .. c.map[j].fragment_count - 1
      BY <1>0, <3>1, <3>3, Fields, Sizes
    <3>5. s \in Slots /\ s \in SlotsOf(c.map[j]) /\ Distance(c.first_unused, s) = Place(c, j) + n
      BY <1>0, <3>1, <3>2, <3>4, EntrySlots
    <3>6. s # slot
      <4>1. CASE j = i
        <5>1. Distance(c.first_unused, slot) = Place(c, i) + no /\ Place(c, i) \in Slots
          BY <1>0, <1>2, <1>5, EntrySlots
        <5>. QED  BY <2>2, <3>4, <3>5, <4>1, <5>1 DEF Slots
      <4>2. CASE j # i
        BY <1>0, <1>5, <3>1, <3>5, <4>2, Disjoint
      <4>. QED  BY <4>1, <4>2
    <3>. QED  BY <1>6, <1>8, <3>1, <3>2, <3>3, <3>5, <3>6
  <2>. QED  BY <2>1, <2>2
<1>14. HeldOnly(d)
  <2>. SUFFICES ASSUME NEW s \in Slots, d.frags[s] # Nothing
                PROVE  \E j \in LiveIn(d) : \E n \in d.map[j].fragment_have : s = After(d.map[j].frags_idx, n)
    BY DEF HeldOnly
  <2>1. CASE s = slot
    BY <1>2, <1>3, <1>6, <1>8, <2>1
  <2>2. CASE s # slot
    <3>1. PICK j \in LiveIn(c) : \E n \in c.map[j].fragment_have : s = After(c.map[j].frags_idx, n)
      BY <1>6, <2>2 DEF Sound, HeldOnly
    <3>. QED  BY <1>8, <3>1
  <2>. QED  BY <2>1, <2>2
<1>. QED  BY <1>1, <1>3, <1>6, <1>7, <1>8, <1>9, <1>10, <1>11, <1>12, <1>13, <1>14 DEF Sound, Ring, SameKeys

\* What assemble hands out, if anything, is one packet.
Whole(a, p) ==
    a # <<>> => /\ \E count \in Nat \ {0} : /\ a = [n \in 1 .. count |-> a[n]]
                                            /\ \A n \in 1 .. count : a[n] = [key |-> p, no |-> n - 1, count |-> count]

\* A fragment in an entry of its packet.
LEMMA StoreSound ==
    ASSUME NEW c, NEW now, Sound(c, now), NEW i \in LiveIn(c), NEW p, c.map[i].key = p,
           NEW no \in Nat, NEW count \in Nat, NEW size \in Nat, no < count,
           Store(c, i, [key |-> p, no |-> no, count |-> count], size)
    PROVE  /\ Sound(cache', now) /\ Whole(assembled', p)
           /\ \A j \in LiveIn(c) : cache'.map[j].key = c.map[j].key \/ (assembled' # <<>> /\ c.map[j].key = p)
<1>1. PICK e : e = c.map[i]
  OBVIOUS
<1>2. PICK d : IsStored(c, i, no, count, size, d)
  BY DEF IsStored
<1>3. \/ cache' = c /\ assembled' = <<>>
      \/ /\ AcceptsFragment(e, no, count, size)
         /\ \/ /\ d.map[i].fragment_have = 0 .. count - 1
               /\ assembled' = [n \in 1 .. count |-> d.frags[After(e.frags_idx, n - 1)]]
               /\ cache' = Invalidate(d, i)
            \/ cache' = d /\ assembled' = <<>>
  BY <1>1, <1>2 DEF Store, IsStored
<1>4. CASE cache' = c /\ assembled' = <<>>
  BY <1>4 DEF Whole
<1>5. ASSUME AcceptsFragment(e, no, count, size)
      PROVE  /\ Sound(d, now) /\ LiveIn(d) = LiveIn(c) /\ SameKeys(c, d)
             /\ d.map[i].fragment_count = count /\ d.map[i].frags_idx = e.frags_idx
  BY <1>1, <1>2, <1>5, StoredSound
<1>6. CASE AcceptsFragment(e, no, count, size) /\ cache' = d /\ assembled' = <<>>
  BY <1>5, <1>6 DEF Whole, SameKeys
<1>7. CASE /\ AcceptsFragment(e, no, count, size) /\ d.map[i].fragment_have = 0 .. count - 1
           /\ assembled' = [n \in 1 .. count |-> d.frags[After(e.frags_idx, n - 1)]]
           /\ cache' = Invalidate(d, i)
  <2>1. /\ Sound(d, now) /\ LiveIn(d) = LiveIn(c) /\ SameKeys(c, d)
        /\ d.map[i].fragment_count = count /\ d.map[i].frags_idx = e.frags_idx /\ d.map[i].key = p
    BY <1>5, <1>7 DEF SameKeys
  <2>2. Sound(cache', now) /\ cache'.map = [d.map EXCEPT ![i] = Vacant]
    BY <1>7, <2>1, InvalidateSound
  <2>3. count \in Nat \ {0}
    OBVIOUS
  <2>4. ASSUME NEW n \in 1 .. count PROVE assembled'[n] = [key |-> p, no |-> n - 1, count |-> count]
    <3>1. n - 1 \in d.map[i].fragment_have
      BY <1>7
    <3>2. d.frags[After(d.map[i].frags_idx, n - 1)] = [key |-> p, no |-> n - 1, count |-> count]
      BY <2>1, <3>1 DEF Sound, Holding
    <3>. QED  BY <1>7, <2>1, <3>2
  <2>5. assembled' = [n \in 1 .. count |-> assembled'[n]]
    BY <1>7
  <2>6. assembled' # <<>>
    <3>1. 1 \in DOMAIN assembled'
      BY <1>7, <2>3
    <3>. QED  BY <3>1
  <2>7. Whole(assembled', p)
    BY <2>3, <2>4, <2>5 DEF Whole
  <2>8. ASSUME NEW j \in LiveIn(c) PROVE cache'.map[j].key = c.map[j].key \/ c.map[j].key = p
    <3>1. d.map = [k \in Entries |-> d.map[k]]
      BY <2>1 DEF Sound, Ring, Caches
    <3>2. j # i => cache'.map[j] = d.map[j]
      BY <2>2, <3>1 DEF LiveIn
    <3>. QED  BY <2>1, <3>2 DEF SameKeys
  <2>. QED  BY <2>2, <2>6, <2>7, <2>8
<1>. QED  BY <1>3, <1>4, <1>6, <1>7

-----------------------------------------------------------------------------
(* The steps of the cache *)

\* What is assembled begins with the first fragment of its packet.
LEMMA WholeFirst ==
    ASSUME NEW a, NEW p, Whole(a, p), a # <<>>
    PROVE  /\ Head(a).key = p /\ Len(a) = Head(a).count
           /\ \A n \in 1 .. Len(a) : a[n] = [Head(a) EXCEPT !.no = n - 1]
<1>1. PICK count \in Nat \ {0} : /\ a = [n \in 1 .. count |-> a[n]]
                                /\ \A n \in 1 .. count : a[n] = [key |-> p, no |-> n - 1, count |-> count]
  BY DEF Whole
<1>2. Len(a) = count /\ Head(a) = a[1]
  BY <1>1
<1>3. PICK f : f = [key |-> p, no |-> 1 - 1, count |-> count]
  OBVIOUS
<1>4. Head(a) = f
  BY <1>1, <1>2, <1>3
<1>. QED  BY <1>1, <1>2, <1>3, <1>4

\* The two places of every packet are entries.
Placed == \A p \in Packets : places[p][1] \in Entries /\ places[p][2] \in Entries

\* Which entry assemble takes.
LEMMA Taken ==
    ASSUME NEW c, Placed, NEW p \in Packets
    PROVE  /\ Own(c, p) # {} => Preferred(p, Own(c, p)) \in LiveIn(c) /\ c.map[Preferred(p, Own(c, p))].key = p
           /\ Free(c, p) # {} => Preferred(p, Free(c, p)) \in Entries /\ c.map[Preferred(p, Free(c, p))].key = Nothing
<1>1. p # Nothing
  BY FragCacheAssumption
<1>2. ASSUME NEW T, T \subseteq 1 .. 2, T # {} PROVE \E n \in T : Preferred(p, T) = places[p][n] /\ places[p][n] \in Entries
  <2>1. Min(T) \in T
    <3>1. T \subseteq Nat
      BY <1>2
    <3>. QED  BY <1>2, <3>1, MinIsLeast
  <2>2. PICK n \in T : n = Min(T)
    BY <2>1
  <2>3. n = 1 \/ n = 2
    BY <1>2
  <2>4. places[p][n] \in Entries
    BY <2>3 DEF Placed
  <2>. QED  BY <2>2, <2>4 DEF Preferred
<1>3. ASSUME Own(c, p) # {} PROVE Preferred(p, Own(c, p)) \in LiveIn(c) /\ c.map[Preferred(p, Own(c, p))].key = p
  <2>1. PICK T : T = Own(c, p)
    OBVIOUS
  <2>2. PICK n \in T : Preferred(p, T) = places[p][n] /\ places[p][n] \in Entries
    <3>1. T \subseteq 1 .. 2 /\ T # {}
      BY <1>3, <2>1 DEF Own
    <3>. QED  BY <1>2, <3>1
  <2>3. c.map[places[p][n]].key = p
    BY <2>1, <2>2 DEF Own
  <2>. QED  BY <1>1, <2>1, <2>2, <2>3 DEF LiveIn
<1>4. ASSUME Free(c, p) # {} PROVE Preferred(p, Free(c, p)) \in Entries /\ c.map[Preferred(p, Free(c, p))].key = Nothing
  <2>1. PICK T : T = Free(c, p)
    OBVIOUS
  <2>2. PICK n \in T : Preferred(p, T) = places[p][n] /\ places[p][n] \in Entries
    <3>1. T \subseteq 1 .. 2 /\ T # {}
      BY <1>4, <2>1 DEF Free
    <3>. QED  BY <1>2, <3>1
  <2>3. c.map[places[p][n]].key = Nothing
    BY <2>1, <2>2 DEF Free
  <2>. QED  BY <2>1, <2>2, <2>3
<1>. QED  BY <1>3, <1>4

\* Every entry of b keeps its packet, or is handed out, or has expired.
Spared(b, c, p, timeout) ==
    \A i \in LiveIn(b) : \/ c.map[i].key = b.map[i].key
                         \/ assembled' # <<>> /\ b.map[i].key = p
                         \/ IsExpired(b.map[i], timeout, clock)

\* assemble, from first to last.
LEMMA AssembleSound ==
    ASSUME clock \in Nat, Placed, Sound(cache, clock), NEW p \in Packets, NEW no \in Nat, NEW count \in Nat,
           NEW size \in Nat, Assemble(p, no, count, size)
    PROVE  /\ Sound(cache', clock) /\ Whole(assembled', p) /\ Spared(cache, cache', p, ResendTime)
           /\ UNCHANGED <<clock, places>>
<1>1. PICK c, own, free : c = MakeRoom(p, count) /\ own = Own(c, p) /\ free = Free(c, p)
  OBVIOUS
<1>2. /\ no < count /\ count <= MaxFragments /\ UNCHANGED <<clock, places>>
      /\ \/ own # {} /\ Store(c, Preferred(p, own), [key |-> p, no |-> no, count |-> count], size)
         \/ /\ free # {} /\ HasRoom(c, count)
            /\ Store(NewEntry(c, p, Preferred(p, free), count), Preferred(p, free),
                     [key |-> p, no |-> no, count |-> count], size)
         \/ cache' = c /\ assembled' = <<>>
  BY <1>1 DEF Assemble
<1>3. Sound(c, clock) /\ KeptFrom(cache, c, ResendTime, clock)
  <2>1. c = cache \/ c = CheckForExpiry(cache, ResendTime, clock)
    BY <1>1 DEF MakeRoom
  <2>2. KeptFrom(cache, cache, ResendTime, clock)
    BY DEF KeptFrom
  <2>. QED  BY <2>1, <2>2, ExpirySound
<1>4. CASE cache' = c /\ assembled' = <<>>
  BY <1>2, <1>3, <1>4 DEF Whole, KeptFrom, Spared
<1>5. CASE own # {} /\ Store(c, Preferred(p, own), [key |-> p, no |-> no, count |-> count], size)
  <2>1. PICK i : i = Preferred(p, own)
    OBVIOUS
  <2>2. i \in LiveIn(c) /\ c.map[i].key = p
    BY <1>1, <1>5, <2>1, Taken
  <2>3. /\ Sound(cache', clock) /\ Whole(assembled', p)
        /\ \A j \in LiveIn(c) : cache'.map[j].key = c.map[j].key \/ (assembled' # <<>> /\ c.map[j].key = p)
    BY <1>2, <1>3, <1>5, <2>1, <2>2, StoreSound
  <2>4. Spared(cache, cache', p, ResendTime)
    BY <1>3, <2>3 DEF KeptFrom, Spared, LiveIn
  <2>. QED  BY <1>2, <2>3, <2>4
<1>6. CASE /\ free # {} /\ HasRoom(c, count)
           /\ Store(NewEntry(c, p, Preferred(p, free), count), Preferred(p, free),
                    [key |-> p, no |-> no, count |-> count], size)
  <2>1. PICK i, d : i = Preferred(p, free) /\ d = NewEntry(c, p, i, count)
    OBVIOUS
  <2>2. i \in Entries /\ c.map[i].key = Nothing
    BY <1>1, <1>6, <2>1, Taken
  <2>3. count \in 1 .. MaxFragments /\ count <= c.unused_size
    BY <1>2, <1>6, Sizes DEF HasRoom
  <2>4. /\ Sound(d, clock) /\ i \in LiveIn(d)
        /\ d.map[i].key = p
        /\ \A j \in Entries : j # i => d.map[j] = c.map[j]
    BY <1>3, <2>1, <2>2, <2>3, NewEntrySound
  <2>5. Store(d, i, [key |-> p, no |-> no, count |-> count], size)
    BY <1>6, <2>1
  <2>6. /\ Sound(cache', clock) /\ Whole(assembled', p)
        /\ \A j \in LiveIn(d) : cache'.map[j].key = d.map[j].key \/ (assembled' # <<>> /\ d.map[j].key = p)
    BY <1>2, <2>4, <2>5, StoreSound
  <2>7. ASSUME NEW j \in LiveIn(cache)
        PROVE  \/ cache'.map[j].key = cache.map[j].key
               \/ assembled' # <<>> /\ cache.map[j].key = p
               \/ IsExpired(cache.map[j], ResendTime, clock)
    <3>1. CASE c.map[j] = cache.map[j]
      <4>1. j \in Entries /\ j # i
        BY <2>2, <3>1 DEF LiveIn
      <4>2. d.map[j] = cache.map[j] /\ j \in LiveIn(d)
        BY <2>4, <3>1, <4>1 DEF LiveIn
      <4>. QED  BY <2>6, <4>2
    <3>2. CASE c.map[j] # cache.map[j]
      BY <1>3, <3>2 DEF KeptFrom
    <3>. QED  BY <3>1, <3>2
  <2>. QED  BY <1>2, <2>6, <2>7 DEF Spared
<1>. QED  BY <1>2, <1>4, <1>5, <1>6

\* The inductive invariant of the cache.
FragCacheInv == clock \in Nat /\ Placed /\ Sound(cache, clock) /\ \E p : Whole(assembled, p)

\* The clock is a natural number, and an entry that lives keeps its age, when time goes on.
LEMMA TickInv == FragCacheInv /\ Tick => FragCacheInv'
<1>. SUFFICES ASSUME FragCacheInv, Tick PROVE FragCacheInv'
  OBVIOUS
<1>1. clock' = clock + 1 /\ clock \in Nat /\ UNCHANGED <<places, cache, assembled>>
  BY DEF Tick, FragCacheInv
<1>2. Sound(cache, clock)
  BY DEF FragCacheInv
<1>3. \A i \in LiveIn(cache) : cache.map[i].creation_time \in Nat
  BY <1>2, Fields DEF Sound, Ring, LiveIn
<1>4. Aged(cache, clock + 1)
  BY <1>1, <1>2, <1>3 DEF Sound, Aged
<1>5. Sound(cache, clock + 1)
  BY <1>2, <1>4 DEF Sound
<1>. QED  BY <1>1, <1>5 DEF FragCacheInv, Placed

\* The cache begins empty.
LEMMA FragCacheInitInv == FragCacheInit => FragCacheInv
<1>. SUFFICES ASSUME FragCacheInit PROVE FragCacheInv
  OBVIOUS
<1>1. clock = 0 /\ cache = New /\ assembled = <<>>
  BY DEF FragCacheInit
<1>2. Placed
  BY DEF FragCacheInit, Placed
<1>3. PICK m, fr, mi : /\ m = [i \in Entries |-> Vacant] /\ fr = [s \in Slots |-> Nothing] /\ mi = [s \in Slots |-> Nothing]
                       /\ cache = [first_unused |-> 0, unused_size |-> RingSize, map |-> m, frags |-> fr, map_idx |-> mi]
  BY <1>1 DEF New
<1>4. Vacant \in EntryRecords /\ Vacant.key = Nothing /\ 0 \in Slots
  BY Sizes DEF Vacant, EntryRecords, Slots
<1>5. cache \in Caches
  BY <1>3, <1>4, Sizes DEF Caches
<1>6. LiveIn(cache) = {}
  BY <1>3, <1>4 DEF LiveIn
<1>7. Indexed(cache) /\ HeldOnly(cache)
  BY <1>3, <1>5, <1>6, Fields DEF Indexed, HeldOnly
<1>8. FirstTaken(cache)
  BY <1>3, Sizes DEF FirstTaken
<1>9. InUse(cache) /\ Holding(cache) /\ Aged(cache, clock)
  BY <1>6 DEF InUse, Holding, Aged
<1>. QED  BY <1>1, <1>2, <1>5, <1>7, <1>8, <1>9 DEF FragCacheInv, Sound, Ring, Whole

\* Service and assemble preserve the invariant.
LEMMA FragCacheStep == FragCacheInv /\ [FragCacheNext]_fragCacheVars => FragCacheInv'
<1>. SUFFICES ASSUME FragCacheInv, [FragCacheNext]_fragCacheVars PROVE FragCacheInv'
  OBVIOUS
<1>0. clock \in Nat /\ Placed /\ Sound(cache, clock)
  BY DEF FragCacheInv
<1>1. CASE Tick
  BY <1>1, TickInv
<1>2. CASE Service
  <2>1. PICK now \in 0 .. clock : cache' = CheckForExpiry(cache, AssemblyTimeout, now)
    BY <1>2 DEF Service
  <2>2. Sound(cache', clock)
    BY <1>0, <2>1, ExpirySound
  <2>3. assembled' = <<>> /\ UNCHANGED <<clock, places>>
    BY <1>2 DEF Service
  <2>4. \E p : Whole(assembled', p)
    BY <2>3 DEF Whole
  <2>. QED  BY <1>0, <2>2, <2>3, <2>4 DEF FragCacheInv, Placed
<1>3. ASSUME NEW p \in Packets, NEW no \in 0 .. MaxFragments, NEW count \in 2 .. MaxFragments + 1,
             NEW size \in 1 .. MaxSize, Assemble(p, no, count, size)
      PROVE  FragCacheInv'
  <2>1. no \in Nat /\ count \in Nat /\ size \in Nat
    BY Sizes
  <2>2. Sound(cache', clock) /\ Whole(assembled', p) /\ UNCHANGED <<clock, places>>
    BY <1>0, <1>3, <2>1, AssembleSound
  <2>. QED  BY <1>0, <2>2 DEF FragCacheInv, Placed
<1>4. CASE UNCHANGED fragCacheVars
  BY <1>4 DEF fragCacheVars, FragCacheInv, Placed
<1>. QED  BY <1>1, <1>2, <1>3, <1>4 DEF FragCacheNext

\* The invariant holds throughout.
LEMMA FragCacheInvariance == FragCacheSpec => []FragCacheInv
  BY FragCacheInitInv, FragCacheStep, PTL DEF FragCacheSpec

-----------------------------------------------------------------------------

\* RingConsistent: for every size of the table and the ring and whatever fragments come, the two
\* counters describe the ring, no two entries overlap and the first slot in use is taken, which
\* check_for_expiry_inner relies on.
THEOREM RingConsistentHolds == FragCacheSpec => []RingConsistent
<1>1. ASSUME FragCacheInv PROVE RingConsistent
  <2>0. Ring(cache) /\ cache \in Caches /\ Live = LiveIn(cache)
    BY <1>1 DEF FragCacheInv, Sound, Ring, Live, LiveIn
  <2>1. PICK fu, un, used : /\ fu = cache.first_unused /\ un = cache.unused_size
                            /\ used = {After(FirstUsed(cache), n) : n \in 0 .. RingSize - un - 1}
    OBVIOUS
  <2>2. fu \in Slots /\ un \in 0 .. RingSize
    BY <2>0, <2>1, Fields
  <2>3. ASSUME NEW s \in Slots, cache.map_idx[s] # Nothing PROVE s \in used
    <3>1. PICK i \in Entries : cache.map_idx[s] = i
      BY <2>0, <2>3, Fields
    <3>2. i \in LiveIn(cache) /\ s \in SlotsOf(cache.map[i])
      BY <2>0, <3>1 DEF Ring, Indexed
    <3>3. un <= Place(cache, i)
      BY <2>0, <2>1, <3>2 DEF Ring, InUse
    <3>4. PICK n : n = Distance(fu, s) - un
      OBVIOUS
    <3>5. Distance(fu, s) \in Slots /\ After(fu, Distance(fu, s)) = s
      BY <2>2, Distances
    <3>6. Place(cache, i) <= Distance(fu, s) /\ Place(cache, i) \in Slots
      BY <2>0, <2>1, <3>2, EntrySlots
    <3>7. n \in 0 .. RingSize - un - 1 /\ n \in 0 .. RingSize - un /\ un + n = Distance(fu, s)
      BY <2>2, <3>3, <3>4, <3>5, <3>6, Sizes DEF Slots
    <3>8. After(FirstUsed(cache), n) = After(fu, un + n)
      BY <2>0, <2>1, <3>7, FirstSlot
    <3>. QED  BY <2>1, <3>5, <3>7, <3>8
  <2>4. \A i \in Entries, s \in Slots : cache.map_idx[s] = i <=> i \in Live /\ s \in SlotsOf(cache.map[i])
    BY <2>0 DEF Ring, Indexed
  <2>5. ASSUME used # {} PROVE cache.map_idx[FirstUsed(cache)] # Nothing
    <3>1. un < RingSize
      BY <2>1, <2>2, <2>5, Sizes
    <3>. QED  BY <2>0, <2>1, <3>1 DEF Ring, FirstTaken
  <2>. QED  BY <2>1, <2>3, <2>4, <2>5 DEF RingConsistent
<1>. QED  BY <1>1, FragCacheInvariance, PTL

\* FragmentsOwned: a slot of the ring is initialised if and only if exactly one live entry has its
\* fragment, so that assemble and invalidate never read or drop what is not there, nor lose
\* what is.
THEOREM FragmentsOwnedHolds == FragCacheSpec => []FragmentsOwned
<1>1. ASSUME FragCacheInv, NEW s \in Slots, NEW owners,
             owners = {i \in Live : \E n \in cache.map[i].fragment_have : s = After(cache.map[i].frags_idx, n)}
      PROVE  (cache.frags[s] # Nothing) = (owners # {}) /\ Cardinality(owners) <= 1
  <2>0. Ring(cache) /\ cache \in Caches /\ Holding(cache) /\ HeldOnly(cache) /\ Live = LiveIn(cache)
    BY <1>1 DEF FragCacheInv, Sound, Ring, Live, LiveIn
  <2>1. ASSUME NEW i \in owners PROVE cache.frags[s] # Nothing /\ cache.map_idx[s] = i
    <3>1. i \in LiveIn(cache) /\ i \in Entries
      BY <1>1, <2>0 DEF LiveIn
    <3>2. PICK n \in cache.map[i].fragment_have : s = After(cache.map[i].frags_idx, n)
      BY <1>1
    <3>3. /\ n < cache.map[i].fragment_count
          /\ cache.frags[s] = [key |-> cache.map[i].key, no |-> n, count |-> cache.map[i].fragment_count]
      BY <2>0, <3>1, <3>2 DEF Holding
    <3>4. /\ n \in Nat /\ n \in 0 .. cache.map[i].fragment_count - 1 /\ cache.map[i].fragment_count \in Nat
          /\ cache.map[i].key \in Packets
      BY <2>0, <3>1, <3>2, <3>3, Fields, Sizes DEF LiveIn
    <3>5. cache.frags[s] # Nothing
      BY <3>3, <3>4, FragCacheAssumption
    <3>6. cache.map_idx[s] = i
      BY <2>0, <3>1, <3>2, <3>4, EntrySlots
    <3>. QED  BY <3>5, <3>6
  <2>2. cache.frags[s] # Nothing => owners # {}
    BY <1>1, <2>0 DEF HeldOnly
  <2>3. Cardinality(owners) <= 1
    <3>1. CASE owners = {}
      BY <3>1, FS_EmptySet
    <3>2. CASE owners # {}
      <4>1. PICK x : owners = {x}
        BY <2>1, <3>2
      <4>2. Cardinality({x}) = 1
        BY FS_Singleton
      <4>. QED  BY <4>1, <4>2
    <3>. QED  BY <3>1, <3>2
  <2>. QED  BY <2>1, <2>2, <2>3
<1>2. FragCacheInv => FragmentsOwned
  BY <1>1 DEF FragmentsOwned
<1>. QED  BY <1>2, FragCacheInvariance, PTL

\* AssembledWhole: what assemble hands out is every fragment of one packet, each once and in
\* order, though fragments come in any order, repeated, and with any count in their headers.
THEOREM AssembledWholeHolds == FragCacheSpec => []AssembledWhole
<1>1. ASSUME FragCacheInv PROVE AssembledWhole
  <2>1. PICK p : Whole(assembled, p)
    BY <1>1 DEF FragCacheInv
  <2>. QED  BY <2>1, WholeFirst DEF AssembledWhole
<1>. QED  BY <1>1, FragCacheInvariance, PTL

\* OldestFirst: the entry check_for_expiry_inner looks at is the oldest, so that none that is
\* expired stays behind a younger one.
THEOREM OldestFirstHolds == FragCacheSpec => []OldestFirst
<1>1. ASSUME FragCacheInv, NEW i \in Live
      PROVE  cache.map[cache.map_idx[FirstUsed(cache)]].creation_time <= cache.map[i].creation_time
  <2>0. Ring(cache) /\ cache \in Caches /\ Aged(cache, clock) /\ i \in LiveIn(cache) /\ i \in Entries
    BY <1>1 DEF FragCacheInv, Sound, Ring, Live, LiveIn
  <2>1. PICK f, un : f = cache.map_idx[FirstUsed(cache)] /\ un = cache.unused_size
    OBVIOUS
  <2>2. /\ un <= Place(cache, i) /\ Place(cache, i) + cache.map[i].fragment_count <= RingSize
        /\ 0 < cache.map[i].fragment_count
    BY <2>0, <2>1 DEF Ring, InUse
  <2>3. Place(cache, i) \in Slots
    BY <2>0, EntrySlots
  <2>4. un < RingSize
    <3>1. un \in 0 .. RingSize
      BY <2>0, <2>1, Fields
    <3>. QED  BY <2>2, <2>3, <3>1, Sizes DEF Slots
  <2>5. f \in LiveIn(cache) /\ Place(cache, f) = un
    BY <2>0, <2>1, <2>4, FirstEntry
  <2>. QED  BY <2>0, <2>1, <2>2, <2>5 DEF Aged
<1>2. FragCacheInv => OldestFirst
  BY <1>1 DEF OldestFirst
<1>. QED  BY <1>2, FragCacheInvariance, PTL

\* NotEvictedEarly: however full the cache is, no packet is dropped before a resend is due, as long
\* as the settings do not have fragments assembled in less time than that.
THEOREM NotEvictedEarlyHolds ==
    ASSUME ResendTime <= AssemblyTimeout
    PROVE  FragCacheSpec => NotEvictedEarly
<1>. DEFINE Stays(i) == \/ cache'.map[i].key = cache.map[i].key
                        \/ assembled' # <<>> /\ Head(assembled').key = cache.map[i].key
                        \/ cache.map[i].creation_time + ResendTime <= clock
<1>1. ASSUME FragCacheInv, [FragCacheNext]_fragCacheVars, NEW i \in Live PROVE Stays(i)
  <2>0. /\ clock \in Nat /\ Placed /\ Sound(cache, clock) /\ i \in LiveIn(cache)
        /\ cache.map[i].creation_time \in Nat
    BY <1>1, Fields DEF FragCacheInv, Sound, Ring, Live, LiveIn
  <2>1. CASE Tick \/ UNCHANGED fragCacheVars
    BY <2>1 DEF Tick, fragCacheVars
  <2>2. CASE Service
    <3>1. PICK now \in 0 .. clock : cache' = CheckForExpiry(cache, AssemblyTimeout, now)
      BY <2>2 DEF Service
    <3>2. KeptFrom(cache, cache', AssemblyTimeout, now)
      BY <2>0, <3>1, ExpirySound
    <3>3. cache'.map[i] = cache.map[i] \/ cache.map[i].creation_time + AssemblyTimeout <= now
      BY <2>0, <3>2 DEF KeptFrom, IsExpired
    <3>. QED  BY <2>0, <3>3, Sizes
  <2>3. ASSUME NEW p \in Packets, NEW no \in 0 .. MaxFragments, NEW count \in 2 .. MaxFragments + 1,
               NEW size \in 1 .. MaxSize, Assemble(p, no, count, size)
        PROVE  Stays(i)
    <3>1. no \in Nat /\ count \in Nat /\ size \in Nat
      BY Sizes
    <3>2. Whole(assembled', p) /\ Spared(cache, cache', p, ResendTime)
      BY <2>0, <2>3, <3>1, AssembleSound
    <3>3. assembled' # <<>> => Head(assembled').key = p
      BY <3>2, WholeFirst
    <3>. QED  BY <2>0, <3>2, <3>3 DEF Spared, IsExpired
  <2>. QED  BY <1>1, <2>1, <2>2, <2>3 DEF FragCacheNext
<1>2. FragCacheInv /\ [FragCacheNext]_fragCacheVars => [\A i \in Live : Stays(i)]_fragCacheVars
  BY <1>1
<1>. QED  BY <1>2, FragCacheInvariance, PTL DEF FragCacheSpec, NotEvictedEarly

=============================================================================
