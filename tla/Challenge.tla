----------------------------- MODULE Challenge ------------------------------
(***************************************************************************)
(* Proof of address ownership for Hello packets: ChallengeContext of       *)
(* performance/src/challenge.rs at Bob, and the response that each Alice   *)
(* in state A1 keeps at the end of her X1.                                 *)
(*                                                                         *)
(* The MAC of counter c is the hash of c, the sender's address and Bob's   *)
(* salt, so it is modelled by these three values and only Bob makes one.   *)
(* A proof of work is a number never used before; the one in a null        *)
(* response solves nothing.  The network loses, duplicates and reorders,   *)
(* Alice may change address, Bob may restart.                              *)
(***************************************************************************)
EXTENDS Window, Process, FiniteSets

CONSTANTS
    Clients,        \* sessions in state A1
    Addresses,      \* remote_address of Context::receive
    MaxChallenges,  \* bound: challenges issued
    MaxPows,        \* bound: proofs of work drawn
    MaxMoves        \* bound: address changes and restarts

\* The window of challenge.rs skips u64::MAX ahead; no bound of the model reaches a wrap.
ASSUME ChallengeAssumption ==
    /\ {MaxChallenges, MaxPows, MaxMoves} \subseteq Nat
    /\ MaxChallenges < Modulus /\ MAX = Modulus - 1
    /\ IsFiniteSet(Clients)

VARIABLES
    counter,     \* ChallengeContext.counter
    window,      \* ChallengeContext.antireplay_window
    salt,        \* ChallengeContext.salt
    thread,      \* thread[t]: the X1 whose response t has verified but not yet recorded
    response,    \* response[a]: the last bytes of the X1 of client a
    address,     \* address[a]: where client a sends from
    wire,        \* packets that may still arrive
    pows,        \* proofs of work drawn so far
    moves,       \* address changes and restarts so far
    issued,      \* history: what was challenged
    accepted,    \* history: accepted[i]: how often a response to challenge i was accepted
    answered     \* history: answered[a]: the challenge client a answered last

alice == <<response, address, pows, answered>>
bob == <<counter, window, salt, thread, issued, accepted>>
vars == <<alice, bob, wire, moves>>

\* What a MAC is computed from, and what a challenge is: a counter, a salt and an address.
Challenges == [c : 0 .. MaxChallenges, salt : 0 .. MaxMoves, address : Addresses]

ASSUME NoneAssumption == None \notin Challenges

\* gen_null_response: no counter, no MAC, and a random number where the proof goes.
NullResponse(pow) == [c |-> 0, mac |-> None, pow |-> pow, solved |-> FALSE]

-----------------------------------------------------------------------------
(* Bob *)

\* Mutant: the address is left out of the MAC.
CreateMac_NoAddress(c, from) == [c |-> c, salt |-> salt, address |-> CHOOSE a \in Addresses : TRUE]

CreateMac(c, from) == [c |-> c, salt |-> salt, address |-> from]

\* The condition of process_hello, on a response r that came from address from.
Verified(from, r) == Check(window, r.c) /\ r.mac = CreateMac(r.c, from) /\ r.solved

\* process_hello accepts: the counter was checked, it is not yet recorded.
VerifyHello(t, x1) ==
    /\ thread[t] = None
    /\ Verified(x1.from, x1.response)
    /\ thread' = [thread EXCEPT ![t] = x1]
    /\ UNCHANGED <<alice, counter, window, salt, issued, accepted, wire, moves>>

\* The array after antireplay_window.update, whose verdict is not looked at.
RecordHello(x1) == Update(window, x1.response.c)

\* The rest of process_hello: the counter is recorded and the X1 goes on to received_x1_trans.
AcceptHello(t) ==
    LET x1 == thread[t] IN
    /\ x1 # None
    /\ window' = RecordHello(x1)
    /\ accepted' = [accepted EXCEPT
                       ![[c |-> x1.response.c, salt |-> salt, address |-> x1.from]] = @ + 1]
    /\ thread' = [thread EXCEPT ![t] = None]
    /\ UNCHANGED <<alice, counter, salt, issued, wire, moves>>

\* process_hello refuses and the reply is a new challenge that echoes the proof of work.
ChallengeHello(t, x1) ==
    /\ thread[t] = None
    /\ counter < MaxChallenges
    /\ ~Verified(x1.from, x1.response)
    /\ counter' = counter + 1
    /\ issued' = issued \cup {[c |-> counter, salt |-> salt, address |-> x1.from]}
    /\ wire' = wire \cup {[type |-> "Challenge", to |-> x1.from, client |-> x1.client, c |-> counter,
                         mac |-> CreateMac(counter, x1.from), pow |-> x1.response.pow]}
    /\ UNCHANGED <<alice, window, salt, thread, accepted, moves>>

\* Bob's process is replaced: a new ChallengeContext with a new salt.
Restart ==
    /\ moves < MaxMoves
    /\ moves' = moves + 1
    /\ counter' = 0
    /\ window' = NewWindow
    /\ salt' = salt + 1
    /\ thread' = [t \in Threads |-> None]
    /\ UNCHANGED <<alice, issued, accepted, wire>>

-----------------------------------------------------------------------------
(* Alice *)

\* create_a1_state and every resend of it.
SendX1(a) ==
    /\ wire' = wire \cup {[type |-> "X1", from |-> address[a], client |-> a, response |-> response[a]]}
    /\ UNCHANGED <<alice, bob, moves>>

\* Mutant: a challenge is answered whatever proof of work it echoes.
AnswersChallenge_Any(a, p) == TRUE

\* respond_to_challenge_in_place: only a challenge to the X1 as it is now is answered.
AnswersChallenge(a, p) == p.pow = response[a].pow

ReceiveChallenge(a, p) ==
    /\ p.client = a /\ p.to = address[a]
    /\ AnswersChallenge(a, p)
    /\ pows < MaxPows
    /\ pows' = pows + 1
    /\ response' = [response EXCEPT ![a] = [c |-> p.c, mac |-> p.mac, pow |-> pows', solved |-> TRUE]]
    /\ answered' = [answered EXCEPT ![a] = p.mac]
    /\ UNCHANGED <<address, bob, wire, moves>>

\* timeout_trans in A1: a new X1 with a null response.
TimeoutX1(a) ==
    /\ pows < MaxPows
    /\ pows' = pows + 1
    /\ response' = [response EXCEPT ![a] = NullResponse(pows')]
    /\ UNCHANGED <<address, answered, bob, wire, moves>>

\* Client a is seen from another address.
Move(a, to) ==
    /\ moves < MaxMoves /\ to # address[a]
    /\ moves' = moves + 1
    /\ address' = [address EXCEPT ![a] = to]
    /\ UNCHANGED <<response, pows, answered, bob, wire>>

-----------------------------------------------------------------------------

\* Different clients drew different numbers for their first X1.
FirstPow == CHOOSE f \in [Clients -> 1 .. Cardinality(Clients)] :
                \A a, b \in Clients : f[a] = f[b] => a = b

Init ==
    /\ counter = 0 /\ window = NewWindow /\ salt = 0
    /\ thread = [t \in Threads |-> None]
    /\ response = [a \in Clients |-> NullResponse(FirstPow[a])]
    /\ pows = Cardinality(Clients)
    /\ address \in [Clients -> Addresses]
    /\ wire = {} /\ moves = 0
    /\ issued = {}
    /\ accepted = [i \in Challenges |-> 0]
    /\ answered = [a \in Clients |-> None]

Next ==
    \/ \E t \in Threads, p \in wire :
        /\ p.type = "X1"
        /\ VerifyHello(t, p) \/ ChallengeHello(t, p)
    \/ \E t \in Threads : AcceptHello(t)
    \/ Restart
    \/ \E a \in Clients :
        \/ SendX1(a)
        \/ TimeoutX1(a)
        \/ \E p \in wire : p.type = "Challenge" /\ ReceiveChallenge(a, p)
        \/ \E to \in Addresses : Move(a, to)

Spec == Init /\ [][Next]_vars

-----------------------------------------------------------------------------

\* An X1 that process_hello lets through came from an address to which Bob, with his present
\* salt, sent the challenge it answers: the MAC binds counter, address and salt, whoever
\* moves, replays an old response or outlives Bob's restart.
AddressProven == \A i \in Challenges : accepted[i] > 0 => i \in issued

\* "This is so that Bob will only accept Alice's response once" (proto.rs:109), of however many
\* threads that receive copies of it.
AcceptedOnce == \A i \in Challenges : accepted[i] <= 1

\* What process_hello does guarantee: a response that was accepted is never again found good,
\* however late and often it is repeated.  Only threads that verify it at the same moment all
\* accept it, as the verdict of update is not looked at.
NotVerifiedAgain ==
    [][\A t \in Threads :
        LET x1 == thread'[t] IN
        thread[t] = None /\ x1 # None =>
            accepted[[c |-> x1.response.c, salt |-> salt, address |-> x1.from]] = 0]_vars

\* The challenges a client answers are ever newer, across duplicated, reordered and delayed
\* challenges, its own timeouts and Bob's restarts: respond_to_challenge_in_place never
\* replaces a response by the response to an older challenge.
AnswersAdvance ==
    [][\A a \in Clients : answered[a] # None /\ answered'[a] # answered[a] =>
           \/ answered'[a].salt > answered[a].salt
           \/ answered'[a].salt = answered[a].salt /\ answered'[a].c > answered[a].c]_vars

\* A client that answered a challenge is not challenged again before its time: its response
\* verifies unless it was accepted already or a challenge L or more later has been accepted.
AnswerVerifies ==
    \A a \in Clients :
        LET r == response[a] IN
        r.mac # None /\ r.mac.salt = salt /\ r.mac.address = address[a] =>
            \/ Verified(address[a], r)
            \/ accepted[r.mac] > 0
            \/ \E i \in Challenges : accepted[i] > 0 /\ i.salt = salt /\ i.c >= r.c + L

=============================================================================
