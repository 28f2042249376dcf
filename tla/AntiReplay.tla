----------------------------- MODULE AntiReplay -----------------------------
(***************************************************************************)
(* Replay protection of one session's receive path: Session.window between *)
(* the early check of performance/src/zssp.rs and the update each handler  *)
(* of performance/src/zeta.rs makes once the packet is authenticated.      *)
(*                                                                         *)
(* Threads share the session (state is held by readers), so any number of  *)
(* packets, copies of one packet among them, are between their check and   *)
(* their update at once.  Anyone may send a packet with any counter; only  *)
(* the counters the peer used come with a payload that authenticates.      *)
(***************************************************************************)
EXTENDS Window, Process

CONSTANT LastCounter   \* THREAD_SAFE_COUNTER_HARD_EXPIRE: the last counter a peer uses

ASSUME AntiReplayAssumption == LastCounter \in Counters /\ None \notin Counters

VARIABLES
    window,      \* Session.window
    checked,     \* checked[t]: the counter that passed t's check, until its update
    sent,        \* the peer has used the counters below sent
    delivered,   \* history: delivered[c] packets with counter c were accepted
    rejected     \* history: the counters an update refused

antiReplayVars == <<window, checked, sent, delivered, rejected>>

AntiReplayInit ==
    /\ window = NewWindow
    /\ checked = [t \in Threads |-> None]
    /\ sent = 0
    /\ delivered = [c \in Counters |-> 0]
    /\ rejected = {}

\* get_counter at the peer: a counter is used once, in order.
Send ==
    /\ sent <= LastCounter
    /\ sent' = sent + 1
    /\ UNCHANGED <<window, checked, delivered, rejected>>

\* Context::receive on a packet with counter c.  A packet that fails is dropped at once.
ReceiveCheck(t, c) ==
    /\ checked[t] = None
    /\ Check(window, c)
    /\ checked' = [checked EXCEPT ![t] = c]
    /\ UNCHANGED <<window, sent, delivered, rejected>>

\* The handler cannot decrypt the packet: the window is left alone.
FailedAuth(t) ==
    /\ checked[t] # None
    /\ checked' = [checked EXCEPT ![t] = None]
    /\ UNCHANGED <<window, sent, delivered, rejected>>

\* Mutant: the handler trusts the early check and ignores the verdict of update.
Delivers_Ignored(c) == TRUE

\* window.update lets the packet through.
Delivers(c) == Check(window, c)

\* The handler authenticates the packet, records its counter and acts on the verdict.
Authenticated(t) ==
    LET c == checked[t] IN
    /\ c # None /\ c < sent
    /\ window' = Update(window, c)
    /\ delivered' = IF Delivers(c) THEN [delivered EXCEPT ![c] = @ + 1] ELSE delivered
    /\ rejected' = IF Delivers(c) THEN rejected ELSE rejected \cup {c}
    /\ checked' = [checked EXCEPT ![t] = None]
    /\ UNCHANGED sent

AntiReplayNext ==
    \/ Send
    \/ \E t \in Threads :
        \/ \E c \in Counters : ReceiveCheck(t, c)
        \/ FailedAuth(t)
        \/ Authenticated(t)

AntiReplaySpec == AntiReplayInit /\ [][AntiReplayNext]_antiReplayVars

-----------------------------------------------------------------------------

AntiReplayTypeOK ==
    /\ window \in Windows
    /\ checked \in [Threads -> Counters \cup {None}]
    /\ sent \in 0 .. LastCounter + 1
    /\ delivered \in [Counters -> Nat]
    /\ rejected \subseteq Counters

\* However many threads hold copies of a packet that all passed the early check,
\* a counter is accepted at most once: the fetch_max of Window::update decides.
NoReplay == \A c \in Counters : delivered[c] <= 1

\* The window never costs an authentic packet that is less than L counters behind: one
\* that passed the check and is refused by update is a copy of an accepted packet, or a
\* packet with a counter at least L further on was accepted in the meantime.
RefusedOnlyIfLate ==
    \A c \in rejected :
        \/ delivered[c] > 0
        \/ \E d \in Counters : delivered[d] > 0 /\ d >= c + L

\* The inductive invariant behind both: a slot holds the largest accepted counter of its
\* residue class.
SlotsRecord ==
    /\ \A c \in Counters : delivered[c] > 0 => window[Slot(c)] > c
    /\ \A i \in 0 .. L - 1 : window[i] > 0 =>
           delivered[window[i] - 1] > 0 /\ Slot(window[i] - 1) = i

=============================================================================
