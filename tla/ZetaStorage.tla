---------------------------- MODULE ZetaStorage -----------------------------
(***************************************************************************)
(* Zeta with a history of the application's storage: the ratchet states    *)
(* each peer has ever handed to save_ratchet_state, which survive all its  *)
(* restarts.  The storage of a peer is useful only as long as it holds a   *)
(* state that its other peer had too.                                      *)
(***************************************************************************)
EXTENDS Zeta

VARIABLE saved      \* saved[p]: the ratchet states that were ever in store[p]

storageVars == <<vars, saved>>

StorageInit == Init /\ saved = [p \in Peers |-> {Empty}]

\* The states a peer has in storage now.
Held(p) == {store[p].state1, store[p].state2} \ {None}

StorageNext == Next /\ saved' = [p \in Peers |-> saved[p] \cup Held(p)']

StorageSpec == StorageInit /\ [][StorageNext]_storageVars

\* When the initiator does not allow a downgrade, a peer never fills its storage with ratchet states
\* of handshakes the other one may know nothing of: one of those it has, the other one has saved too.
\* That is why received_x2_trans keeps the state Bob chose until Bob has confirmed the new one, and
\* received_k1_trans the previous one.  It holds through restarts of either side, handshakes given
\* up early, several handshakes at once and failing storage.
KeepsPeersRatchet ==
    InitiatorDisallowsDowngrade => \A p \in Peers : Held(p) \cap saved[Remote(p)] # {}

=============================================================================
