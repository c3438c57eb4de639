--------------------------- MODULE SessionRegister ---------------------------
(***************************************************************************)
(* What the QUIC session manager promises, without opens, promises or      *)
(* native sessions: a register with an owner and at most one live session, *)
(* which is the owner's and never outlives a change of owner, and clients  *)
(* that are answered with a session of the identity they asked under, or   *)
(* with a failure.                                                         *)
(***************************************************************************)
CONSTANTS Dids, Callers, NoDid

VARIABLES
    owner,   \* the bound identity
    live,    \* the identity the live session speaks for, NoDid without one
    asked,   \* the identity each client asked under
    got      \* the identity its session speaks for, NoDid without an answer

regVars == <<owner, live, asked, got>>

Init ==
    /\ owner = NoDid /\ live = NoDid
    /\ asked = [c \in Callers |-> NoDid]
    /\ got = [c \in Callers |-> NoDid]

\* The register changes hands, and the live session goes with the old owner.
Rebind ==
    /\ owner' \in Dids \cup {NoDid}
    /\ owner' # owner
    /\ live' = NoDid
    /\ UNCHANGED <<asked, got>>

Establish ==
    /\ owner # NoDid
    /\ live' = owner
    /\ UNCHANGED <<owner, asked, got>>

Drop ==
    /\ live' = NoDid
    /\ UNCHANGED <<owner, asked, got>>

\* A client asks, and is answered at once if a session is live.
Ask(c) ==
    /\ asked' = [asked EXCEPT ![c] = owner]
    /\ got' = [got EXCEPT ![c] = live]
    /\ UNCHANGED <<owner, live>>

\* A client that had to wait is answered.
Answer(c) ==
    /\ got' = [got EXCEPT ![c] = asked[c]]
    /\ UNCHANGED <<owner, live, asked>>

Next == Rebind \/ Establish \/ Drop \/ \E c \in Callers : Ask(c) \/ Answer(c)

Spec == Init /\ [][Next]_regVars
=============================================================================
