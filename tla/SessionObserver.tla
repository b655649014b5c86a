--------------------------- MODULE SessionObserver ---------------------------
(***************************************************************************)
(* Two questions a runtime answers about a session without taking part in  *)
(* its turns: wait_inactive (runtime/_session.py) and                      *)
(* lookup_session_admission (runtime/_execution.py).  Each reads the       *)
(* source, the tables of its own runtime and the live authority at         *)
(* different times, while the turns of PendingTurn go on.                  *)
(***************************************************************************)
EXTENDS PendingTurn

CONSTANTS
    Here,  \* the runtime the observer belongs to
    Asked  \* the request a lookup is about

ASSUME ObserverAssumption == Asked \in Requests

VARIABLES
    moved,    \* _session_membership_epoch is no longer what wait_inactive captured
    phase,    \* the next read of the observation, or its answer; "off" when
              \* nobody asks
    session,  \* the session record read first: its active execution and revision
    row,      \* the row of that execution, as first read
    pending,  \* the local turn a lookup found
    witness   \* ghost: the answer "inactive", or "absent", was true at some
              \* moment since the observation began

observerVars == <<moved, phase, session, row, pending, witness>>

NoSession == [active |-> NoTurn, revision |-> 0]

Locals == {t \in Turns : RuntimeOf(t) = Here /\ admitted[t]}

\* The session has no active execution and no live pending admission.
Inactive == source.session.active = NoTurn /\ owner = NoTurn /\ Locals = {}

\* Nothing holds the request, durably or alive.
Unclaimed ==
    /\ source.identity[Asked] = NoTurn
    /\ owner # NoTurn => RequestOf(owner) # Asked

\* wait_inactive has looked at the local turns once.
Confirming == phase \in {"execution", "owner", "session again", "local again"}
AskingLookup == phase \in {"identity", "claim", "view", "identity again"}
Asking == phase = "local" \/ Confirming \/ AskingLookup

ObserverInit ==
    /\ Init
    /\ moved = FALSE
    /\ phase \in {"idle", "off"}
    /\ session = NoSession
    /\ row = "none"
    /\ pending = NoTurn
    /\ witness = FALSE

-----------------------------------------------------------------------------
(* wait_inactive: observe_once. *)

\* read_session.
ReadSession ==
    /\ phase = "idle"
    /\ phase' = "local"
    /\ session' = [active |-> source.session.active, revision |-> source.session.revision]
    /\ witness' = Inactive
    /\ UNCHANGED <<vars, moved, row, pending>>

\* The answer is that the session is busy: the observer waits and starts over.
Busy ==
    /\ phase' = "idle"
    /\ session' = NoSession
    /\ row' = "none"
    /\ moved' = FALSE
    /\ witness' = FALSE
    /\ UNCHANGED pending

Proceed(p) == phase' = p /\ UNCHANGED <<moved, session, row, pending, witness>>

\* observe_session: a failed or uncertain turn is raised as its error.
ObserveLocal ==
    /\ phase = "local"
    /\ IF Locals = {}
       THEN /\ phase' = IF session.active = NoTurn THEN "owner" ELSE "execution"
            /\ moved' = FALSE
            /\ UNCHANGED <<session, row, pending, witness>>
       ELSE Busy
    /\ UNCHANGED vars

\* The active execution of the session, and whether it is already terminal.
ReadActive ==
    /\ phase = "execution"
    /\ IF source.rows[session.active] \in Terminal
       THEN /\ phase' = "owner"
            /\ row' = source.rows[session.active]
            /\ UNCHANGED <<moved, session, pending, witness>>
       ELSE Busy
    /\ UNCHANGED vars

\* The authority over the session, read from its live index.
ReadOwner ==
    /\ phase = "owner"
    /\ IF owner = NoTurn THEN Proceed("session again") ELSE Busy
    /\ UNCHANGED vars

\* The session must still be at the revision read first, and the terminal
\* execution it named as it was.
ConfirmSession ==
    /\ phase = "session again"
    /\ IF /\ source.session.revision = session.revision
          /\ session.active # NoTurn => source.rows[session.active] = row
       THEN Proceed("local again")
       ELSE Busy
    /\ UNCHANGED vars

\* As ConfirmLocal, but whether or not turns came and went.
ConfirmLocalAbsent ==
    /\ phase = "local again"
    /\ IF Locals = {} THEN Proceed("inactive") ELSE Busy
    /\ UNCHANGED vars

\* No local turn has come or gone since the first look.
ConfirmLocal ==
    /\ phase = "local again"
    /\ IF Locals = {} /\ ~moved THEN Proceed("inactive") ELSE Busy
    /\ UNCHANGED vars

-----------------------------------------------------------------------------
(* lookup_session_admission. *)

\* peek_request.
PeekRequest ==
    /\ phase = "idle"
    /\ phase' = "identity"
    /\ pending' \in IF \E t \in Locals : RequestOf(t) = Asked
                    THEN {t \in Locals : RequestOf(t) = Asked} ELSE {NoTurn}
    /\ witness' = Unclaimed
    /\ UNCHANGED <<vars, moved, session, row>>

\* The answer for a recorded identity; a local turn of another execution is
\* taken for damage.
Recorded(holder) == IF pending \in {NoTurn, holder} THEN "found" ELSE "mismatch"

ReadIdentity ==
    /\ phase = "identity"
    /\ LET holder == source.identity[Asked]
       IN Proceed(CASE holder # NoTurn -> Recorded(holder)
                    [] holder = NoTurn /\ pending = NoTurn -> "claim"
                    [] holder = NoTurn /\ pending # NoTurn ->
                          IF uncertain[pending] \/ failure[pending] # "none"
                          THEN "unknown" ELSE "found")
    /\ UNCHANGED vars

\* read_turn_by_request.
ReadClaim ==
    /\ phase = "claim"
    /\ Proceed(IF owner # NoTurn /\ RequestOf(owner) = Asked THEN "view" ELSE "identity again")
    /\ UNCHANGED vars

\* The owner's view may be missing, or its owner gone when confirmed.
ReadView ==
    /\ phase = "view"
    /\ \/ owner # NoTurn /\ RequestOf(owner) = Asked /\ Proceed("found")
       \/ Proceed("unknown")
    /\ UNCHANGED vars

\* The owner may have committed and released between the reads.
RereadIdentity ==
    /\ phase = "identity again"
    /\ Proceed(IF source.identity[Asked] = NoTurn THEN "absent"
               ELSE Recorded(source.identity[Asked]))
    /\ UNCHANGED vars

ObserverStep ==
    \/ ReadSession \/ ObserveLocal \/ ReadActive \/ ReadOwner
    \/ ConfirmSession \/ ConfirmLocal
    \/ PeekRequest \/ ReadIdentity \/ ReadClaim \/ ReadView \/ RereadIdentity

\* A step of the turns.  An admission or removal in this runtime moves the
\* epoch, and the ghost notes a moment at which the answer would be true.
TurnStep ==
    /\ Next
    /\ moved' = (moved \/ (Confirming /\ Locals' # Locals))
    /\ witness' = (witness \/ (Asking /\ IF AskingLookup THEN Unclaimed' ELSE Inactive'))
    /\ UNCHANGED <<phase, session, row, pending>>

ObserverNext == ObserverStep \/ TurnStep

ObserverSpec == ObserverInit /\ [][ObserverNext]_<<vars, observerVars>>

-----------------------------------------------------------------------------
(* Properties. *)

\* wait_inactive answers, and a lookup reports a request as absent, only if
\* there was one moment since the question at which the session was inactive,
\* or the request neither recorded nor claimed.  Neither reads the source, the
\* local tables and the authority at the same time, and an owner may commit
\* and release between two reads.
NegativesAtOnePoint == phase \in {"inactive", "absent"} => witness

=============================================================================
