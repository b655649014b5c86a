--------------------------- MODULE TurnCoordination ---------------------------
(***************************************************************************)
(* Live turns: which runtime may work on a session.  The coordination      *)
(* backend (InMemoryCacheBackend, storage/_cache.py) grants a session to   *)
(* one scope for a while; RenewingTurnScope (storage/_turn_scope.py)       *)
(* claims it, renews it, notices that it is lost or cancelled, and         *)
(* releases it.  Each backend call is one step, taken under the backend's  *)
(* lock, but its answer reaches the scope in a later step, and time may    *)
(* pass before, between and after them.  A scope is entered once and its   *)
(* owner_id and lease are fresh, so the lease is named by the scope.       *)
(***************************************************************************)
EXTENDS Naturals, Functions

CONSTANTS
    Scopes,    \* RenewingTurnScope objects
    NoScope,   \* nobody
    Identities,\* what the scopes may name: a session, a request, a digest and
               \* an execution each
    Lease      \* lease_seconds, in ticks

ASSUME ScopesAssumption == NoScope \notin Scopes
ASSUME IdentityAssumption ==
    \A i \in Identities : DOMAIN i = Scopes
        /\ \A s \in Scopes : DOMAIN i[s] = {"session", "request", "digest", "execution"}
ASSUME LeaseAssumption == Lease \in Nat \ {0}

VARIABLES
    identity,  \* scope -> what it names; never changes
    backend,   \* _turns, _turn_requests and _turn_executions
    phase,     \* where the entering task of a scope is
    outcome,   \* what its claim brought
    interrupted, \* the entering task was cancelled while it waited
    left,      \* ticks to _deadline, 0 when it has passed
    lost,      \* _lost
    renewal,   \* where the renewal task is
    candidate, \* ticks to the deadline a renewal under way will install
    answer,    \* what the backend answered the renewal
    cancel,    \* _cancel_requested
    delivered, \* _cancel_delivered
    signal,    \* _signal
    monitor    \* where the caller of wait_signal is

claimVars == <<phase, outcome, interrupted>>
renewVars == <<renewal, candidate, answer>>
signalVars == <<cancel, delivered, signal, monitor>>
vars == <<identity, backend, claimVars, left, lost, renewVars, signalVars>>

Sessions == {i[s].session : i \in Identities, s \in Scopes}
Requests == {i[s].request : i \in Identities, s \in Scopes}
Executions == {i[s].execution : i \in Identities, s \in Scopes}

\* "closed" is a regular end; "abandoned" one whose release failed; "unknown"
\* one whose claim failed with nobody knowing whether it was applied.
Phase == {"new", "claiming", "answered", "entered", "exiting", "closed", "abandoned", "unknown"}
Outcome == {"none", "granted", "replay", "busy", "raised"}
Renewal == {"off", "sleeping", "sent", "answered", "orphan"}
Answer == {"none", "renewed", "cancel", "gone"}
Monitor == {"away", "parked", "done"}

Empty == [k \in {} |-> NoScope]

Init ==
    /\ identity \in Identities
    /\ backend = [turns |-> Empty, requests |-> Empty, executions |-> Empty]
    /\ phase = [s \in Scopes |-> "new"]
    /\ outcome = [s \in Scopes |-> "none"]
    /\ interrupted = [s \in Scopes |-> FALSE]
    /\ left = [s \in Scopes |-> 0]
    /\ lost = [s \in Scopes |-> FALSE]
    /\ renewal = [s \in Scopes |-> "off"]
    /\ candidate = [s \in Scopes |-> 0]
    /\ answer = [s \in Scopes |-> "none"]
    /\ cancel = [s \in Scopes |-> FALSE]
    /\ delivered = [s \in Scopes |-> FALSE]
    /\ signal = [s \in Scopes |-> FALSE]
    /\ monitor = [s \in Scopes |-> "away"]

-----------------------------------------------------------------------------
(* The backend. *)

\* _discard_turn, for the turns of the sessions in K: each goes with its
\* entries in the two indexes.
Discard(b, K) ==
    LET ids == {identity[b.turns[k].scope] : k \in K}
    IN [turns |-> Restrict(b.turns, DOMAIN b.turns \ K),
        requests |-> Restrict(b.requests, DOMAIN b.requests \ {i.request : i \in ids}),
        executions |-> Restrict(b.executions, DOMAIN b.executions \ {i.execution : i \in ids})]

\* _expire_turns, which every call runs first.
Current(b) == Discard(b, {k \in DOMAIN b.turns : b.turns[k].ttl = 0})

\* Whether s is the owner the backend knows.
Owns(b, s) ==
    LET k == identity[s].session IN k \in DOMAIN b.turns /\ b.turns[k].scope = s

\* What claim_turn answers: an earlier claim of the request is replayed without
\* its lease, or is in conflict when it named another session or digest; an
\* execution owns one turn; a session with a live turn is busy.
ClaimOutcome(b, s) ==
    LET i == identity[s]
        previous == identity[b.turns[b.requests[i.request]].scope]
    IN CASE i.request \in DOMAIN b.requests ->
                IF previous.session = i.session /\ previous.digest = i.digest
                THEN "replay" ELSE "raised"
         [] i.request \notin DOMAIN b.requests /\ i.execution \in DOMAIN b.executions -> "raised"
         [] i.request \notin DOMAIN b.requests /\ i.execution \notin DOMAIN b.executions ->
                IF i.session \in DOMAIN b.turns THEN "busy" ELSE "granted"

With(f, x, y) == [z \in DOMAIN f \cup {x} |-> IF z = x THEN y ELSE f[z]]

\* The backend after claim_turn.
Claimed(b, s) ==
    LET i == identity[s]
    IN IF ClaimOutcome(b, s) # "granted" THEN b
       ELSE [turns |-> With(b.turns, i.session, [scope |-> s, ttl |-> Lease, cancel |-> FALSE]),
             requests |-> With(b.requests, i.request, i.session),
             executions |-> With(b.executions, i.execution, i.session)]

\* The backend after renew_turn of the lease of s.
Renewed(b, s) ==
    IF Owns(b, s) THEN [b EXCEPT !.turns[identity[s].session].ttl = Lease] ELSE b

\* The backend after release_turn of the lease of s.
Released(b, s) == IF Owns(b, s) THEN Discard(b, {identity[s].session}) ELSE b

\* read_turn, read_turn_by_request, read_turn_by_session.
ReadTurn ==
    /\ backend' = Current(backend)
    /\ UNCHANGED <<claimVars, left, lost, renewVars, signalVars>>

\* cancel_turn, asked by anybody.
CancelTurn(x) ==
    LET b == Current(backend)
    IN /\ backend' = IF x \in DOMAIN b.executions
                     THEN [b EXCEPT !.turns[b.executions[x]].cancel = TRUE] ELSE b
       /\ UNCHANGED <<claimVars, left, lost, renewVars, signalVars>>

-----------------------------------------------------------------------------
(* Entering a scope. *)

\* __aenter__ up to its wait: the deadline starts before the claim is sent.
BeginEnter(s) ==
    /\ phase[s] = "new"
    /\ phase' = [phase EXCEPT ![s] = "claiming"]
    /\ left' = [left EXCEPT ![s] = Lease]
    /\ UNCHANGED <<backend, outcome, interrupted, lost, renewVars, signalVars>>

\* claim_turn.
ClaimTurn(s) ==
    /\ phase[s] = "claiming"
    /\ outcome' = [outcome EXCEPT ![s] = ClaimOutcome(Current(backend), s)]
    /\ backend' = Claimed(Current(backend), s)
    /\ phase' = [phase EXCEPT ![s] = "answered"]
    /\ UNCHANGED <<interrupted, left, lost, renewVars, signalVars>>

\* The call fails, applied or not; the failure propagates.
ClaimFails(s) ==
    /\ phase[s] = "claiming"
    /\ backend' \in {backend, Claimed(Current(backend), s)}
    /\ phase' = [phase EXCEPT ![s] = "unknown"]
    /\ UNCHANGED <<outcome, interrupted, left, lost, renewVars, signalVars>>

\* The entering task is cancelled; the shielded claim goes on.
CancelEnter(s) ==
    /\ phase[s] \in {"claiming", "answered"}
    /\ interrupted' = [interrupted EXCEPT ![s] = TRUE]
    /\ UNCHANGED <<backend, phase, outcome, left, lost, renewVars, signalVars>>

\* As Enter, but the deadline starts when the answer arrives.
EnterFresh(s) ==
    /\ phase' = [phase EXCEPT ![s] = "entered"]
    /\ left' = [left EXCEPT ![s] = Lease]
    /\ renewal' = [renewal EXCEPT ![s] = IF outcome[s] = "granted" THEN "sleeping" ELSE "off"]
    /\ UNCHANGED <<lost, signal>>

\* The scope becomes the caller's: it has lost already if the answer was late.
Enter(s) ==
    LET late == outcome[s] = "granted" /\ left[s] = 0
    IN /\ phase' = [phase EXCEPT ![s] = "entered"]
       /\ lost' = [lost EXCEPT ![s] = late]
       /\ signal' = [signal EXCEPT ![s] = late]
       /\ renewal' = [renewal EXCEPT ![s] =
                         IF outcome[s] = "granted" /\ ~late THEN "sleeping" ELSE "off"]
       /\ UNCHANGED left

\* _closed is set: waiters wake up to an error, and nothing else that the scope
\* remembered is looked at again.
Close(s) ==
    /\ phase' = [phase EXCEPT ![s] = "exiting"]
    /\ signal' = [signal EXCEPT ![s] = TRUE]
    /\ interrupted' = [interrupted EXCEPT ![s] = FALSE]
    /\ left' = [left EXCEPT ![s] = 0]
    /\ lost' = [lost EXCEPT ![s] = FALSE]
    /\ cancel' = [cancel EXCEPT ![s] = FALSE]
    /\ delivered' = [delivered EXCEPT ![s] = FALSE]

\* As FinishEnter, but a cancelled task raises at once.
FinishEnterRaising(s) ==
    /\ phase[s] = "answered"
    /\ \/ /\ outcome[s] = "raised" \/ interrupted[s]
          /\ phase' = [phase EXCEPT ![s] = "closed"]
          /\ UNCHANGED <<interrupted, left, lost, signal, renewal, cancel, delivered>>
       \/ /\ outcome[s] # "raised" /\ ~interrupted[s] /\ Enter(s)
          /\ UNCHANGED <<interrupted, cancel, delivered>>
    /\ UNCHANGED <<backend, outcome, candidate, answer, monitor>>

\* __aenter__ after its wait.  A refused claim raises; a cancelled task leaves
\* through __aexit__ with whatever it got.
FinishEnter(s) ==
    /\ phase[s] = "answered"
    /\ \/ /\ outcome[s] = "raised"
          /\ phase' = [phase EXCEPT ![s] = "closed"]
          /\ UNCHANGED <<interrupted, left, lost, signal, renewal, cancel, delivered>>
       \/ outcome[s] # "raised" /\ interrupted[s] /\ Close(s) /\ UNCHANGED renewal
       \/ /\ outcome[s] # "raised" /\ ~interrupted[s] /\ Enter(s)
          /\ UNCHANGED <<interrupted, cancel, delivered>>
    /\ UNCHANGED <<backend, outcome, candidate, answer, monitor>>

-----------------------------------------------------------------------------
(* An entered scope. *)

Owned(s) == phase[s] = "entered" /\ outcome[s] = "granted"

\* require_active does not raise.
Active(s) == Owned(s) /\ ~lost[s] /\ left[s] > 0

\* _lose: the timer of the deadline, or a check that finds it passed.
Lose(s) ==
    /\ Owned(s) /\ ~lost[s] /\ left[s] = 0
    /\ lost' = [lost EXCEPT ![s] = TRUE]
    /\ signal' = [signal EXCEPT ![s] = TRUE]
    /\ UNCHANGED <<backend, claimVars, left, renewVars, cancel, delivered, monitor>>

\* The renewal task gives up: authority is lost for good.
RenewalEnds(s) ==
    /\ renewal' = [renewal EXCEPT ![s] = "off"]
    /\ lost' = [lost EXCEPT ![s] = TRUE]
    /\ signal' = [signal EXCEPT ![s] = TRUE]

\* _renew after its sleep: the new deadline starts before the call is sent.
BeginRenewal(s) ==
    /\ Owned(s) /\ renewal[s] = "sleeping"
    /\ IF Active(s)
       THEN /\ renewal' = [renewal EXCEPT ![s] = "sent"]
            /\ candidate' = [candidate EXCEPT ![s] = Lease]
            /\ UNCHANGED <<lost, signal>>
       ELSE RenewalEnds(s) /\ UNCHANGED candidate
    /\ UNCHANGED <<backend, claimVars, left, answer, cancel, delivered, monitor>>

\* renew_turn, for a scope that waits for it or that was closed meanwhile.
RenewTurn(s) ==
    LET b == Current(backend)
    IN /\ renewal[s] \in {"sent", "orphan"}
       /\ backend' = Renewed(b, s)
       /\ renewal' = [renewal EXCEPT ![s] = IF renewal[s] = "sent" THEN "answered" ELSE "off"]
       /\ answer' = [answer EXCEPT ![s] =
                        IF renewal[s] = "orphan" THEN "none"
                        ELSE IF ~Owns(b, s) THEN "gone"
                        ELSE IF b.turns[identity[s].session].cancel THEN "cancel" ELSE "renewed"]
       /\ UNCHANGED <<claimVars, left, lost, candidate, signalVars>>

\* The renewal fails, applied or not.
RenewFails(s) ==
    /\ renewal[s] = "sent"
    /\ backend' \in {backend, Renewed(Current(backend), s)}
    /\ RenewalEnds(s)
    /\ UNCHANGED <<claimVars, left, candidate, answer, cancel, delivered, monitor>>

\* _renew after its answer: a late one does not bring authority back.
FinishRenewal(s) ==
    /\ renewal[s] = "answered"
    /\ IF Active(s) /\ answer[s] # "gone" /\ candidate[s] > 0
       THEN /\ left' = [left EXCEPT ![s] = candidate[s]]
            /\ cancel' = [cancel EXCEPT ![s] = @ \/ answer[s] = "cancel"]
            /\ signal' = [signal EXCEPT ![s] = @ \/ answer[s] = "cancel"]
            /\ renewal' = [renewal EXCEPT ![s] = "sleeping"]
            /\ UNCHANGED lost
       ELSE RenewalEnds(s) /\ UNCHANGED <<left, cancel>>
    /\ answer' = [answer EXCEPT ![s] = "none"]
    /\ candidate' = [candidate EXCEPT ![s] = 0]
    /\ UNCHANGED <<backend, claimVars, delivered, monitor>>

\* One turn of the loop of wait_signal, at its call or when the event is set.
WaitSignal(s) ==
    LET over == ~Owned(s) \/ lost[s] \/ left[s] = 0
        news == cancel[s] /\ ~delivered[s]
    IN /\ phase[s] \in {"entered", "exiting", "closed", "abandoned"} /\ outcome[s] = "granted"
       /\ monitor[s] = "away" \/ (monitor[s] = "parked" /\ signal[s])
       /\ monitor' = [monitor EXCEPT ![s] =
                         IF over THEN "done" ELSE IF news THEN "away" ELSE "parked"]
       /\ lost' = [lost EXCEPT ![s] = @ \/ (Owned(s) /\ left[s] = 0)]
       /\ delivered' = [delivered EXCEPT ![s] = @ \/ (~over /\ news)]
       /\ signal' = [signal EXCEPT ![s] = IF over THEN TRUE ELSE news /\ @]
       /\ UNCHANGED <<backend, claimVars, left, renewVars, cancel>>

-----------------------------------------------------------------------------
(* Leaving a scope. *)

\* __aexit__ up to its cleanup: the scope is closed and its renewal task ended;
\* a renewal already sent may still reach the backend.
BeginExit(s) ==
    /\ phase[s] = "entered"
    /\ Close(s)
    /\ renewal' = [renewal EXCEPT ![s] = IF @ = "sent" THEN "orphan" ELSE "off"]
    /\ answer' = [answer EXCEPT ![s] = "none"]
    /\ candidate' = [candidate EXCEPT ![s] = 0]
    /\ UNCHANGED <<backend, outcome, monitor>>

\* The release at the end of _cleanup.
EndExit(s) ==
    /\ phase[s] = "exiting"
    /\ backend' = IF outcome[s] = "granted" THEN Released(Current(backend), s) ELSE backend
    /\ phase' = [phase EXCEPT ![s] = "closed"]
    /\ UNCHANGED <<outcome, interrupted, left, lost, renewVars, signalVars>>

\* It fails, applied or not; expiry remains.
ReleaseFails(s) ==
    /\ phase[s] = "exiting" /\ outcome[s] = "granted"
    /\ backend' \in {backend, Released(Current(backend), s)}
    /\ phase' = [phase EXCEPT ![s] = "abandoned"]
    /\ UNCHANGED <<outcome, interrupted, left, lost, renewVars, signalVars>>

Down(n) == IF n = 0 THEN 0 ELSE n - 1

Aged(turn) == [turn EXCEPT !.ttl = Down(@)]

\* Time passes, for the backend and for every scope.
Tick ==
    /\ backend' = [backend EXCEPT !.turns =
                      [k \in DOMAIN backend.turns |-> Aged(backend.turns[k])]]
    /\ left' = [s \in Scopes |-> Down(left[s])]
    /\ candidate' = [s \in Scopes |-> Down(candidate[s])]
    /\ UNCHANGED <<claimVars, lost, renewal, answer, signalVars>>

Step(s) ==
    \/ BeginEnter(s) \/ ClaimTurn(s) \/ ClaimFails(s) \/ CancelEnter(s) \/ FinishEnter(s)
    \/ Lose(s) \/ BeginRenewal(s) \/ RenewTurn(s) \/ RenewFails(s) \/ FinishRenewal(s)
    \/ WaitSignal(s) \/ BeginExit(s) \/ EndExit(s) \/ ReleaseFails(s)

Next ==
    /\ \/ \E s \in Scopes : Step(s)
       \/ \E x \in Executions : CancelTurn(x)
       \/ ReadTurn
       \/ Tick
    /\ UNCHANGED identity

Spec == Init /\ [][Next]_vars

-----------------------------------------------------------------------------
(* Properties. *)

\* Every variable has its type, an index never outgrows the sessions.
TypeOK ==
    /\ identity \in Identities
    /\ DOMAIN backend.turns \subseteq Sessions
    /\ \A k \in DOMAIN backend.turns :
          backend.turns[k] \in [scope : Scopes, ttl : 0..Lease, cancel : BOOLEAN]
    /\ DOMAIN backend.requests \subseteq Requests /\ Range(backend.requests) \subseteq Sessions
    /\ DOMAIN backend.executions \subseteq Executions /\ Range(backend.executions) \subseteq Sessions
    /\ phase \in [Scopes -> Phase]
    /\ outcome \in [Scopes -> Outcome]
    /\ interrupted \in [Scopes -> BOOLEAN]
    /\ left \in [Scopes -> 0..Lease]
    /\ lost \in [Scopes -> BOOLEAN]
    /\ renewal \in [Scopes -> Renewal]
    /\ candidate \in [Scopes -> 0..Lease]
    /\ answer \in [Scopes -> Answer]
    /\ cancel \in [Scopes -> BOOLEAN]
    /\ delivered \in [Scopes -> BOOLEAN]
    /\ signal \in [Scopes -> BOOLEAN]
    /\ monitor \in [Scopes -> Monitor]

\* A scope whose require_active succeeds is the owner the backend knows, and
\* the backend will not forget it before the scope itself stops: the deadline
\* counts from before the call was sent, whatever the delays.
AuthorityBacked ==
    \A s \in Scopes : Active(s) =>
        /\ Owns(backend, s)
        /\ backend.turns[identity[s].session].ttl >= left[s]

\* _turn_requests and _turn_executions name exactly the turns of _turns: no
\* claim, expiry or release leaves an entry behind or takes another turn's.
IndexesAgree ==
    LET ids == {<<identity[backend.turns[k].scope], k>> : k \in DOMAIN backend.turns}
    IN /\ {<<r, backend.requests[r]>> : r \in DOMAIN backend.requests} = {<<i[1].request, i[2]>> : i \in ids}
       /\ {<<x, backend.executions[x]>> : x \in DOMAIN backend.executions} = {<<i[1].execution, i[2]>> : i \in ids}

\* A scope that ended regularly, or whose entering was cancelled at any point,
\* left no claim behind, even when its renewal reached the backend late.
ClosedHoldsNothing ==
    \A s \in Scopes : phase[s] = "closed" => ~Owns(backend, s)

\* A caller parked in wait_signal is woken by everything it waits for: a lost
\* scope, a closed one, and a cancellation it has not been told.
WakesMonitor ==
    \A s \in Scopes : monitor[s] = "parked" =>
        signal[s] \/ (Owned(s) /\ ~lost[s] /\ (cancel[s] => delivered[s]))

\* Whatever claims, renewals, releases and their answers are late, failed or
\* refused, authority is backed, the indexes agree, nothing of a scope stays
\* behind, and no wake-up is lost.
TurnInv == TypeOK /\ AuthorityBacked /\ IndexesAgree /\ ClosedHoldsNothing /\ WakesMonitor

\* The scope with authority over a session.
Holder(k) ==
    IF \E s \in Scopes : identity[s].session = k /\ Active(s)
    THEN CHOOSE s \in Scopes : identity[s].session = k /\ Active(s)
    ELSE NoScope

Authority == INSTANCE SessionAuthority WITH
    Owners <- Scopes, NoOwner <- NoScope, owner <- [k \in Sessions |-> Holder(k)]

\* The scopes implement exclusive authority over sessions: it passes from one
\* scope to the next only through a time in which nobody has it.
ImplementsAuthority == Authority!Spec

=============================================================================
