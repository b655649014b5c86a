----------------------------- MODULE TurnsProofs -----------------------------
(***************************************************************************)
(* Proofs about live turns and about the views other runtimes have of      *)
(* them, for any number of scopes, sessions, requests and executions and   *)
(* any lease: authority is backed by the coordination backend, it is       *)
(* exclusive, and what a reader of a view is told was true during its read.*)
(***************************************************************************)
EXTENDS MCTurns, TLAPS

(***************************************************************************)
(* The inductive invariant of turn coordination.  A claim and a renewal    *)
(* take effect in the backend before their answers arrive, so what an      *)
(* entered scope relies on must hold from the moment of the call: a        *)
(* granted claim, and a renewal whose answer is under way, are backed for  *)
(* the time that the scope will count on.                                  *)
(***************************************************************************)

Turn == [scope : Scopes, ttl : 0..Lease, cancel : BOOLEAN]

Backends == [turns : UNION {[K -> Turn] : K \in SUBSET Sessions},
             requests : UNION {[R -> Sessions] : R \in SUBSET Requests},
             executions : UNION {[X -> Sessions] : X \in SUBSET Executions}]

IdOf(b, k) == identity[b.turns[k].scope]

\* A turn is stored under the session of its scope, and the two indexes lead
\* back and forth between the turns and their requests and executions.
Sound(b) ==
    /\ b \in Backends
    /\ \A k \in DOMAIN b.turns :
          /\ IdOf(b, k).session = k
          /\ IdOf(b, k).request \in DOMAIN b.requests /\ b.requests[IdOf(b, k).request] = k
          /\ IdOf(b, k).execution \in DOMAIN b.executions /\ b.executions[IdOf(b, k).execution] = k
    /\ \A r \in DOMAIN b.requests :
          b.requests[r] \in DOMAIN b.turns /\ IdOf(b, b.requests[r]).request = r
    /\ \A x \in DOMAIN b.executions :
          b.executions[x] \in DOMAIN b.turns /\ IdOf(b, b.executions[x]).execution = x

\* Only a scope whose claim was granted, or failed unseen, owns a session.
OwnerClaimed(s) ==
    Owns(backend, s) =>
        \/ phase[s] = "unknown"
        \/ outcome[s] = "granted" /\ phase[s] \in {"answered", "entered", "exiting", "abandoned"}

TurnOf(b, s) == b.turns[identity[s].session]

\* The backend keeps the turn of s for n more ticks.
Backed(b, s, n) == n > 0 => Owns(b, s) /\ TurnOf(b, s).ttl >= n

\* From the grant on, the deadline of the scope is backed,
GrantBacked(s) ==
    outcome[s] = "granted" /\ phase[s] \in {"answered", "entered"} /\ ~lost[s]
    => Backed(backend, s, left[s])

\* and so is the next one, from the renewal on.
RenewalBacked(s) ==
    renewal[s] = "answered" /\ answer[s] # "gone" => Backed(backend, s, candidate[s])

\* Where the renewal task and the caller of wait_signal can be.
TasksPlaced(s) ==
    /\ renewal[s] \in {"sleeping", "sent", "answered"} => Owned(s)
    /\ monitor[s] # "away" => phase[s] \in {"entered", "exiting", "closed", "abandoned"}
    /\ phase[s] \in {"new", "claiming", "answered"} => ~lost[s] /\ renewal[s] = "off"

\* WakesMonitor, for one scope.
MonitorWoken(s) ==
    monitor[s] = "parked" => signal[s] \/ (Owned(s) /\ ~lost[s] /\ (cancel[s] => delivered[s]))

ScopeSound(s) ==
    OwnerClaimed(s) /\ GrantBacked(s) /\ RenewalBacked(s) /\ TasksPlaced(s) /\ MonitorWoken(s)

\* The types of everything but the backend.
ScopesType ==
    /\ identity \in Identities
    /\ phase \in [Scopes -> Phase]
    /\ outcome \in [Scopes -> Outcome]
    /\ interrupted \in [Scopes -> BOOLEAN]
    /\ left \in [Scopes -> 0..Lease]
    /\ lost \in [Scopes -> BOOLEAN]
    /\ renewal \in [Scopes -> Renewal]
    /\ candidate \in [Scopes -> 0..Lease]
    /\ answer \in [Scopes -> Answer]
    /\ cancel \in [Scopes -> BOOLEAN]
    /\ delivered \in [Scopes -> BOOLEAN]
    /\ signal \in [Scopes -> BOOLEAN]
    /\ monitor \in [Scopes -> Monitor]

TurnStrong ==
    /\ ScopesType
    /\ Sound(backend)
    /\ \A s \in Scopes : ScopeSound(s)

-----------------------------------------------------------------------------
(***************************************************************************)
(* The calls of the backend.                                               *)
(***************************************************************************)

\* What a scope names.
LEMMA IdTypes ==
    ASSUME identity \in Identities, NEW s \in Scopes
    PROVE  /\ identity[s].session \in Sessions
           /\ identity[s].request \in Requests
           /\ identity[s].execution \in Executions
BY DEF Sessions, Requests, Executions

\* The parts of a backend.
LEMMA BackendParts ==
    ASSUME NEW b \in Backends
    PROVE  /\ b = [turns |-> b.turns, requests |-> b.requests, executions |-> b.executions]
           /\ DOMAIN b.turns \subseteq Sessions /\ b.turns \in [DOMAIN b.turns -> Turn]
           /\ DOMAIN b.requests \subseteq Requests /\ b.requests \in [DOMAIN b.requests -> Sessions]
           /\ DOMAIN b.executions \subseteq Executions /\ b.executions \in [DOMAIN b.executions -> Sessions]
BY DEF Backends

\* A backend is its parts.
LEMMA BackendOf ==
    ASSUME NEW K \in SUBSET Sessions, NEW f \in [K -> Turn],
           NEW R \in SUBSET Requests, NEW g \in [R -> Sessions],
           NEW X \in SUBSET Executions, NEW h \in [X -> Sessions]
    PROVE  [turns |-> f, requests |-> g, executions |-> h] \in Backends
BY DEF Backends

\* _discard_turn takes its turns with their own entries and leaves the others.
LEMMA DiscardSound ==
    ASSUME identity \in Identities, NEW b, Sound(b), NEW K \in SUBSET DOMAIN b.turns
    PROVE  /\ Sound(Discard(b, K))
           /\ DOMAIN Discard(b, K).turns = DOMAIN b.turns \ K
           /\ \A k \in DOMAIN b.turns \ K : Discard(b, K).turns[k] = b.turns[k]
<1> DEFINE ids == {identity[b.turns[k].scope] : k \in K}
           R == DOMAIN b.requests \ {i.request : i \in ids}
           X == DOMAIN b.executions \ {i.execution : i \in ids}
           d == Discard(b, K)
<1>1. b \in Backends
  BY DEF Sound
<1>2. /\ DOMAIN b.turns \subseteq Sessions /\ b.turns \in [DOMAIN b.turns -> Turn]
      /\ DOMAIN b.requests \subseteq Requests /\ b.requests \in [DOMAIN b.requests -> Sessions]
      /\ DOMAIN b.executions \subseteq Executions /\ b.executions \in [DOMAIN b.executions -> Sessions]
  BY <1>1, BackendParts
<1>3. d = [turns |-> [k \in DOMAIN b.turns \ K |-> b.turns[k]],
           requests |-> [r \in R |-> b.requests[r]],
           executions |-> [x \in X |-> b.executions[x]]]
  BY DEF Discard, Restrict
<1> HIDE DEF d, R, X
<1>4. d \in Backends
  <2>1. /\ DOMAIN b.turns \ K \in SUBSET Sessions /\ R \in SUBSET Requests /\ X \in SUBSET Executions
        /\ [k \in DOMAIN b.turns \ K |-> b.turns[k]] \in [DOMAIN b.turns \ K -> Turn]
        /\ [r \in R |-> b.requests[r]] \in [R -> Sessions]
        /\ [x \in X |-> b.executions[x]] \in [X -> Sessions]
    BY <1>2 DEF R, X
  <2> QED
    BY <1>3, <2>1, BackendOf
<1>5. /\ DOMAIN d.turns = DOMAIN b.turns \ K /\ \A k \in DOMAIN b.turns \ K : d.turns[k] = b.turns[k]
      /\ DOMAIN d.requests = R /\ \A r \in R : d.requests[r] = b.requests[r]
      /\ DOMAIN d.executions = X /\ \A x \in X : d.executions[x] = b.executions[x]
  BY <1>3
<1>6. \A r \in DOMAIN b.requests : r \in R <=> b.requests[r] \notin K
  BY DEF Sound, IdOf, R
<1>7. \A x \in DOMAIN b.executions : x \in X <=> b.executions[x] \notin K
  BY SMTT(30) DEF Sound, IdOf, X
<1>8. \A k \in DOMAIN d.turns : IdOf(d, k) = IdOf(b, k)
  BY <1>5 DEF IdOf
<1>9. R \subseteq DOMAIN b.requests /\ X \subseteq DOMAIN b.executions
  BY DEF R, X
<1>10. \A k \in DOMAIN d.turns :
          /\ IdOf(d, k).session = k
          /\ IdOf(d, k).request \in DOMAIN d.requests /\ d.requests[IdOf(d, k).request] = k
          /\ IdOf(d, k).execution \in DOMAIN d.executions /\ d.executions[IdOf(d, k).execution] = k
  BY <1>5, <1>6, <1>7, <1>8 DEF Sound
<1>11. \A r \in DOMAIN d.requests : d.requests[r] \in DOMAIN d.turns /\ IdOf(d, d.requests[r]).request = r
  BY <1>5, <1>6, <1>8, <1>9 DEF Sound
<1>12. \A x \in DOMAIN d.executions : d.executions[x] \in DOMAIN d.turns /\ IdOf(d, d.executions[x]).execution = x
  BY <1>5, <1>7, <1>8, <1>9 DEF Sound
<1>13. Sound(d)
  BY <1>4, <1>10, <1>11, <1>12 DEF Sound
<1> QED
  BY <1>5, <1>13 DEF d

\* What a call leaves to the owners: whoever has time left keeps it, and nobody
\* becomes an owner, except for the scopes in S.
Keeps(b, c, S) ==
    /\ \A t \in Scopes \ S : Owns(c, t) => Owns(b, t)
    /\ \A t \in Scopes : Owns(b, t) /\ TurnOf(b, t).ttl > 0 =>
          t \in S \/ (Owns(c, t) /\ TurnOf(c, t).ttl >= TurnOf(b, t).ttl)

\* The time of a turn.
LEMMA OwnersTime ==
    ASSUME NEW b, Sound(b), NEW t \in Scopes, Owns(b, t)
    PROVE  TurnOf(b, t).ttl \in 0..Lease /\ TurnOf(b, t).ttl \in Nat
BY BackendParts, LeaseAssumption DEF Sound, Owns, TurnOf, Turn, LeaseAssumption

\* A call after the expiry of turns.
LEMMA KeepsAfter ==
    ASSUME NEW b, NEW c, NEW d, NEW S, Sound(b), Sound(c), Sound(d), Keeps(b, c, {}), Keeps(c, d, S)
    PROVE  Keeps(b, d, S)
<1>1. \A t \in Scopes \ S : Owns(d, t) => Owns(b, t)
  BY DEF Keeps
<1>2. ASSUME NEW t \in Scopes, Owns(b, t), TurnOf(b, t).ttl > 0, t \notin S
      PROVE  Owns(d, t) /\ TurnOf(d, t).ttl >= TurnOf(b, t).ttl
  <2>1. Owns(c, t) /\ TurnOf(c, t).ttl >= TurnOf(b, t).ttl
    BY <1>2 DEF Keeps
  <2>2. TurnOf(b, t).ttl \in Nat /\ TurnOf(c, t).ttl \in Nat
    BY <1>2, <2>1, OwnersTime
  <2>3. Owns(d, t) /\ TurnOf(d, t).ttl >= TurnOf(c, t).ttl
    BY <1>2, <2>1, <2>2 DEF Keeps
  <2>4. TurnOf(d, t).ttl \in Nat
    BY <2>3, OwnersTime
  <2> QED
    BY <2>1, <2>2, <2>3, <2>4
<1> QED
  BY <1>1, <1>2 DEF Keeps

\* A call that does nothing.
LEMMA KeepsItself ==
    ASSUME NEW b, Sound(b), NEW S
    PROVE  Keeps(b, b, S)
BY OwnersTime DEF Keeps

\* _expire_turns takes only turns without time.
LEMMA CurrentSound ==
    ASSUME identity \in Identities, NEW b, Sound(b)
    PROVE  /\ Sound(Current(b))
           /\ Keeps(b, Current(b), {})
           /\ \A t \in Scopes : Owns(Current(b), t) => TurnOf(Current(b), t).ttl > 0
<1> DEFINE K == {k \in DOMAIN b.turns : b.turns[k].ttl = 0}
<1>1. K \in SUBSET DOMAIN b.turns /\ Current(b) = Discard(b, K)
  BY DEF Current
<1>2. /\ Sound(Current(b))
      /\ DOMAIN Current(b).turns = DOMAIN b.turns \ K
      /\ \A k \in DOMAIN b.turns \ K : Current(b).turns[k] = b.turns[k]
  BY <1>1, DiscardSound
<1>3. \A k \in DOMAIN b.turns : b.turns[k].ttl \in Nat
  BY BackendParts, LeaseAssumption DEF Sound, Turn, LeaseAssumption
<1>4. Keeps(b, Current(b), {})
  BY <1>2, <1>3 DEF Keeps, Owns, TurnOf
<1>5. \A t \in Scopes : Owns(Current(b), t) => TurnOf(Current(b), t).ttl > 0
  BY <1>2, <1>3 DEF Owns, TurnOf
<1> QED
  BY <1>2, <1>4, <1>5

\* claim_turn refuses every clash, and otherwise stores a fresh turn.
LEMMA ClaimedSound ==
    ASSUME identity \in Identities, NEW b, Sound(b), NEW s \in Scopes
    PROVE  /\ Sound(Claimed(b, s))
           /\ Keeps(b, Claimed(b, s), {s})
           /\ ClaimOutcome(b, s) \in Outcome
           /\ ClaimOutcome(b, s) = "granted" => /\ ~Owns(b, s)
                                                /\ Owns(Claimed(b, s), s)
                                                /\ TurnOf(Claimed(b, s), s).ttl = Lease
           /\ ClaimOutcome(b, s) # "granted" => Claimed(b, s) = b
<1> DEFINE i == identity[s]
           k == i.session
           new == [scope |-> s, ttl |-> Lease, cancel |-> FALSE]
           c == Claimed(b, s)
<1>1. ClaimOutcome(b, s) \in Outcome
  BY DEF ClaimOutcome, Outcome
<1>2. CASE ClaimOutcome(b, s) # "granted"
  BY <1>1, <1>2, KeepsItself DEF Claimed
<1>3. CASE ClaimOutcome(b, s) = "granted"
  <2>1. i.request \notin DOMAIN b.requests /\ i.execution \notin DOMAIN b.executions /\ k \notin DOMAIN b.turns
    BY <1>3 DEF ClaimOutcome
  <2>2. /\ DOMAIN b.turns \subseteq Sessions /\ b.turns \in [DOMAIN b.turns -> Turn]
        /\ DOMAIN b.requests \subseteq Requests /\ b.requests \in [DOMAIN b.requests -> Sessions]
        /\ DOMAIN b.executions \subseteq Executions /\ b.executions \in [DOMAIN b.executions -> Sessions]
    BY BackendParts DEF Sound
  <2>3. k \in Sessions /\ i.request \in Requests /\ i.execution \in Executions /\ new \in Turn
    BY IdTypes, LeaseAssumption DEF Turn, LeaseAssumption
  <2>4. c = [turns |-> With(b.turns, k, new), requests |-> With(b.requests, i.request, k),
             executions |-> With(b.executions, i.execution, k)]
    BY <1>3 DEF Claimed
  <2> HIDE DEF c, new, k, i
  <2>5. /\ With(b.turns, k, new) \in [DOMAIN b.turns \cup {k} -> Turn]
        /\ With(b.requests, i.request, k) \in [DOMAIN b.requests \cup {i.request} -> Sessions]
        /\ With(b.executions, i.execution, k) \in [DOMAIN b.executions \cup {i.execution} -> Sessions]
    BY <2>2, <2>3 DEF With
  <2>6. c \in Backends
    <3>1. /\ DOMAIN b.turns \cup {k} \in SUBSET Sessions
          /\ DOMAIN b.requests \cup {i.request} \in SUBSET Requests
          /\ DOMAIN b.executions \cup {i.execution} \in SUBSET Executions
      BY <2>2, <2>3
    <3> QED
      BY <2>4, <2>5, <3>1, BackendOf
  <2>7. /\ DOMAIN c.turns = DOMAIN b.turns \cup {k} /\ c.turns[k] = new
        /\ \A l \in DOMAIN b.turns : c.turns[l] = b.turns[l]
        /\ DOMAIN c.requests = DOMAIN b.requests \cup {i.request} /\ c.requests[i.request] = k
        /\ \A r \in DOMAIN b.requests : c.requests[r] = b.requests[r]
        /\ DOMAIN c.executions = DOMAIN b.executions \cup {i.execution} /\ c.executions[i.execution] = k
        /\ \A x \in DOMAIN b.executions : c.executions[x] = b.executions[x]
    BY <2>1, <2>4 DEF With
  <2>8. new.scope = s /\ new.ttl = Lease
    BY DEF new
  <2>9. IdOf(c, k) = i /\ i.session = k
    BY <2>7, <2>8 DEF IdOf, i, k
  <2>10. \A l \in DOMAIN b.turns : IdOf(c, l) = IdOf(b, l)
    BY <2>7 DEF IdOf
  <2>11. \A l \in DOMAIN c.turns :
           /\ IdOf(c, l).session = l
           /\ IdOf(c, l).request \in DOMAIN c.requests /\ c.requests[IdOf(c, l).request] = l
           /\ IdOf(c, l).execution \in DOMAIN c.executions /\ c.executions[IdOf(c, l).execution] = l
    BY <2>7, <2>9, <2>10 DEF Sound
  <2>12. \A r \in DOMAIN c.requests : c.requests[r] \in DOMAIN c.turns /\ IdOf(c, c.requests[r]).request = r
    BY <2>7, <2>9, <2>10 DEF Sound
  <2>13. \A x \in DOMAIN c.executions : c.executions[x] \in DOMAIN c.turns /\ IdOf(c, c.executions[x]).execution = x
    BY <2>7, <2>9, <2>10 DEF Sound
  <2>14. Sound(c)
    BY <2>6, <2>11, <2>12, <2>13 DEF Sound
  <2>15. ~Owns(b, s) /\ Owns(c, s) /\ TurnOf(c, s).ttl = Lease
    BY <2>1, <2>7, <2>8 DEF Owns, TurnOf, k, i
  <2>16. \A t \in Scopes : Owns(c, t) => t = s \/ Owns(b, t)
    BY <2>7, <2>8 DEF Owns
  <2>17. \A t \in Scopes : Owns(b, t) => Owns(c, t) /\ TurnOf(c, t) = TurnOf(b, t)
    BY <2>7 DEF Owns, TurnOf
  <2>18. \A t \in Scopes : Owns(b, t) => TurnOf(b, t).ttl \in Nat
    BY <2>2, LeaseAssumption DEF Owns, TurnOf, Turn, LeaseAssumption
  <2>19. Keeps(b, c, {s})
    BY <2>16, <2>17, <2>18 DEF Keeps
  <2> QED
    BY <1>1, <1>3, <2>14, <2>15, <2>19 DEF c
<1> QED
  BY <1>2, <1>3

\* A call that changes only the time or the flag of a turn.
LEMMA TouchedSound ==
    ASSUME identity \in Identities, NEW b, Sound(b), NEW f \in [DOMAIN b.turns -> Turn],
           \A k \in DOMAIN b.turns : f[k].scope = b.turns[k].scope
    PROVE  LET c == [turns |-> f, requests |-> b.requests, executions |-> b.executions]
           IN /\ Sound(c)
              /\ \A t \in Scopes : Owns(c, t) <=> Owns(b, t)
<1> DEFINE c == [turns |-> f, requests |-> b.requests, executions |-> b.executions]
<1>1. /\ DOMAIN b.turns \in SUBSET Sessions
      /\ DOMAIN b.requests \in SUBSET Requests /\ b.requests \in [DOMAIN b.requests -> Sessions]
      /\ DOMAIN b.executions \in SUBSET Executions /\ b.executions \in [DOMAIN b.executions -> Sessions]
  BY BackendParts DEF Sound
<1>2. c \in Backends
  BY <1>1, BackendOf
<1>3. c.turns = f /\ DOMAIN c.turns = DOMAIN b.turns /\ c.requests = b.requests /\ c.executions = b.executions
  OBVIOUS
<1> HIDE DEF c
<1>4. \A k \in DOMAIN b.turns : IdOf(c, k) = IdOf(b, k)
  BY <1>3 DEF IdOf
<1>5. Sound(c)
  BY SMTT(30), <1>2, <1>3, <1>4 DEF Sound
<1>6. \A t \in Scopes : Owns(c, t) <=> Owns(b, t)
  BY <1>3 DEF Owns
<1> QED
  BY <1>5, <1>6 DEF c

\* renew_turn gives the owner a whole lease.
LEMMA RenewedSound ==
    ASSUME identity \in Identities, NEW b, Sound(b), NEW s \in Scopes
    PROVE  /\ Sound(Renewed(b, s))
           /\ Keeps(b, Renewed(b, s), {})
           /\ Owns(b, s) => Owns(Renewed(b, s), s) /\ TurnOf(Renewed(b, s), s).ttl = Lease
<1> DEFINE k == identity[s].session
           f == [b.turns EXCEPT ![k].ttl = Lease]
           c == [turns |-> f, requests |-> b.requests, executions |-> b.executions]
<1>1. /\ b = [turns |-> b.turns, requests |-> b.requests, executions |-> b.executions]
      /\ b.turns \in [DOMAIN b.turns -> Turn]
  BY BackendParts DEF Sound
<1>2. \A t \in Scopes : Owns(b, t) => TurnOf(b, t).ttl \in 0..Lease
  BY <1>1 DEF Owns, TurnOf, Turn
<1>3. CASE ~Owns(b, s)
  BY <1>2, <1>3, LeaseAssumption DEF Renewed, Keeps, LeaseAssumption
<1>4. CASE Owns(b, s)
  <2>1. Renewed(b, s) = c
    BY <1>1, <1>4 DEF Renewed
  <2>2. k \in DOMAIN b.turns
    BY <1>4 DEF Owns
  <2>3. f \in [DOMAIN b.turns -> Turn] /\ \A l \in DOMAIN b.turns : f[l].scope = b.turns[l].scope
    BY <1>1, <2>2, LeaseAssumption DEF Turn, LeaseAssumption
  <2>4. f[k].ttl = Lease /\ \A l \in DOMAIN b.turns \ {k} : f[l] = b.turns[l]
    BY <1>1, <2>2 DEF Turn
  <2>5. Sound(c) /\ \A t \in Scopes : Owns(c, t) <=> Owns(b, t)
    BY <2>3, TouchedSound
  <2>6. \A t \in Scopes : TurnOf(c, t) = f[identity[t].session]
    BY DEF TurnOf
  <2>7. Keeps(b, c, {})
    <3>1. \A t \in Scopes : Owns(b, t) => TurnOf(c, t).ttl >= TurnOf(b, t).ttl
      BY <1>2, <2>4, <2>6, LeaseAssumption DEF Owns, TurnOf, LeaseAssumption
    <3> QED
      BY <2>5, <3>1 DEF Keeps
  <2> QED
    BY <1>4, <2>1, <2>4, <2>5, <2>6, <2>7
<1> QED
  BY <1>3, <1>4

\* cancel_turn marks a turn.
LEMMA CancelledSound ==
    ASSUME identity \in Identities, NEW b, Sound(b), NEW x \in DOMAIN b.executions
    PROVE  LET c == [b EXCEPT !.turns[b.executions[x]].cancel = TRUE]
           IN Sound(c) /\ Keeps(b, c, {})
<1> DEFINE k == b.executions[x]
           f == [b.turns EXCEPT ![k].cancel = TRUE]
           c == [turns |-> f, requests |-> b.requests, executions |-> b.executions]
<1>1. /\ b = [turns |-> b.turns, requests |-> b.requests, executions |-> b.executions]
      /\ b.turns \in [DOMAIN b.turns -> Turn]
  BY BackendParts DEF Sound
<1>2. k \in DOMAIN b.turns
  BY DEF Sound
<1>3. [b EXCEPT !.turns[b.executions[x]].cancel = TRUE] = c
  <2>1. \A l, v : [b EXCEPT !.turns[l].cancel = v]
                = [turns |-> [b.turns EXCEPT ![l].cancel = v], requests |-> b.requests, executions |-> b.executions]
    BY <1>1
  <2> QED
    BY <2>1, Zenon
<1>4. f \in [DOMAIN b.turns -> Turn]
      /\ \A l \in DOMAIN b.turns : f[l].scope = b.turns[l].scope /\ f[l].ttl = b.turns[l].ttl
  BY <1>1, <1>2 DEF Turn
<1>5. Sound(c) /\ \A t \in Scopes : Owns(c, t) <=> Owns(b, t)
  BY <1>4, TouchedSound
<1>6. \A t \in Scopes : Owns(b, t) => TurnOf(c, t).ttl = TurnOf(b, t).ttl /\ TurnOf(b, t).ttl \in Nat
  BY <1>1, <1>4, LeaseAssumption DEF Owns, TurnOf, Turn, LeaseAssumption
<1>7. Keeps(b, c, {})
  BY <1>5, <1>6 DEF Keeps
<1> QED
  BY <1>3, <1>5, <1>7

\* release_turn takes the turn of its own scope only.
LEMMA ReleasedSound ==
    ASSUME identity \in Identities, NEW b, Sound(b), NEW s \in Scopes
    PROVE  /\ Sound(Released(b, s))
           /\ ~Owns(Released(b, s), s)
           /\ Keeps(b, Released(b, s), {s})
<1> DEFINE k == identity[s].session
           c == Released(b, s)
<1>1. \A t \in Scopes : Owns(b, t) => TurnOf(b, t).ttl \in Nat
  BY BackendParts, LeaseAssumption DEF Sound, Owns, TurnOf, Turn, LeaseAssumption
<1>2. CASE ~Owns(b, s)
  BY <1>1, <1>2 DEF Released, Keeps
<1>3. CASE Owns(b, s)
  <2>1. c = Discard(b, {k}) /\ {k} \in SUBSET DOMAIN b.turns /\ b.turns[k].scope = s
    BY <1>3 DEF Released, Owns
  <2>2. Sound(c) /\ DOMAIN c.turns = DOMAIN b.turns \ {k} /\ \A l \in DOMAIN b.turns \ {k} : c.turns[l] = b.turns[l]
    BY <2>1, DiscardSound
  <2>3. ~Owns(c, s)
    BY <2>2 DEF Owns
  <2>4. \A t \in Scopes : Owns(b, t) /\ t # s => Owns(c, t) /\ TurnOf(c, t) = TurnOf(b, t)
    BY <2>1, <2>2 DEF Owns, TurnOf
  <2>5. \A t \in Scopes : Owns(c, t) => Owns(b, t)
    BY <2>2 DEF Owns
  <2>6. Keeps(b, c, {s})
    BY <1>1, <2>4, <2>5 DEF Keeps
  <2> QED
    BY <1>3, <2>2, <2>3, <2>6
<1> QED
  BY <1>2, <1>3

-----------------------------------------------------------------------------
(***************************************************************************)
(* Steps.                                                                  *)
(***************************************************************************)

\* Nothing happens to s itself.
LocalsKept(s) ==
    /\ phase'[s] = phase[s] /\ outcome'[s] = outcome[s] /\ interrupted'[s] = interrupted[s]
    /\ left'[s] = left[s] /\ lost'[s] = lost[s]
    /\ renewal'[s] = renewal[s] /\ candidate'[s] = candidate[s] /\ answer'[s] = answer[s]
    /\ cancel'[s] = cancel[s] /\ delivered'[s] = delivered[s]
    /\ signal'[s] = signal[s] /\ monitor'[s] = monitor[s]

\* The scopes name the same things in the next state.
LEMMA PrimedScopes ==
    ASSUME identity' = identity
    PROVE  /\ Sound(backend)' <=> Sound(backend')
           /\ \A s \in Scopes : Owns(backend, s)' <=> Owns(backend', s)
BY DEF Sound, IdOf, Owns

\* A scope that nothing happens to is as sound as before.
LEMMA KeptSound ==
    ASSUME TurnStrong, identity' = identity, Sound(backend'), NEW S, Keeps(backend, backend', S),
           NEW t \in Scopes \ S, LocalsKept(t)
    PROVE  ScopeSound(t)'
<1>1. /\ left[t] \in Nat /\ candidate[t] \in Nat /\ Sound(backend) /\ ScopeSound(t)
  BY LeaseAssumption DEF TurnStrong, ScopesType, LeaseAssumption
<1>2. Owns(backend', t) => Owns(backend, t)
  BY DEF Keeps
<1>3. ASSUME NEW n \in Nat, Backed(backend, t, n) PROVE Backed(backend', t, n)
  <2>1. SUFFICES ASSUME n > 0 PROVE Owns(backend', t) /\ TurnOf(backend', t).ttl >= n
    BY DEF Backed
  <2>2. Owns(backend, t) /\ TurnOf(backend, t).ttl >= n
    BY <1>3, <2>1 DEF Backed
  <2>3. TurnOf(backend, t).ttl \in Nat
    BY <1>1, <2>2, OwnersTime
  <2>4. Owns(backend', t) /\ TurnOf(backend', t).ttl >= TurnOf(backend, t).ttl
    BY <2>1, <2>2, <2>3 DEF Keeps
  <2>5. TurnOf(backend', t).ttl \in Nat
    BY <2>4, OwnersTime
  <2> QED
    BY <2>1, <2>2, <2>3, <2>4, <2>5
<1>4. OwnerClaimed(t)'
  BY <1>1, <1>2, PrimedScopes DEF ScopeSound, OwnerClaimed, LocalsKept
<1>5. GrantBacked(t)'
  <2>1. GrantBacked(t)' <=> (outcome'[t] = "granted" /\ phase'[t] \in {"answered", "entered"} /\ ~lost'[t]
                             => Backed(backend', t, left'[t]))
    BY DEF GrantBacked, Backed, Owns, TurnOf
  <2> QED
    BY <1>1, <1>3, <2>1 DEF ScopeSound, GrantBacked, LocalsKept
<1>6. RenewalBacked(t)'
  <2>1. RenewalBacked(t)' <=> (renewal'[t] = "answered" /\ answer'[t] # "gone"
                               => Backed(backend', t, candidate'[t]))
    BY DEF RenewalBacked, Backed, Owns, TurnOf
  <2> QED
    BY <1>1, <1>3, <2>1 DEF ScopeSound, RenewalBacked, LocalsKept
<1>7. TasksPlaced(t)' /\ MonitorWoken(t)'
  BY <1>1 DEF ScopeSound, TasksPlaced, MonitorWoken, Owned, LocalsKept
<1> QED
  BY <1>4, <1>5, <1>6, <1>7 DEF ScopeSound

\* A step of one scope leaves the others alone.
LEMMA OthersKept ==
    ASSUME ScopesType, NEW s \in Scopes, Step(s), NEW t \in Scopes, t # s
    PROVE  LocalsKept(t)
<1> USE DEF ScopesType, LocalsKept, claimVars, renewVars, signalVars
<1>1. CASE BeginEnter(s) \/ ClaimTurn(s) \/ ClaimFails(s) \/ CancelEnter(s)
  BY <1>1 DEF BeginEnter, ClaimTurn, ClaimFails, CancelEnter
<1>2. CASE FinishEnter(s)
  BY <1>2 DEF FinishEnter, Enter, Close
<1>3. CASE Lose(s) \/ RenewTurn(s) \/ RenewFails(s) \/ WaitSignal(s)
  BY <1>3 DEF Lose, RenewTurn, RenewFails, RenewalEnds, WaitSignal
<1>4. CASE BeginRenewal(s)
  BY <1>4 DEF BeginRenewal, RenewalEnds
<1>5. CASE FinishRenewal(s)
  BY <1>5 DEF FinishRenewal, RenewalEnds
<1>6. CASE BeginExit(s) \/ EndExit(s) \/ ReleaseFails(s)
  BY <1>6 DEF BeginExit, Close, EndExit, ReleaseFails
<1> QED
  BY <1>1, <1>2, <1>3, <1>4, <1>5, <1>6 DEF Step

\* Every step of a scope keeps the types.
LEMMA StepType ==
    ASSUME ScopesType, identity' = identity, NEW s \in Scopes, Step(s), Sound(backend)
    PROVE  ScopesType'
<1> USE LeaseAssumption DEF ScopesType, claimVars, renewVars, signalVars, LeaseAssumption
<1>1. CASE BeginEnter(s)
  BY <1>1 DEF BeginEnter, Phase
<1>2. CASE ClaimTurn(s)
  <2>1. ClaimOutcome(Current(backend), s) \in Outcome
    BY CurrentSound, ClaimedSound
  <2> QED
    BY <1>2, <2>1 DEF ClaimTurn, Phase
<1>3. CASE ClaimFails(s) \/ CancelEnter(s)
  BY <1>3 DEF ClaimFails, CancelEnter, Phase
<1>4. CASE FinishEnter(s)
  <2>1. CASE Enter(s) /\ UNCHANGED <<interrupted, cancel, delivered>>
    BY <1>4, <2>1 DEF FinishEnter, Enter, Phase, Renewal
  <2>2. CASE Close(s) /\ UNCHANGED renewal
    BY <1>4, <2>2 DEF FinishEnter, Close, Phase
  <2>3. CASE outcome[s] = "raised"
    BY <1>4, <2>3 DEF FinishEnter, Phase
  <2> QED
    BY <1>4, <2>1, <2>2, <2>3 DEF FinishEnter
<1>5. CASE Lose(s) \/ WaitSignal(s)
  BY <1>5 DEF Lose, WaitSignal, Monitor
<1>6. CASE RenewTurn(s) \/ RenewFails(s)
  BY <1>6 DEF RenewTurn, RenewFails, RenewalEnds, Renewal, Answer
<1>7. CASE BeginRenewal(s)
  <2>1. CASE Active(s)
    BY <1>7, <2>1 DEF BeginRenewal, Renewal
  <2>2. CASE ~Active(s)
    BY <1>7, <2>2 DEF BeginRenewal, RenewalEnds, Renewal
  <2> QED
    BY <2>1, <2>2
<1>8. CASE FinishRenewal(s)
  <2>1. /\ answer' \in [Scopes -> Answer] /\ candidate' \in [Scopes -> 0..Lease]
        /\ UNCHANGED <<claimVars, delivered, monitor>>
    BY <1>8 DEF FinishRenewal, Answer
  <2>2. CASE Active(s) /\ answer[s] # "gone" /\ candidate[s] > 0
    <3>1. left' \in [Scopes -> 0..Lease] /\ renewal' \in [Scopes -> Renewal] /\ lost' = lost
      BY <1>8, <2>2 DEF FinishRenewal, Renewal
    <3>2. cancel' \in [Scopes -> BOOLEAN] /\ signal' \in [Scopes -> BOOLEAN]
      BY <1>8, <2>2 DEF FinishRenewal
    <3> QED
      BY <2>1, <3>1, <3>2
  <2>3. CASE ~(Active(s) /\ answer[s] # "gone" /\ candidate[s] > 0)
    <3>1. /\ renewal' \in [Scopes -> Renewal] /\ UNCHANGED <<left, cancel>>
          /\ lost' = [lost EXCEPT ![s] = TRUE] /\ signal' = [signal EXCEPT ![s] = TRUE]
      BY <1>8, <2>3 DEF FinishRenewal, RenewalEnds, Renewal
    <3>2. lost' \in [Scopes -> BOOLEAN] /\ signal' \in [Scopes -> BOOLEAN]
      BY <3>1
    <3> QED
      BY <2>1, <3>1, <3>2
  <2> QED
    BY <2>2, <2>3
<1>9. CASE BeginExit(s)
  BY <1>9 DEF BeginExit, Close, Phase, Renewal, Answer
<1>10. CASE EndExit(s) \/ ReleaseFails(s)
  BY <1>10 DEF EndExit, ReleaseFails, Phase
<1> QED
  BY <1>1, <1>2, <1>3, <1>4, <1>5, <1>6, <1>7, <1>8, <1>9, <1>10 DEF Step

\* What a step of a scope does to the backend: at most the turn of that scope
\* comes or goes.
LEMMA StepBackend ==
    ASSUME TurnStrong, NEW s \in Scopes, Step(s)
    PROVE  Sound(backend') /\ Keeps(backend, backend', {s})
<1> DEFINE b == Current(backend)
<1>1. /\ identity \in Identities /\ Sound(backend) /\ Sound(b) /\ Keeps(backend, b, {})
  BY CurrentSound DEF TurnStrong, ScopesType
<1>2. Keeps(backend, backend, {s}) /\ Keeps(backend, b, {s})
  BY <1>1, KeepsItself DEF Keeps
<1> HIDE DEF b
<1>3. Sound(Claimed(b, s)) /\ Keeps(backend, Claimed(b, s), {s})
  BY <1>1, ClaimedSound, KeepsAfter
<1>4. Sound(Released(b, s)) /\ Keeps(backend, Released(b, s), {s})
  BY <1>1, ReleasedSound, KeepsAfter
<1>5. Sound(Renewed(b, s)) /\ Keeps(backend, Renewed(b, s), {})
  BY <1>1, RenewedSound, KeepsAfter
<1>6. Keeps(backend, Renewed(b, s), {s})
  BY <1>5 DEF Keeps
<1>7. backend' \in {backend, Claimed(b, s), Released(b, s), Renewed(b, s)}
  BY DEF b, Step, BeginEnter, ClaimTurn, ClaimFails, CancelEnter, FinishEnter, Lose, BeginRenewal, RenewTurn,
         RenewFails, FinishRenewal, WaitSignal, BeginExit, EndExit, ReleaseFails
<1> QED
  BY <1>1, <1>2, <1>3, <1>4, <1>5, <1>6, <1>7

\* What makes a scope sound in the next state, told with the next backend.
LEMMA PrimedSound ==
    ASSUME identity' = identity, NEW s \in Scopes,
           Owns(backend', s) =>
               \/ phase'[s] = "unknown"
               \/ outcome'[s] = "granted" /\ phase'[s] \in {"answered", "entered", "exiting", "abandoned"},
           outcome'[s] = "granted" /\ phase'[s] \in {"answered", "entered"} /\ ~lost'[s]
               => Backed(backend', s, left'[s]),
           renewal'[s] = "answered" /\ answer'[s] # "gone" => Backed(backend', s, candidate'[s]),
           TasksPlaced(s)', MonitorWoken(s)'
    PROVE  ScopeSound(s)'
<1>1. OwnerClaimed(s)'
  BY PrimedScopes DEF OwnerClaimed
<1>2. GrantBacked(s)'
  BY DEF GrantBacked, Backed, Owns, TurnOf
<1>3. RenewalBacked(s)'
  BY DEF RenewalBacked, Backed, Owns, TurnOf
<1> QED
  BY <1>1, <1>2, <1>3 DEF ScopeSound

\* The claim, until its answer is taken.
LEMMA EnterSound ==
    ASSUME TurnStrong, identity' = identity, NEW s \in Scopes, ScopesType',
           BeginEnter(s) \/ ClaimTurn(s) \/ ClaimFails(s) \/ CancelEnter(s) \/ FinishEnter(s)
    PROVE  ScopeSound(s)'
<1> DEFINE b == Current(backend)
<1>1. /\ ScopesType /\ Sound(backend)
      /\ OwnerClaimed(s) /\ GrantBacked(s) /\ RenewalBacked(s) /\ TasksPlaced(s) /\ MonitorWoken(s)
      /\ left[s] \in 0..Lease
  BY DEF TurnStrong, ScopeSound, ScopesType
<1>2. Sound(b) /\ \A t \in Scopes : Owns(b, t) => Owns(backend, t)
  BY <1>1, CurrentSound DEF ScopesType, Keeps
<1> HIDE DEF b
<1>3. CASE BeginEnter(s)
  BY <1>1, <1>3, PrimedSound
     DEF BeginEnter, ScopesType, OwnerClaimed, TasksPlaced, MonitorWoken, Owned, claimVars, renewVars, signalVars
<1>4. CASE ClaimTurn(s)
  <2>1. /\ phase[s] = "claiming" /\ outcome'[s] = ClaimOutcome(b, s) /\ backend' = Claimed(b, s)
        /\ phase'[s] = "answered" /\ UNCHANGED <<interrupted, left, lost, renewVars, signalVars>>
    BY <1>1, <1>4 DEF ClaimTurn, ScopesType, b
  <2>2. ~Owns(b, s)
    BY <1>1, <1>2, <2>1 DEF OwnerClaimed
  <2>3. /\ outcome'[s] = "granted" => Owns(backend', s) /\ TurnOf(backend', s).ttl = Lease
        /\ outcome'[s] # "granted" => ~Owns(backend', s)
    <3>1. /\ ClaimOutcome(b, s) = "granted" => Owns(Claimed(b, s), s) /\ TurnOf(Claimed(b, s), s).ttl = Lease
          /\ ClaimOutcome(b, s) # "granted" => Claimed(b, s) = b
      BY <1>1, <1>2, ClaimedSound DEF ScopesType
    <3> QED
      BY <2>1, <2>2, <3>1
  <2>4. outcome'[s] = "granted" => Backed(backend', s, left'[s])
    BY <1>1, <2>1, <2>3, LeaseAssumption DEF Backed, LeaseAssumption
  <2>5. TasksPlaced(s)' /\ MonitorWoken(s)' /\ renewal'[s] # "answered"
    BY <1>1, <2>1 DEF TasksPlaced, MonitorWoken, renewVars, signalVars
  <2> QED
    BY <2>1, <2>3, <2>4, <2>5, PrimedSound
<1>5. CASE ClaimFails(s)
  <2>1. phase'[s] = "unknown" /\ UNCHANGED <<outcome, interrupted, left, lost, renewVars, signalVars>>
    BY <1>1, <1>5 DEF ClaimFails, ScopesType
  <2>2. TasksPlaced(s)' /\ MonitorWoken(s)' /\ renewal'[s] # "answered"
    BY <1>1, <1>5, <2>1 DEF ClaimFails, TasksPlaced, MonitorWoken, renewVars, signalVars
  <2> QED
    BY <2>1, <2>2, PrimedSound
<1>6. CASE CancelEnter(s)
  BY <1>1, <1>6, PrimedSound
     DEF CancelEnter, OwnerClaimed, GrantBacked, RenewalBacked, TasksPlaced, MonitorWoken, Owned,
         claimVars, renewVars, signalVars
<1>7. CASE FinishEnter(s)
  <2>1. phase[s] = "answered" /\ UNCHANGED <<backend, outcome, candidate, answer, monitor>>
    BY <1>7 DEF FinishEnter
  <2>2. monitor[s] = "away" /\ renewal[s] = "off" /\ ~lost[s]
    BY <1>1, <2>1 DEF TasksPlaced
  <2>3. CASE outcome[s] = "raised" /\ phase' = [phase EXCEPT ![s] = "closed"]
             /\ UNCHANGED <<interrupted, left, lost, signal, renewal, cancel, delivered>>
    BY <1>1, <2>1, <2>2, <2>3, PrimedSound DEF ScopesType, OwnerClaimed, TasksPlaced, MonitorWoken
  <2>4. CASE Close(s) /\ UNCHANGED renewal
    BY <1>1, <2>1, <2>2, <2>4, PrimedSound DEF ScopesType, OwnerClaimed, TasksPlaced, MonitorWoken, Close
  <2>5. CASE Enter(s)
    <3>1. phase'[s] = "entered" /\ left' = left
      BY <1>1, <2>5 DEF Enter, ScopesType
    <3>2. renewal'[s] = "sleeping" => outcome[s] = "granted"
      BY <1>1, <2>5 DEF Enter, ScopesType
    <3>3. renewal'[s] \in {"sleeping", "off"}
      BY <1>1, <2>5 DEF Enter, ScopesType
    <3>4. TasksPlaced(s)' /\ MonitorWoken(s)'
      BY <2>1, <2>2, <3>1, <3>2, <3>3 DEF TasksPlaced, MonitorWoken, Owned
    <3>5. outcome[s] = "granted" => Backed(backend, s, left[s])
      BY <1>1, <2>1, <2>2 DEF GrantBacked
    <3> QED
      BY <1>1, <2>1, <3>1, <3>3, <3>4, <3>5, PrimedSound DEF OwnerClaimed
  <2> QED
    BY <1>7, <2>3, <2>4, <2>5 DEF FinishEnter
<1> QED
  BY <1>3, <1>4, <1>5, <1>6, <1>7

\* An entered scope and its renewals.
LEMMA WorkSound ==
    ASSUME TurnStrong, identity' = identity, NEW s \in Scopes, ScopesType',
           Lose(s) \/ BeginRenewal(s) \/ RenewTurn(s) \/ RenewFails(s) \/ FinishRenewal(s) \/ WaitSignal(s)
    PROVE  ScopeSound(s)'
<1> DEFINE b == Current(backend)
<1>1. /\ ScopesType /\ Sound(backend)
      /\ OwnerClaimed(s) /\ GrantBacked(s) /\ RenewalBacked(s) /\ TasksPlaced(s) /\ MonitorWoken(s)
      /\ left[s] \in 0..Lease /\ candidate[s] \in 0..Lease /\ identity \in Identities
  BY DEF TurnStrong, ScopeSound, ScopesType
<1>2. Sound(b) /\ Keeps(backend, b, {})
  BY <1>1, CurrentSound
<1>3. Keeps(backend, Renewed(b, s), {}) /\ Sound(Renewed(b, s))
  BY <1>1, <1>2, RenewedSound, KeepsAfter
<1> HIDE DEF b
<1>4. ASSUME NEW c \in {backend, Renewed(b, s)}, NEW n \in 0..Lease, Backed(backend, s, n)
      PROVE  Backed(c, s, n)
  <2>1. CASE c = backend
    BY <1>4, <2>1
  <2>2. CASE c = Renewed(b, s) /\ n > 0
    <3>1. Owns(backend, s) /\ TurnOf(backend, s).ttl >= n
      BY <1>4, <2>2 DEF Backed
    <3>2. TurnOf(backend, s).ttl \in Nat
      BY <1>1, <3>1, OwnersTime
    <3>3. Owns(c, s) /\ TurnOf(c, s).ttl >= TurnOf(backend, s).ttl
      BY <1>3, <2>2, <3>1, <3>2, LeaseAssumption DEF Keeps, LeaseAssumption
    <3>4. TurnOf(c, s).ttl \in Nat
      BY <1>3, <2>2, <3>3, OwnersTime
    <3> QED
      BY <3>1, <3>2, <3>3, <3>4 DEF Backed
  <2> QED
    BY <1>4, <2>1, <2>2 DEF Backed
<1>5. \A c \in {backend, Renewed(b, s)} : Owns(c, s) => Owns(backend, s)
  BY <1>3 DEF Keeps
<1>6. CASE Lose(s)
  BY <1>1, <1>6, PrimedSound
     DEF Lose, ScopesType, OwnerClaimed, GrantBacked, RenewalBacked, TasksPlaced, MonitorWoken, Owned,
         claimVars, renewVars, signalVars
<1>7. CASE BeginRenewal(s)
  <2>1. Owned(s) /\ UNCHANGED <<backend, claimVars, left, answer, cancel, delivered, monitor>>
    BY <1>7 DEF BeginRenewal
  <2>2. renewal'[s] \in {"sent", "off"}
    BY <1>1, <1>7 DEF BeginRenewal, RenewalEnds, ScopesType
  <2>3. lost'[s] \/ lost'[s] = lost[s]
    BY <1>1, <1>7 DEF BeginRenewal, RenewalEnds, ScopesType
  <2>4. signal'[s] \/ (signal'[s] = signal[s] /\ lost'[s] = lost[s])
    BY <1>1, <1>7 DEF BeginRenewal, RenewalEnds, ScopesType
  <2>5. TasksPlaced(s)' /\ MonitorWoken(s)'
    BY <1>1, <2>1, <2>2, <2>4 DEF TasksPlaced, MonitorWoken, Owned, claimVars
  <2> QED
    BY <1>1, <2>1, <2>2, <2>3, <2>5, PrimedSound DEF OwnerClaimed, GrantBacked, claimVars
<1>8. CASE RenewTurn(s)
  <2>1. /\ renewal[s] \in {"sent", "orphan"} /\ backend' = Renewed(b, s)
        /\ renewal'[s] = IF renewal[s] = "sent" THEN "answered" ELSE "off"
        /\ renewal[s] = "sent" /\ ~Owns(b, s) => answer'[s] = "gone"
        /\ UNCHANGED <<claimVars, left, lost, candidate, signalVars>>
    BY <1>1, <1>8 DEF RenewTurn, ScopesType, b
  <2>2. renewal'[s] = "answered" /\ answer'[s] # "gone" => Backed(backend', s, candidate'[s])
    <3>1. Owns(b, s) => Owns(backend', s) /\ TurnOf(backend', s).ttl = Lease
      BY <1>1, <1>2, <2>1, RenewedSound
    <3> QED
      BY <1>1, <2>1, <3>1, LeaseAssumption DEF Backed, LeaseAssumption
  <2>3. TasksPlaced(s)' /\ MonitorWoken(s)'
    BY <1>1, <2>1 DEF TasksPlaced, MonitorWoken, Owned, claimVars, signalVars
  <2>4. Owns(backend', s) => Owns(backend, s)
    BY <1>5, <2>1
  <2>5. Backed(backend, s, left[s]) => Backed(backend', s, left'[s])
    BY <1>1, <1>4, <2>1
  <2> QED
    BY <1>1, <2>1, <2>2, <2>3, <2>4, <2>5, PrimedSound DEF OwnerClaimed, GrantBacked, claimVars
<1>9. CASE RenewFails(s)
  <2>1. /\ renewal[s] = "sent" /\ backend' \in {backend, Renewed(b, s)}
        /\ renewal'[s] = "off" /\ lost'[s] /\ signal'[s]
        /\ UNCHANGED <<claimVars, left, candidate, answer, cancel, delivered, monitor>>
    BY <1>1, <1>9 DEF RenewFails, RenewalEnds, ScopesType, b
  <2>2. TasksPlaced(s)' /\ MonitorWoken(s)'
    BY <1>1, <2>1 DEF TasksPlaced, MonitorWoken, Owned, claimVars
  <2>3. Owns(backend', s) => Owns(backend, s)
    BY <1>5, <2>1
  <2> QED
    BY <1>1, <2>1, <2>2, <2>3, PrimedSound DEF OwnerClaimed, claimVars
<1>10. CASE FinishRenewal(s)
  <2>1. renewal[s] = "answered" /\ Owned(s) /\ UNCHANGED <<backend, claimVars, delivered, monitor>>
    BY <1>1, <1>10 DEF FinishRenewal, TasksPlaced
  <2>2. CASE Active(s) /\ answer[s] # "gone" /\ candidate[s] > 0
    <3>1. /\ left'[s] = candidate[s] /\ lost' = lost /\ renewal'[s] = "sleeping"
          /\ cancel'[s] = (cancel[s] \/ answer[s] = "cancel")
          /\ signal'[s] = (signal[s] \/ answer[s] = "cancel")
      BY <1>1, <1>10, <2>2 DEF FinishRenewal, ScopesType
    <3>2. Backed(backend, s, candidate[s])
      BY <1>1, <2>1, <2>2 DEF RenewalBacked
    <3>3. TasksPlaced(s)' /\ MonitorWoken(s)'
      BY <1>1, <2>1, <3>1 DEF TasksPlaced, MonitorWoken, Owned, claimVars
    <3> QED
      BY <1>1, <2>1, <3>1, <3>2, <3>3, PrimedSound DEF OwnerClaimed, claimVars
  <2>3. CASE ~(Active(s) /\ answer[s] # "gone" /\ candidate[s] > 0)
    <3>1. renewal'[s] = "off" /\ lost'[s] /\ signal'[s] /\ UNCHANGED <<left, cancel>>
      BY <1>1, <1>10, <2>3 DEF FinishRenewal, RenewalEnds, ScopesType
    <3>2. TasksPlaced(s)' /\ MonitorWoken(s)'
      BY <1>1, <2>1, <3>1 DEF TasksPlaced, MonitorWoken, Owned, claimVars
    <3> QED
      BY <1>1, <2>1, <3>1, <3>2, PrimedSound DEF OwnerClaimed, claimVars
  <2> QED
    BY <2>2, <2>3
<1>11. CASE WaitSignal(s)
  <2>1. UNCHANGED <<backend, claimVars, left, renewVars, cancel>>
    BY <1>11 DEF WaitSignal
  <2>2. phase[s] \in {"entered", "exiting", "closed", "abandoned"}
    BY <1>11 DEF WaitSignal
  <2>3. ~lost'[s] => ~lost[s]
    <3>1. lost' = [lost EXCEPT ![s] = lost[s] \/ (Owned(s) /\ left[s] = 0)]
      BY <1>11 DEF WaitSignal
    <3> QED
      BY <1>1, <3>1 DEF ScopesType
  <2>4. TasksPlaced(s)'
    BY <1>1, <2>1, <2>2 DEF TasksPlaced, Owned, claimVars, renewVars
  <2>5. MonitorWoken(s)'
    BY <1>1, <1>11 DEF WaitSignal, ScopesType, MonitorWoken, Owned, claimVars
  <2> QED
    BY <1>1, <2>1, <2>3, <2>4, <2>5, PrimedSound DEF OwnerClaimed, GrantBacked, RenewalBacked, claimVars, renewVars
<1> QED
  BY <1>6, <1>7, <1>8, <1>9, <1>10, <1>11

\* Leaving a scope.
LEMMA ExitSound ==
    ASSUME TurnStrong, identity' = identity, NEW s \in Scopes, ScopesType',
           BeginExit(s) \/ EndExit(s) \/ ReleaseFails(s)
    PROVE  ScopeSound(s)'
<1> DEFINE b == Current(backend)
<1>1. /\ ScopesType /\ Sound(backend)
      /\ OwnerClaimed(s) /\ TasksPlaced(s) /\ MonitorWoken(s)
      /\ identity \in Identities
  BY DEF TurnStrong, ScopeSound, ScopesType
<1>2. Sound(b) /\ Keeps(backend, b, {})
  BY <1>1, CurrentSound
<1>3. ~Owns(Released(b, s), s)
  BY <1>1, <1>2, ReleasedSound
<1> HIDE DEF b
<1>4. CASE BeginExit(s)
  <2>1. /\ phase[s] = "entered" /\ phase'[s] = "exiting" /\ signal'[s] /\ renewal'[s] \in {"orphan", "off"}
        /\ UNCHANGED <<backend, outcome, monitor>>
    BY <1>1, <1>4 DEF BeginExit, Close, ScopesType
  <2>2. TasksPlaced(s)' /\ MonitorWoken(s)'
    BY <1>1, <2>1 DEF TasksPlaced, MonitorWoken
  <2> QED
    BY <1>1, <2>1, <2>2, PrimedSound DEF OwnerClaimed
<1>5. CASE EndExit(s)
  <2>1. /\ phase[s] = "exiting" /\ phase'[s] = "closed"
        /\ backend' = IF outcome[s] = "granted" THEN Released(b, s) ELSE backend
        /\ UNCHANGED <<outcome, interrupted, left, lost, renewVars, signalVars>>
    BY <1>1, <1>5 DEF EndExit, ScopesType, b
  <2>2. TasksPlaced(s)' /\ MonitorWoken(s)' /\ renewal'[s] # "answered"
    BY <1>1, <2>1 DEF TasksPlaced, MonitorWoken, Owned, renewVars, signalVars
  <2>3. ~Owns(backend', s)
    BY <1>1, <1>3, <2>1 DEF OwnerClaimed
  <2> QED
    BY <2>1, <2>2, <2>3, PrimedSound
<1>6. CASE ReleaseFails(s)
  <2>1. /\ phase[s] = "exiting" /\ phase'[s] = "abandoned" /\ outcome[s] = "granted"
        /\ UNCHANGED <<outcome, interrupted, left, lost, renewVars, signalVars>>
    BY <1>1, <1>6 DEF ReleaseFails, ScopesType
  <2>2. TasksPlaced(s)' /\ MonitorWoken(s)' /\ renewal'[s] # "answered"
    BY <1>1, <2>1 DEF TasksPlaced, MonitorWoken, Owned, renewVars, signalVars
  <2> QED
    BY <2>1, <2>2, PrimedSound
<1> QED
  BY <1>4, <1>5, <1>6

\* Time passes for the backend and the scopes alike.
LEMMA TickSound ==
    ASSUME TurnStrong, identity' = identity, Tick
    PROVE  TurnStrong'
<1> DEFINE f == [k \in DOMAIN backend.turns |-> Aged(backend.turns[k])]
           c == [turns |-> f, requests |-> backend.requests, executions |-> backend.executions]
<1>1. /\ ScopesType /\ Sound(backend) /\ identity \in Identities
      /\ \A s \in Scopes : ScopeSound(s)
  BY DEF TurnStrong, ScopesType
<1>2. /\ backend = [turns |-> backend.turns, requests |-> backend.requests, executions |-> backend.executions]
      /\ backend.turns \in [DOMAIN backend.turns -> Turn]
  BY <1>1, BackendParts DEF Sound
<1>3. backend' = c
  <2>1. \A g : [backend EXCEPT !.turns = g]
               = [turns |-> g, requests |-> backend.requests, executions |-> backend.executions]
    BY <1>2
  <2>2. backend' = [backend EXCEPT !.turns = f]
    BY DEF Tick
  <2> QED
    BY <2>1, <2>2, Zenon
<1>4. /\ left' = [s \in Scopes |-> Down(left[s])] /\ candidate' = [s \in Scopes |-> Down(candidate[s])]
      /\ UNCHANGED <<claimVars, lost, renewal, answer, signalVars>>
  BY DEF Tick
<1>5. \A n \in 0..Lease : Down(n) \in 0..Lease
  BY LeaseAssumption DEF Down, LeaseAssumption
<1>6. ScopesType'
  BY <1>1, <1>4, <1>5 DEF ScopesType, claimVars, signalVars
<1>7. f \in [DOMAIN backend.turns -> Turn]
  BY <1>2, <1>5 DEF Turn, Aged
<1>8. \A k \in DOMAIN backend.turns : f[k].scope = backend.turns[k].scope /\ f[k].ttl = Down(backend.turns[k].ttl)
  BY <1>2 DEF Turn, Aged
<1>9. Sound(c) /\ \A t \in Scopes : Owns(c, t) <=> Owns(backend, t)
  BY <1>1, <1>7, <1>8, TouchedSound
<1>10. \A t \in Scopes : Owns(backend, t) => TurnOf(c, t).ttl = Down(TurnOf(backend, t).ttl)
  BY <1>8 DEF Owns, TurnOf
<1> HIDE DEF c, f
<1>11. Sound(backend)'
  BY <1>3, <1>9, PrimedScopes
<1>12. ASSUME NEW t \in Scopes, NEW n \in 0..Lease, Backed(backend, t, n)
       PROVE  Backed(backend', t, Down(n))
  <2>1. CASE Down(n) > 0
    <3>1. Owns(backend, t) /\ TurnOf(backend, t).ttl >= n
      BY <1>12, <2>1, LeaseAssumption DEF Backed, Down, LeaseAssumption
    <3>2. TurnOf(backend, t).ttl \in Nat
      BY <1>1, <3>1, OwnersTime
    <3>3. Owns(c, t) /\ TurnOf(c, t).ttl = Down(TurnOf(backend, t).ttl)
      BY <1>9, <1>10, <3>1
    <3> QED
      BY <1>3, <2>1, <3>1, <3>2, <3>3, LeaseAssumption DEF Backed, Down, LeaseAssumption
  <2> QED
    BY <2>1 DEF Backed
<1>13. ASSUME NEW t \in Scopes PROVE ScopeSound(t)'
  <2>1. left[t] \in 0..Lease /\ candidate[t] \in 0..Lease
        /\ left'[t] = Down(left[t]) /\ candidate'[t] = Down(candidate[t])
    BY <1>1, <1>4 DEF ScopesType
  <2>2. OwnerClaimed(t) /\ GrantBacked(t) /\ RenewalBacked(t) /\ TasksPlaced(t) /\ MonitorWoken(t)
    BY <1>1 DEF ScopeSound
  <2>3. TasksPlaced(t)' /\ MonitorWoken(t)'
    BY <1>4, <2>2 DEF TasksPlaced, MonitorWoken, Owned, claimVars, signalVars
  <2>4. Owns(backend', t) => Owns(backend, t)
    BY <1>3, <1>9
  <2>5. Backed(backend, t, left[t]) => Backed(backend', t, left'[t])
    BY <1>12, <2>1
  <2>6. Backed(backend, t, candidate[t]) => Backed(backend', t, candidate'[t])
    BY <1>12, <2>1
  <2> QED
    BY <1>4, <2>2, <2>3, <2>4, <2>5, <2>6, PrimedSound DEF OwnerClaimed, GrantBacked, RenewalBacked, claimVars
<1> QED
  BY <1>6, <1>11, <1>13 DEF TurnStrong

\* Reads and cancellations by anybody.
LEMMA AskSound ==
    ASSUME TurnStrong, identity' = identity, ReadTurn \/ \E x \in Executions : CancelTurn(x)
    PROVE  TurnStrong'
<1> DEFINE b == Current(backend)
<1>1. /\ ScopesType /\ Sound(backend) /\ identity \in Identities
  BY DEF TurnStrong, ScopesType
<1>2. Sound(b) /\ Keeps(backend, b, {})
  BY <1>1, CurrentSound
<1> HIDE DEF b
<1>3. UNCHANGED <<claimVars, left, lost, renewVars, signalVars>>
  BY DEF ReadTurn, CancelTurn
<1>4. Sound(backend') /\ Keeps(backend, backend', {})
  <2>1. CASE backend' = b
    BY <1>2, <2>1
  <2>2. ASSUME NEW x \in DOMAIN b.executions, backend' = [b EXCEPT !.turns[b.executions[x]].cancel = TRUE]
        PROVE  Sound(backend') /\ Keeps(backend, backend', {})
    <3>1. Sound(backend') /\ Keeps(b, backend', {})
      BY <1>1, <1>2, <2>2, CancelledSound
    <3> QED
      BY <1>1, <1>2, <3>1, KeepsAfter
  <2> QED
    BY <2>1, <2>2 DEF ReadTurn, CancelTurn, b
<1>5. ScopesType'
  BY <1>1, <1>3 DEF ScopesType, claimVars, renewVars, signalVars
<1>6. \A t \in Scopes : LocalsKept(t)
  BY <1>3 DEF LocalsKept, claimVars, renewVars, signalVars
<1>7. \A t \in Scopes : ScopeSound(t)'
  BY <1>4, <1>6, KeptSound
<1> QED
  BY <1>4, <1>5, <1>7, PrimedScopes DEF TurnStrong

\* A step of a scope.
LEMMA StepSound ==
    ASSUME TurnStrong, identity' = identity, NEW s \in Scopes, Step(s)
    PROVE  TurnStrong'
<1>1. ScopesType /\ Sound(backend)
  BY DEF TurnStrong
<1>2. ScopesType'
  BY <1>1, StepType
<1>3. Sound(backend') /\ Keeps(backend, backend', {s})
  BY StepBackend
<1>4. ScopeSound(s)'
  BY <1>2, EnterSound, WorkSound, ExitSound DEF Step
<1>5. ASSUME NEW t \in Scopes, t # s PROVE ScopeSound(t)'
  BY <1>1, <1>3, <1>5, OthersKept, KeptSound
<1> QED
  BY <1>2, <1>3, <1>4, <1>5, PrimedScopes DEF TurnStrong

\* No claim, no turn.
LEMMA InitTurns == Init => TurnStrong
<1> SUFFICES ASSUME Init PROVE TurnStrong
  OBVIOUS
<1>1. ScopesType
  BY LeaseAssumption DEF Init, ScopesType, Phase, Outcome, Renewal, Answer, Monitor, LeaseAssumption
<1>2. Sound(backend)
  <2>1. Empty \in [{} -> Turn] /\ Empty \in [{} -> Sessions] /\ DOMAIN Empty = {}
    BY DEF Empty
  <2>2. backend \in Backends
    BY <2>1, BackendOf DEF Init
  <2>3. DOMAIN backend.turns = {} /\ DOMAIN backend.requests = {} /\ DOMAIN backend.executions = {}
    BY <2>1 DEF Init
  <2> QED
    BY <2>2, <2>3 DEF Sound
<1>3. ASSUME NEW s \in Scopes PROVE ScopeSound(s)
  <2>1. ~Owns(backend, s)
    BY DEF Init, Owns, Empty
  <2> QED
    BY <2>1 DEF Init, ScopeSound, OwnerClaimed, GrantBacked, RenewalBacked, TasksPlaced, MonitorWoken
<1> QED
  BY <1>1, <1>2, <1>3 DEF TurnStrong

\* Every step keeps the invariant.
LEMMA NextTurns == TurnStrong /\ [Next]_vars => TurnStrong'
<1> SUFFICES ASSUME TurnStrong, [Next]_vars PROVE TurnStrong'
  OBVIOUS
<1>1. CASE Next
  BY <1>1, StepSound, AskSound, TickSound DEF Next
<1>2. CASE UNCHANGED vars
  <2>1. identity' = identity /\ backend' = backend /\ Sound(backend)
        /\ UNCHANGED <<claimVars, left, lost, renewVars, signalVars>>
    BY <1>2 DEF vars, TurnStrong
  <2>2. \A t \in Scopes : LocalsKept(t)
    BY <2>1 DEF LocalsKept, claimVars, renewVars, signalVars
  <2>3. Keeps(backend, backend', {})
    BY <2>1, KeepsItself
  <2>4. \A t \in Scopes : ScopeSound(t)'
    BY <2>1, <2>2, <2>3, KeptSound
  <2>5. ScopesType'
    BY <2>1 DEF TurnStrong, ScopesType, claimVars, renewVars, signalVars
  <2> QED
    BY <2>1, <2>4, <2>5, PrimedScopes DEF TurnStrong
<1> QED
  BY <1>1, <1>2

\* The inductive invariant holds.
THEOREM TurnInvariance == Spec => []TurnStrong
BY InitTurns, NextTurns, PTL DEF Spec

-----------------------------------------------------------------------------
(***************************************************************************)
(* The invariants of the runs.                                             *)
(***************************************************************************)

\* An active scope is the owner the backend knows, for as long as it counts on.
LEMMA ActiveBacked ==
    ASSUME TurnStrong, NEW s \in Scopes, Active(s)
    PROVE  Owns(backend, s) /\ TurnOf(backend, s).ttl >= left[s]
BY DEF TurnStrong, ScopeSound, GrantBacked, Active, Owned, Backed

\* The indexes that lead back and forth name exactly the turns.
LEMMA SoundIndexes ==
    ASSUME Sound(backend)
    PROVE  IndexesAgree
<1> DEFINE ids == {<<identity[backend.turns[k].scope], k>> : k \in DOMAIN backend.turns}
<1>1. ASSUME NEW r \in DOMAIN backend.requests
      PROVE  \E i \in ids : <<r, backend.requests[r]>> = <<i[1].request, i[2]>>
  <2> DEFINE k == backend.requests[r]
  <2>1. k \in DOMAIN backend.turns /\ IdOf(backend, k).request = r
    BY DEF Sound
  <2>2. <<IdOf(backend, k), k>> \in ids
    BY <2>1 DEF IdOf
  <2> QED
    BY <2>1, <2>2
<1>2. ASSUME NEW i \in ids
      PROVE  \E r \in DOMAIN backend.requests : <<r, backend.requests[r]>> = <<i[1].request, i[2]>>
  <2>1. PICK k \in DOMAIN backend.turns : i = <<IdOf(backend, k), k>>
    BY DEF IdOf
  <2>2. IdOf(backend, k).request \in DOMAIN backend.requests
        /\ backend.requests[IdOf(backend, k).request] = k
    BY DEF Sound
  <2> QED
    BY <2>1, <2>2
<1>3. ASSUME NEW x \in DOMAIN backend.executions
      PROVE  \E i \in ids : <<x, backend.executions[x]>> = <<i[1].execution, i[2]>>
  <2> DEFINE k == backend.executions[x]
  <2>1. k \in DOMAIN backend.turns /\ IdOf(backend, k).execution = x
    BY DEF Sound
  <2>2. <<IdOf(backend, k), k>> \in ids
    BY <2>1 DEF IdOf
  <2> QED
    BY <2>1, <2>2
<1>4. ASSUME NEW i \in ids
      PROVE  \E x \in DOMAIN backend.executions :
                <<x, backend.executions[x]>> = <<i[1].execution, i[2]>>
  <2>1. PICK k \in DOMAIN backend.turns : i = <<IdOf(backend, k), k>>
    BY DEF IdOf
  <2>2. IdOf(backend, k).execution \in DOMAIN backend.executions
        /\ backend.executions[IdOf(backend, k).execution] = k
    BY DEF Sound
  <2> QED
    BY <2>1, <2>2
<1> HIDE DEF ids
<1>5. {<<r, backend.requests[r]>> : r \in DOMAIN backend.requests} = {<<i[1].request, i[2]>> : i \in ids}
  BY <1>1, <1>2
<1>6. {<<x, backend.executions[x]>> : x \in DOMAIN backend.executions} = {<<i[1].execution, i[2]>> : i \in ids}
  BY <1>3, <1>4
<1> QED
  BY <1>5, <1>6 DEF IndexesAgree, ids

\* The invariant of turn coordination follows.
LEMMA StrongTurns == TurnStrong => TurnInv
<1> SUFFICES ASSUME TurnStrong PROVE TurnInv
  OBVIOUS
<1>1. ScopesType /\ Sound(backend) /\ \A s \in Scopes : ScopeSound(s)
  BY DEF TurnStrong
<1>2. TypeOK
  <2>1. /\ DOMAIN backend.turns \subseteq Sessions /\ backend.turns \in [DOMAIN backend.turns -> Turn]
        /\ DOMAIN backend.requests \subseteq Requests
        /\ backend.requests \in [DOMAIN backend.requests -> Sessions]
        /\ DOMAIN backend.executions \subseteq Executions
        /\ backend.executions \in [DOMAIN backend.executions -> Sessions]
    BY <1>1, BackendParts DEF Sound
  <2>2. Range(backend.requests) \subseteq Sessions /\ Range(backend.executions) \subseteq Sessions
    BY <2>1 DEF Range
  <2> QED
    BY <1>1, <2>1, <2>2 DEF ScopesType, TypeOK, Turn
<1>3. AuthorityBacked
  BY ActiveBacked DEF AuthorityBacked, TurnOf
<1>4. IndexesAgree
  BY <1>1, SoundIndexes
<1>5. ClosedHoldsNothing
  BY <1>1 DEF ScopeSound, OwnerClaimed, ClosedHoldsNothing
<1>6. WakesMonitor
  BY <1>1 DEF ScopeSound, MonitorWoken, WakesMonitor
<1> QED
  BY <1>2, <1>3, <1>4, <1>5, <1>6 DEF TurnInv

\* Authority is always backed by the backend, its indexes agree, a closed scope
\* has left nothing behind, and a waiting monitor is always woken.
THEOREM TurnsSound == Spec => []TurnInv
BY StrongTurns, TurnInvariance, PTL

-----------------------------------------------------------------------------
(***************************************************************************)
(* Exclusive authority.  The backend knows one owner per session, and a    *)
(* scope becomes active in a step that leaves the backend alone, so it     *)
(* cannot take over from an active one.                                    *)
(***************************************************************************)

\* A session has at most one active scope.
LEMMA OneActive ==
    ASSUME TurnStrong, NEW s \in Scopes, NEW t \in Scopes, Active(s), Active(t),
           identity[s].session = identity[t].session
    PROVE  s = t
BY ActiveBacked DEF Owns

\* Holder names an active scope of the session, or nobody.
LEMMA HolderActive ==
    ASSUME NEW k, Holder(k) # NoScope
    PROVE  Holder(k) \in Scopes /\ identity[Holder(k)].session = k /\ Active(Holder(k))
BY DEF Holder

\* An active scope is the holder of its session.
LEMMA HolderOfActive ==
    ASSUME TurnStrong, NEW s \in Scopes, Active(s)
    PROVE  Holder(identity[s].session) = s
<1> DEFINE k == identity[s].session
<1>1. Holder(k) # NoScope
  BY ScopesAssumption DEF Holder, ScopesAssumption
<1>2. Holder(k) \in Scopes /\ identity[Holder(k)].session = k /\ Active(Holder(k))
  BY <1>1, HolderActive
<1> QED
  BY <1>2, OneActive

\* The step in which a scope becomes active leaves the backend alone.
LEMMA Activated ==
    ASSUME TurnStrong, Next, NEW t \in Scopes, Active(t)', ~Active(t)
    PROVE  backend' = backend
<1>1. ScopesType /\ left[t] \in Nat
  BY LeaseAssumption DEF TurnStrong, ScopesType, LeaseAssumption
<1>2. phase'[t] = "entered" /\ outcome'[t] = "granted" /\ ~lost'[t] /\ left'[t] > 0
  BY DEF Active, Owned
<1>3. ~LocalsKept(t)
  BY <1>2 DEF LocalsKept, Active, Owned
<1>4. ASSUME UNCHANGED <<claimVars, left, lost>> PROVE FALSE
  BY <1>2, <1>4 DEF Active, Owned, claimVars
<1>5. CASE Tick
  BY <1>1, <1>2, <1>5 DEF Tick, Down, Active, Owned, claimVars
<1>6. CASE ReadTurn \/ \E x \in Executions : CancelTurn(x)
  BY <1>4, <1>6 DEF ReadTurn, CancelTurn
<1>7. ASSUME NEW s \in Scopes, Step(s), s # t PROVE FALSE
  BY <1>1, <1>3, <1>7, OthersKept
<1>8. CASE Step(t)
  <2>1. ~BeginEnter(t) /\ ~ClaimTurn(t) /\ ~ClaimFails(t) /\ ~EndExit(t) /\ ~ReleaseFails(t)
    BY <1>1, <1>2 DEF ScopesType, BeginEnter, ClaimTurn, ClaimFails, EndExit, ReleaseFails
  <2>2. ~RenewTurn(t)
    BY <1>4 DEF RenewTurn
  <2>3. ~RenewFails(t)
    BY <1>1, <1>2 DEF ScopesType, RenewFails, RenewalEnds
  <2> QED
    BY <1>8, <2>1, <2>2, <2>3
       DEF Step, CancelEnter, FinishEnter, Lose, BeginRenewal, FinishRenewal, WaitSignal, BeginExit
<1> QED
  BY <1>5, <1>6, <1>7, <1>8 DEF Next

\* No step takes a session from an active scope to another one.
LEMMA NoTakeover ==
    ASSUME TurnStrong, TurnStrong', [Next]_vars, NEW s \in Scopes, Active(s), NEW t \in Scopes, Active(t)',
           identity[s].session = identity'[t].session
    PROVE  s = t
<1>1. identity' = identity
  BY DEF Next, vars
<1> SUFFICES ASSUME ~Active(t) PROVE s = t
  BY <1>1, OneActive
<1>2. backend' = backend
  <2>1. CASE Next
    BY <2>1, Activated
  <2>2. CASE UNCHANGED vars
    BY <2>2 DEF vars
  <2> QED
    BY <2>1, <2>2
<1>3. Owns(backend, t)
  <2>1. (Owns(backend, t))'
    BY DEF TurnStrong, ScopeSound, GrantBacked, Active, Owned, Backed
  <2> QED
    BY <1>1, <1>2, <2>1 DEF Owns
<1> QED
  BY <1>1, <1>3, ActiveBacked DEF Owns

\* Every step of the scopes is a step of the abstract authority.
LEMMA AuthorityStep ==
    ASSUME TurnStrong, TurnStrong', [Next]_vars, NEW k
    PROVE  \/ Holder(k)' = Holder(k)
           \/ Holder(k) = NoScope /\ Holder(k)' \in Scopes
           \/ Holder(k) # NoScope /\ Holder(k)' = NoScope
<1>1. PICK s : Holder(k) = s /\ (s = NoScope \/ (s \in Scopes /\ identity[s].session = k /\ Active(s)))
  BY HolderActive
<1>2. PICK t : Holder(k)' = t /\ (t = NoScope \/ (t \in Scopes /\ identity'[t].session = k /\ Active(t)'))
  BY DEF Holder, Active, Owned
<1>3. s # NoScope /\ t # NoScope => s = t
  BY <1>1, <1>2, NoTakeover
<1>4. s = t \/ (s = NoScope /\ t \in Scopes) \/ (s # NoScope /\ t = NoScope)
  BY <1>2, <1>3
<1> QED
  BY <1>1, <1>2, <1>4

\* The scopes implement exclusive authority over sessions.
THEOREM AuthorityExclusive == Spec => ImplementsAuthority
<1> DEFINE owner == [k \in Sessions |-> Holder(k)]
<1>1. Init => Authority!Init
  <2> SUFFICES ASSUME Init PROVE \A k : Holder(k) = NoScope
    BY DEF Authority!Init
  <2> QED
    BY DEF Init, Holder, Active, Owned
<1>2. TurnStrong /\ TurnStrong' /\ [Next]_vars => [Authority!Next]_owner
  <2> SUFFICES ASSUME TurnStrong, TurnStrong', [Next]_vars PROVE Authority!Next
    OBVIOUS
  <2>1. identity' = identity
    BY DEF Next, vars
  <2>2. Sessions' = Sessions
    BY DEF Sessions
  <2>3. ASSUME NEW k \in Sessions PROVE Authority!Gain(k) \/ Authority!End(k) \/ Authority!Keep(k)
    <3>1. owner[k] = Holder(k) /\ owner'[k] = Holder(k)'
      OBVIOUS
    <3>2. \/ Holder(k)' = Holder(k)
          \/ Holder(k) = NoScope /\ Holder(k)' \in Scopes
          \/ Holder(k) # NoScope /\ Holder(k)' = NoScope
      BY AuthorityStep
    <3> QED
      BY <3>1, <3>2 DEF Authority!Gain, Authority!End, Authority!Keep
  <2> QED
    BY <2>3 DEF Authority!Next
<1> QED
  BY <1>1, <1>2, TurnInvariance, PTL DEF Spec, ImplementsAuthority, Authority!Spec

-----------------------------------------------------------------------------
(***************************************************************************)
(* Turns and views together.                                               *)
(***************************************************************************)

ViewProofs == INSTANCE PendingViewsProofs WITH
    Generations <- Scopes, NoOne <- NoScope,
    ExecutionOf <- [g \in Scopes |-> "e1"], SessionOf <- [g \in Scopes |-> "s1"]

\* In the composition turn coordination behaves as it does alone.
THEOREM TurnsAlone == TurnsSpec => Spec
<1>1. TurnsInit => Init
  BY DEF TurnsInit
<1>2. [TurnsNext]_allVars => [Next]_vars
  BY DEF TurnsNext, allVars
<1> QED
  BY <1>1, <1>2, PTL DEF TurnsSpec, Spec

\* So do the views; ViewProofs has its own names for the definitions.
THEOREM ViewsAlone == TurnsSpec => ViewProofs!Spec
<1>1. TurnsInit => ViewProofs!Init
  <2>1. Views!Init => ViewProofs!Init
    BY Zenon DEF Views!Init, ViewProofs!Init, Views!NoRead, ViewProofs!NoRead,
                 Views!NoCall, ViewProofs!NoCall, Views!Sessions, ViewProofs!Sessions
  <2> QED
    BY <2>1 DEF TurnsInit
<1>2. [TurnsNext]_allVars => [ViewProofs!Next]_(ViewProofs!vars)
  <2>1. Views!Next => ViewProofs!Next
    BY ZenonT(60) DEF Views!Next, ViewProofs!Next, Views!Step, ViewProofs!Step, Views!Watch,
      ViewProofs!Watch, Views!Standing, ViewProofs!Standing, Views!Claim, ViewProofs!Claim,
      Views!PutRecord, ViewProofs!PutRecord, Views!PutPointer, ViewProofs!PutPointer,
      Views!Republish, ViewProofs!Republish, Views!Evict, ViewProofs!Evict, Views!Commit,
      ViewProofs!Commit, Views!End, ViewProofs!End, Views!Hinted, ViewProofs!Hinted,
      Views!PromoteHinted, ViewProofs!PromoteHinted, Views!WatchEnds, ViewProofs!WatchEnds,
      Views!BeginRead, ViewProofs!BeginRead, Views!BeginSessionRead,
      ViewProofs!BeginSessionRead, Views!ReadSource, ViewProofs!ReadSource, Views!NoView,
      ViewProofs!NoView, Views!ReadAuthority, ViewProofs!ReadAuthority, Views!ReadBytes,
      ViewProofs!ReadBytes, Views!Confirm, ViewProofs!Confirm, Views!Forget, ViewProofs!Forget,
      Views!Resolve, ViewProofs!Resolve, Views!CallPromotion, ViewProofs!CallPromotion,
      Views!PutHint, ViewProofs!PutHint, Views!ReadHint, ViewProofs!ReadHint, Views!AcceptHint,
      ViewProofs!AcceptHint, Views!PollSource, ViewProofs!PollSource, Views!PollOwner,
      ViewProofs!PollOwner, Views!PollConfirm, ViewProofs!PollConfirm, Views!TimesUp,
      ViewProofs!TimesUp, Views!ReaderStep, ViewProofs!ReaderStep, Views!CallerStep,
      ViewProofs!CallerStep, Views!OwnerOf, ViewProofs!OwnerOf, Views!Live, ViewProofs!Live,
      Views!NoRead, ViewProofs!NoRead, Views!NoCall, ViewProofs!NoCall, Views!ownerVars,
      ViewProofs!ownerVars, Views!readVars, ViewProofs!readVars, Views!callVars,
      ViewProofs!callVars, Views!Sessions, ViewProofs!Sessions, Views!Executions,
      ViewProofs!Executions
  <2> QED
    BY <2>1 DEF TurnsNext, allVars, viewVars, ViewProofs!vars, ViewProofs!views
<1> QED
  BY <1>1, <1>2, PTL DEF TurnsSpec, ViewProofs!Spec

\* The invariants of the two parts hold in the composition.
THEOREM TurnsAndViewsSound == TurnsSpec => []TurnsInv
<1>1. ViewProofs!TypeOK => Views!TypeOK
  BY Zenon DEF Views!TypeOK, ViewProofs!TypeOK, Views!Live, ViewProofs!Live,
               Views!Sessions, ViewProofs!Sessions, Views!Executions, ViewProofs!Executions
<1> QED
  BY <1>1, ViewProofs!OneLiveOwner, TurnsAlone, ViewsAlone, TurnsSound, PTL DEF TurnsInv

\* What a reader in another runtime is told was true at one moment of its read.
THEOREM AnswersSound == TurnsSpec => []AnswerTrue
<1>1. ViewProofs!AnswerTrue => AnswerTrue
  BY Zenon DEF AnswerTrue, Views!AnswerTrue, ViewProofs!AnswerTrue
<1> QED
  BY <1>1, ViewProofs!AnswersTrue, ViewsAlone, PTL

=============================================================================
