------------------------------ MODULE Notifier ------------------------------
(***************************************************************************)
(* The throttle in front of the registration pushes (notify.go).  Each     *)
(* registration handler reads the clock, then takes n.mu and decides: push *)
(* or count the registration as suppressed.  Handlers may take the lock in *)
(* another order than they read the clock.  A push is sent by a goroutine  *)
(* of its own, after the lock is released, and may fail.                   *)
(*                                                                         *)
(* The notifier is enabled (a sendKey is configured); without one the      *)
(* handlers return at once and there is nothing to model.                  *)
(***************************************************************************)
EXTENDS Integers, FiniteSets, FiniteSetsExt

CONSTANTS
  Conns,       \* registration handlers
  Ips,         \* client addresses
  IpInterval,  \* notifyIPInterval
  MinGap,      \* notifyMinGap
  MaxTracked,  \* notifyMaxTracked
  MaxTime,     \* bound on the clock
  MaxCalls     \* bound on the registrations since the process started

ASSUME NotifierAssumption ==
  /\ IpInterval \in Nat \ {0} /\ MinGap \in Nat \ {0} /\ MaxTracked \in Nat \ {0}
  /\ MaxTime \in Nat /\ MaxCalls \in Nat

\* With the constants of notify.go (300 s, 30 s, 2000): the pushes that fit in
\* one IpInterval fit in the map.
MapLargeEnough == MaxTracked * MinGap >= IpInterval

VARIABLES
  clock,       \* time.Now()
  last,        \* n.lastByIP
  lastGlobal,  \* n.lastGlobal
  suppressed,  \* n.suppressed
  call,        \* Conns -> where the handler is in NotifyRegistration
  sending,     \* the goroutines in send
  pushes,      \* history: the pushes decided since the process started
  throttled,   \* history: how many registrations were throttled
  told,        \* history: how many of them a delivered push has mentioned
  lost         \* history: how many of them went with a failed push

vars == <<clock, last, lastGlobal, suppressed, call, sending,
          pushes, throttled, told, lost>>

Idle == [at |-> "idle"]

Call == {Idle} \cup [at : {"read"}, ip : Ips, now : Nat]

Push == [ip : Ips, time : Nat]

Sending == [push : Push, merged : Nat]

\* time.Time{}: longer ago than any interval.
Never == -MinGap

TypeOK ==
  /\ clock \in Nat
  /\ DOMAIN last \subseteq Ips /\ last \in [DOMAIN last -> Nat]
  /\ lastGlobal \in Nat \cup {Never}
  /\ suppressed \in Nat
  /\ call \in [Conns -> Call]
  /\ sending \subseteq Sending
  /\ pushes \subseteq Push
  /\ throttled \in Nat /\ told \in Nat /\ lost \in Nat

-----------------------------------------------------------------------------
(* Decisions taken under n.mu, for a call from ip that read `now'.         *)

\* The same decision without the global test (for a mutant).
ThrottledByIpOnly(ip, now) ==
  ip \in DOMAIN last /\ now - last[ip] < IpInterval

Throttled(ip, now) ==
  \/ ip \in DOMAIN last /\ now - last[ip] < IpInterval
  \/ now - lastGlobal < MinGap

\* pruneLocked resetting the map without looking for expired entries first.
PrunedAtOnce(l, now) ==
  IF Cardinality(DOMAIN l) <= MaxTracked THEN l ELSE [ip \in {} |-> 0]

\* pruneLocked: nothing up to MaxTracked entries, then the expired ones go, and
\* when that is not enough everything goes.
Pruned(l, now) ==
  LET young == {ip \in DOMAIN l : now - l[ip] < IpInterval}
  IN IF Cardinality(DOMAIN l) <= MaxTracked THEN l
     ELSE IF Cardinality(young) <= MaxTracked THEN [ip \in young |-> l[ip]]
     ELSE [ip \in {} |-> 0]

Noted(ip, now) == [x \in DOMAIN last \cup {ip} |-> IF x = ip THEN now ELSE last[x]]

-----------------------------------------------------------------------------
Init ==
  /\ clock = 0
  /\ last = [ip \in {} |-> 0]
  /\ lastGlobal = Never
  /\ suppressed = 0
  /\ call = [c \in Conns |-> Idle]
  /\ sending = {}
  /\ pushes = {}
  /\ throttled = 0 /\ told = 0 /\ lost = 0

Deciding == Cardinality({c \in Conns : call[c] # Idle})

\* HandleRegister calls NotifyRegistration, which reads the clock.
ReadClock(c, ip) ==
  /\ call[c] = Idle
  /\ throttled + Cardinality(pushes) + Deciding < MaxCalls  \* bound of the model
  /\ call' = [call EXCEPT ![c] = [at |-> "read", ip |-> ip, now |-> clock]]
  /\ UNCHANGED <<clock, last, lastGlobal, suppressed, sending, pushes, throttled, told, lost>>

\* The critical section of a throttled registration.
Throttle(c) ==
  /\ call[c].at = "read"
  /\ Throttled(call[c].ip, call[c].now)
  /\ suppressed' = suppressed + 1
  /\ throttled' = throttled + 1
  /\ call' = [call EXCEPT ![c] = Idle]
  /\ UNCHANGED <<clock, last, lastGlobal, sending, pushes, told, lost>>

\* What the critical section of a push does before the counter is cleared, and
\* the goroutine it starts.
StartPush(c) ==
  /\ call[c].at = "read"
  /\ ~Throttled(call[c].ip, call[c].now)
  /\ LET ip == call[c].ip
         now == call[c].now
         push == [ip |-> ip, time |-> now]
     IN /\ last' = Pruned(Noted(ip, now), now)
        /\ lastGlobal' = now
        /\ pushes' = pushes \cup {push}
        /\ sending' = sending \cup {[push |-> push, merged |-> suppressed]}
  /\ call' = [call EXCEPT ![c] = Idle]
  /\ UNCHANGED <<clock, throttled, told, lost>>

\* A push that keeps the counter it reports (for a mutant).
DecideKeepingCount(c) == StartPush(c) /\ UNCHANGED suppressed

\* The critical section of a push.
Decide(c) == StartPush(c) /\ suppressed' = 0

\* send: the service accepted the push.
Delivered(s) ==
  /\ s \in sending
  /\ sending' = sending \ {s}
  /\ told' = told + s.merged
  /\ UNCHANGED <<clock, last, lastGlobal, suppressed, call, pushes, throttled, lost>>

\* send: no connection, a timeout or a refusal; it is logged and that is all.
Failed(s) ==
  /\ s \in sending
  /\ sending' = sending \ {s}
  /\ lost' = lost + s.merged
  /\ UNCHANGED <<clock, last, lastGlobal, suppressed, call, pushes, throttled, told>>

Tick ==
  /\ clock < MaxTime                       \* bound of the model
  /\ clock' = clock + 1
  /\ UNCHANGED <<last, lastGlobal, suppressed, call, sending, pushes, throttled, told, lost>>

\* Nothing of the notifier survives a restart; the histories start again.
Restart ==
  /\ last' = [ip \in {} |-> 0]
  /\ lastGlobal' = Never
  /\ suppressed' = 0
  /\ call' = [c \in Conns |-> Idle]
  /\ sending' = {}
  /\ pushes' = {}
  /\ throttled' = 0 /\ told' = 0 /\ lost' = 0
  /\ UNCHANGED clock

Next ==
  \/ \E c \in Conns :
       \/ \E ip \in Ips : ReadClock(c, ip)
       \/ Throttle(c)
       \/ Decide(c)
  \/ \E s \in sending : Delivered(s) \/ Failed(s)
  \/ Tick
  \/ Restart

Spec == Init /\ [][Next]_vars

-----------------------------------------------------------------------------
\* A push comes at least MinGap after every earlier one, in whatever order
\* handlers that read the clock take the lock, and also after the map of
\* addresses was reset (notify.go:29 and 111).
GlobalGap ==
  [][\A c \in Conns : Decide(c) =>
       \A p \in pushes : call[c].now - p.time >= MinGap]_vars

\* A push comes at least IpInterval after every earlier one for its address
\* (notify.go:29), although the map forgets: pruneLocked drops entries by the
\* clock of one call while another call still holds an earlier reading, and it
\* may reset the map.
PerIpGap ==
  [][\A c \in Conns : Decide(c) =>
       \A p \in pushes : p.ip = call[c].ip => call[c].now - p.time >= IpInterval]_vars

\* Every throttled registration is counted once: it waits in the counter, is on
\* its way with one push, was told by a delivered one or went with a failed one.
Accounted ==
  throttled = suppressed + told + lost + MapThenSumSet(LAMBDA s : s.merged, sending)

\* notify.go:30 says that what is throttled is added up and told by the next
\* notification.  A failed push takes its share with it.
ThrottledIsTold == sending = {} => throttled = suppressed + told
=============================================================================
