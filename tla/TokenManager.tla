---------------------------- MODULE TokenManager ----------------------------
(***************************************************************************)
(* The token manager (token.go): a map from token to expiry under an       *)
(* RWMutex.  Validate reads the entry under the read lock, compares the    *)
(* clock with the copy after unlocking, and takes the write lock again to  *)
(* delete an expired entry; the cleanup goroutine sweeps the map between   *)
(* any two of these.  Each critical section, and each reading of the       *)
(* clock, is one step.                                                     *)
(***************************************************************************)
EXTENDS Integers

CONSTANTS
  Conns,    \* goroutines that call Validate
  Tokens,   \* token strings that crypto/rand can produce; none comes twice
  Expiry,   \* tm.expiry, in ticks of the clock
  MaxTime   \* bound on the clock

ASSUME TokenAssumption == Expiry \in Nat \ {0} /\ MaxTime \in Nat

VARIABLES
  now,      \* time.Now(), monotonic
  tokens,   \* tm.tokens: token -> expires
  used,     \* the token strings generated so far, over restarts
  call      \* Conns -> where a call of Validate stands

vars == <<now, tokens, used, call>>

Time == 0 .. MaxTime

Idle == [at |-> "idle"]

\* "check": the entry was read, its expiry copied; "drop": found expired,
\* about to take the write lock; "done": Validate has returned `ok'.
Call ==
  {Idle}
    \cup [at : {"check"}, tok : Tokens, expires : Nat]
    \cup [at : {"drop"}, tok : Tokens]
    \cup [at : {"done"}, tok : Tokens, ok : BOOLEAN]

TypeOK ==
  /\ now \in Time
  /\ used \subseteq Tokens
  /\ DOMAIN tokens \subseteq used
  /\ tokens \in [DOMAIN tokens -> Nat]
  /\ call \in [Conns -> Call]

-----------------------------------------------------------------------------
Without(t) == [s \in DOMAIN tokens \ {t} |-> tokens[s]]

\* time.Now().After(expires)
AfterOrEqual(expires) == now >= expires
After(expires) == now > expires

Init ==
  /\ now = 0
  /\ tokens = [t \in {} |-> 0]
  /\ used = {}
  /\ call = [c \in Conns |-> Idle]

\* generateToken
Generate(t) ==
  /\ t \notin used
  /\ used' = used \cup {t}
  /\ tokens' = [s \in DOMAIN tokens \cup {t} |->
                  IF s = t THEN now + Expiry ELSE tokens[s]]
  /\ UNCHANGED <<now, call>>

\* Validate, the part under RLock, for a token that was handed out once.
ValidateRead(c, t) ==
  /\ call[c] = Idle
  /\ t \in used
  /\ call' = [call EXCEPT ![c] =
       IF t \in DOMAIN tokens
       THEN [at |-> "check", tok |-> t, expires |-> tokens[t]]
       ELSE [at |-> "done", tok |-> t, ok |-> FALSE]]
  /\ UNCHANGED <<now, tokens, used>>

\* Validate with the clock read together with the entry (for a mutant): what is
\* left to do after the unlock is to return.
ValidateCheckSkipped(c) ==
  /\ call[c].at = "check"
  /\ call' = [call EXCEPT ![c] = [at |-> "done", tok |-> call[c].tok, ok |-> TRUE]]
  /\ UNCHANGED <<now, tokens, used>>

\* Validate, between the locks: the clock against the copied expiry.
ValidateCheck(c) ==
  /\ call[c].at = "check"
  /\ call' = [call EXCEPT ![c] =
       IF After(call[c].expires)
       THEN [at |-> "drop", tok |-> call[c].tok]
       ELSE [at |-> "done", tok |-> call[c].tok, ok |-> TRUE]]
  /\ UNCHANGED <<now, tokens, used>>

\* Validate, the part under Lock: delete, which does nothing when the cleanup
\* loop or another call was faster.
ValidateDrop(c) ==
  /\ call[c].at = "drop"
  /\ tokens' = Without(call[c].tok)
  /\ call' = [call EXCEPT ![c] = [at |-> "done", tok |-> call[c].tok, ok |-> FALSE]]
  /\ UNCHANGED <<now, used>>

\* The middleware answers, or lets the handler run and answer.
Return(c) ==
  /\ call[c].at = "done"
  /\ call' = [call EXCEPT ![c] = Idle]
  /\ UNCHANGED <<now, tokens, used>>

\* What one pass of cleanupLoop leaves in the map (first, for a mutant, too much).
KeptTooLong == [t \in {s \in DOMAIN tokens : ~After(tokens[s] + Expiry)} |-> tokens[t]]
Kept == [t \in {s \in DOMAIN tokens : ~After(tokens[s])} |-> tokens[t]]

\* One pass of cleanupLoop, a single critical section.
Cleanup ==
  /\ tokens' = Kept
  /\ UNCHANGED <<now, used, call>>

Tick ==
  /\ now < MaxTime                         \* bound of the model
  /\ now' = now + 1
  /\ UNCHANGED <<tokens, used, call>>

\* The process restarts: the map and the calls are gone.
Restart ==
  /\ tokens' = [t \in {} |-> 0]
  /\ call' = [c \in Conns |-> Idle]
  /\ UNCHANGED <<now, used>>

Next ==
  \/ \E t \in Tokens : Generate(t)
  \/ \E c \in Conns :
       \/ \E t \in Tokens : ValidateRead(c, t)
       \/ ValidateCheck(c)
       \/ ValidateDrop(c)
       \/ Return(c)
  \/ Cleanup
  \/ Tick
  \/ Restart

Spec == Init /\ [][Next]_vars

\* The ticker of cleanupLoop fires for ever (every ten minutes) and nothing
\* holds the lock for ever, so a pass that has something to delete is made.
FairSpec == Spec /\ WF_vars(Cleanup)

-----------------------------------------------------------------------------
\* Validate answers as if it consulted, in one instant, a table of leases:
\* neither the copy made under the read lock nor a deletion by somebody else
\* makes it admit a token that is over or refuse one that is good.
Verdict(c) ==
  IF call[c].at = "done"
  THEN IF call[c].ok
       THEN [verdict |-> "admitted", tok |-> call[c].tok]
       ELSE [verdict |-> "refused", tok |-> call[c].tok]
  ELSE [verdict |-> "none"]

GoodTokens == [t \in {s \in DOMAIN tokens : now <= tokens[s]} |-> tokens[t]]

Lease == INSTANCE SessionLease WITH
  lease <- GoodTokens,
  answer <- [c \in Conns |-> Verdict(c)]

ImplementsLease == Lease!Spec

\* A user is logged out by the clock or by a restart, by nothing else: an entry
\* leaves the map only after its expiry (the delete of Validate acts on a
\* reading that is two lock operations old).
NoEarlyLogout ==
  [][\A t \in DOMAIN tokens :
       t \notin DOMAIN tokens' => now > tokens[t] \/ Restart]_vars

\* Memory: an expired entry does not stay, whether or not anybody presents the
\* token again (cleanupLoop).
ExpiredCollected ==
  \A t \in Tokens :
    (t \in DOMAIN tokens /\ now > tokens[t]) ~> (t \notin DOMAIN tokens)
=============================================================================
