---------------------------- MODULE SessionLease ----------------------------
(***************************************************************************)
(* What the token manager promises: a token is a lease.  It is good from   *)
(* the moment it is issued until its expiry has passed, a request that     *)
(* presents it is admitted exactly while it is good, and only a restart of *)
(* the process ends it early.  When and by whom expired entries are        *)
(* removed from memory is invisible.                                       *)
(***************************************************************************)
EXTENDS Integers

CONSTANTS
  Conns,   \* requests
  Tokens,  \* token strings
  Expiry   \* the lifetime of a token

VARIABLES
  now,     \* the clock
  lease,   \* good tokens -> the last moment at which they are good
  used,    \* every token string handed out
  answer   \* Conns -> what the request was told

vars == <<now, lease, used, answer>>

NoAnswer == [verdict |-> "none"]
Admitted(t) == [verdict |-> "admitted", tok |-> t]
Refused(t) == [verdict |-> "refused", tok |-> t]

GoodUntil(l, time) == [t \in {s \in DOMAIN l : time <= l[s]} |-> l[t]]

Init ==
  /\ now = 0
  /\ lease = [t \in {} |-> 0]
  /\ used = {}
  /\ answer = [c \in Conns |-> NoAnswer]

Issue(t) ==
  /\ t \notin used
  /\ used' = used \cup {t}
  /\ lease' = [s \in DOMAIN lease \cup {t} |->
                 IF s = t THEN now + Expiry ELSE lease[s]]
  /\ UNCHANGED <<now, answer>>

Admit(c, t) ==
  /\ t \in DOMAIN lease
  /\ answer' = [answer EXCEPT ![c] = Admitted(t)]
  /\ UNCHANGED <<now, lease, used>>

Refuse(c, t) ==
  /\ t \in used \ DOMAIN lease
  /\ answer' = [answer EXCEPT ![c] = Refused(t)]
  /\ UNCHANGED <<now, lease, used>>

Finish(c) ==
  /\ answer' = [answer EXCEPT ![c] = NoAnswer]
  /\ UNCHANGED <<now, lease, used>>

Tick ==
  /\ now' = now + 1
  /\ lease' = GoodUntil(lease, now + 1)
  /\ UNCHANGED <<used, answer>>

Crash ==
  /\ lease' = [t \in {} |-> 0]
  /\ answer' = [c \in Conns |-> NoAnswer]
  /\ UNCHANGED <<now, used>>

Next ==
  \/ \E t \in Tokens : Issue(t)
  \/ \E c \in Conns :
       \/ \E t \in Tokens : Admit(c, t) \/ Refuse(c, t)
       \/ Finish(c)
  \/ Tick
  \/ Crash

Spec == Init /\ [][Next]_vars
=============================================================================
