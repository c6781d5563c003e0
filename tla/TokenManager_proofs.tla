------------------------ MODULE TokenManager_proofs -------------------------
(***************************************************************************)
(* The token manager implements the lease, for any number of calls and     *)
(* tokens and any lifetime.  The invariant says what a call may rely on    *)
(* after it let go of the lock: its copy of the expiry is that of the      *)
(* entry, or the entry is gone because that expiry has passed.             *)
(***************************************************************************)
EXTENDS TokenManager, TLAPS

CheckInv ==
  \A c \in Conns : call[c].at = "check" =>
    /\ call[c].tok \in used
    /\ call[c].tok \in DOMAIN tokens => tokens[call[c].tok] = call[c].expires
    /\ call[c].tok \notin DOMAIN tokens => now > call[c].expires

DropInv ==
  \A c \in Conns : call[c].at = "drop" =>
    /\ call[c].tok \in used
    /\ call[c].tok \in DOMAIN tokens => now > tokens[call[c].tok]

IInv == TypeOK /\ CheckInv /\ DropInv

-----------------------------------------------------------------------------
\* The empty map, no calls.
LEMMA InitInv == ASSUME Init PROVE IInv
BY TokenAssumption DEF Init, IInv, TypeOK, Time, Call, Idle, CheckInv, DropInv

\* A deletion of expired entries keeps what the calls rely on.
LEMMA ShrinkInv ==
  ASSUME IInv, UNCHANGED <<now, used, call>>,
         DOMAIN tokens' \subseteq DOMAIN tokens,
         tokens' = [t \in DOMAIN tokens' |-> tokens[t]],
         \A t \in DOMAIN tokens : t \notin DOMAIN tokens' => now > tokens[t]
  PROVE  IInv'
<1>1. TypeOK'
  BY DEF IInv, TypeOK
<1>2. CheckInv' BY DEF IInv, CheckInv
<1>3. DropInv' BY DEF IInv, DropInv
<1> QED BY <1>1, <1>2, <1>3 DEF IInv

\* Validate under the read lock.
LEMMA ReadInv ==
  ASSUME IInv, NEW c \in Conns, NEW t \in Tokens, ValidateRead(c, t)
  PROVE  IInv'
<1>0. UNCHANGED <<now, tokens, used>> /\ t \in used
  BY DEF ValidateRead
<1>1. CASE t \in DOMAIN tokens
  <2> DEFINE r == [at |-> "check", tok |-> t, expires |-> tokens[t]]
  <2>1. call' = [call EXCEPT ![c] = r]
    BY <1>1 DEF ValidateRead
  <2>2. r \in Call /\ r.at = "check" /\ r.tok = t /\ r.expires = tokens[t]
    BY <1>1 DEF Call, IInv, TypeOK
  <2> HIDE DEF r
  <2>3. TypeOK'
    BY <1>0, <2>1, <2>2 DEF IInv, TypeOK
  <2>4. CheckInv' /\ DropInv'
    BY <1>0, <1>1, <2>1, <2>2 DEF IInv, TypeOK, CheckInv, DropInv
  <2> QED BY <2>3, <2>4 DEF IInv
<1>2. CASE t \notin DOMAIN tokens
  <2> DEFINE r == [at |-> "done", tok |-> t, ok |-> FALSE]
  <2>1. call' = [call EXCEPT ![c] = r]
    BY <1>2 DEF ValidateRead
  <2>2. r \in Call /\ r.at = "done"
    BY DEF Call
  <2> HIDE DEF r
  <2>3. TypeOK'
    BY <1>0, <2>1, <2>2 DEF IInv, TypeOK
  <2>4. CheckInv' /\ DropInv'
    BY <1>0, <2>1, <2>2 DEF IInv, TypeOK, CheckInv, DropInv
  <2> QED BY <2>3, <2>4 DEF IInv
<1> QED BY <1>1, <1>2

\* Validate between the locks.
LEMMA CheckStepInv ==
  ASSUME IInv, NEW c \in Conns, ValidateCheck(c)
  PROVE  IInv'
<1>0. UNCHANGED <<now, tokens, used>> /\ call[c].at = "check" /\ call[c] \in Call
  BY DEF ValidateCheck, IInv, TypeOK
<1>1. call[c].tok \in Tokens
  BY <1>0 DEF Call, Idle
<1> DEFINE r == IF After(call[c].expires)
                THEN [at |-> "drop", tok |-> call[c].tok]
                ELSE [at |-> "done", tok |-> call[c].tok, ok |-> TRUE]
<1>2. call' = [call EXCEPT ![c] = r]
  BY DEF ValidateCheck
<1>3. /\ r \in Call /\ r.at # "check"
      /\ r.at = "drop" => r.tok = call[c].tok /\ now > call[c].expires
  BY <1>1 DEF Call, After
<1> HIDE DEF r
<1>4. TypeOK'
  BY <1>0, <1>2, <1>3 DEF IInv, TypeOK
<1>5. CheckInv'
  BY <1>0, <1>2, <1>3 DEF IInv, TypeOK, CheckInv
<1>6. DropInv'
  BY <1>0, <1>2, <1>3 DEF IInv, TypeOK, CheckInv, DropInv
<1> QED BY <1>4, <1>5, <1>6 DEF IInv

\* Validate under the write lock: what it deletes, or finds deleted, is expired.
LEMMA DropStepInv ==
  ASSUME IInv, NEW c \in Conns, ValidateDrop(c)
  PROVE  /\ IInv'
         /\ \A t \in DOMAIN tokens : t \notin DOMAIN tokens' => now > tokens[t]
<1>0. UNCHANGED <<now, used>> /\ call[c].at = "drop" /\ call[c] \in Call
  BY DEF ValidateDrop, IInv, TypeOK
<1>1. call[c].tok \in Tokens
  BY <1>0 DEF Call, Idle
<1> DEFINE r == [at |-> "done", tok |-> call[c].tok, ok |-> FALSE]
<1>2. call' = [call EXCEPT ![c] = r] /\ r \in Call /\ r.at = "done"
  BY <1>1 DEF ValidateDrop, Call
<1> HIDE DEF r
<1>3. /\ DOMAIN tokens' = DOMAIN tokens \ {call[c].tok}
      /\ tokens' = [t \in DOMAIN tokens' |-> tokens[t]]
  BY DEF ValidateDrop, Without
<1>4. \A t \in DOMAIN tokens : t \notin DOMAIN tokens' => now > tokens[t]
  BY <1>0, <1>3 DEF IInv, DropInv
<1>5. TypeOK'
  BY <1>0, <1>2, <1>3 DEF IInv, TypeOK
<1>6. \A d \in Conns : call'[d].at \in {"check", "drop"} => call'[d] = call[d]
  BY <1>2 DEF IInv, TypeOK
<1>7. CheckInv'
  BY <1>0, <1>3, <1>4, <1>6 DEF IInv, CheckInv
<1>8. DropInv'
  BY <1>0, <1>3, <1>4, <1>6 DEF IInv, DropInv
<1> QED BY <1>4, <1>5, <1>7, <1>8 DEF IInv

\* A pass of the cleanup loop deletes what is expired.
LEMMA CleanupInv ==
  ASSUME IInv, Cleanup
  PROVE  /\ IInv'
         /\ \A t \in DOMAIN tokens : t \notin DOMAIN tokens' => now > tokens[t]
<1>1. /\ DOMAIN tokens' = {s \in DOMAIN tokens : ~(now > tokens[s])}
      /\ tokens' = [t \in DOMAIN tokens' |-> tokens[t]]
      /\ UNCHANGED <<now, used, call>>
  BY DEF Cleanup, Kept, After
<1> QED BY <1>1, ShrinkInv

\* A new token takes a string no call is about.
LEMMA GenerateInv ==
  ASSUME IInv, NEW t \in Tokens, Generate(t)
  PROVE  IInv'
<1>1. /\ t \notin used /\ used' = used \cup {t} /\ UNCHANGED <<now, call>>
      /\ DOMAIN tokens' = DOMAIN tokens \cup {t}
      /\ tokens' = [s \in DOMAIN tokens' |-> IF s = t THEN now + Expiry ELSE tokens[s]]
  BY DEF Generate
<1>2. now + Expiry \in Nat
  BY TokenAssumption DEF IInv, TypeOK, Time
<1>3. \A s \in DOMAIN tokens' : tokens'[s] \in Nat
  BY <1>1, <1>2 DEF IInv, TypeOK
<1>4. TypeOK'
  BY <1>1, <1>3 DEF IInv, TypeOK
<1>5. CheckInv' BY <1>1 DEF IInv, CheckInv
<1>6. DropInv' BY <1>1 DEF IInv, DropInv, TypeOK
<1> QED BY <1>4, <1>5, <1>6 DEF IInv

\* Time passes, calls return, the process restarts.
LEMMA OtherInv ==
  ASSUME IInv, \/ Tick \/ Restart \/ UNCHANGED vars
               \/ \E c \in Conns : Return(c)
  PROVE  IInv'
<1>1. CASE Tick
  <2>1. now \in Int /\ now' = now + 1 /\ now' \in Time /\ UNCHANGED <<tokens, used, call>>
    BY <1>1, TokenAssumption DEF Tick, IInv, TypeOK, Time
  <2>2. TypeOK'
    BY <2>1 DEF IInv, TypeOK
  <2>3. \A c \in Conns : call[c].at = "check" => call[c].expires \in Int
    BY DEF IInv, TypeOK, Call, Idle
  <2>4. \A t \in DOMAIN tokens : tokens[t] \in Int
    BY DEF IInv, TypeOK
  <2>5. CheckInv' /\ DropInv'
    BY <2>1, <2>3, <2>4 DEF IInv, CheckInv, DropInv
  <2> QED BY <2>2, <2>5 DEF IInv
<1>2. CASE Restart
  BY <1>2 DEF Restart, IInv, TypeOK, CheckInv, DropInv, Call, Idle
<1>3. CASE UNCHANGED vars
  BY <1>3 DEF vars, IInv, TypeOK, CheckInv, DropInv
<1>4. ASSUME NEW c \in Conns, Return(c) PROVE IInv'
  <2>1. TypeOK'
    BY <1>4 DEF Return, IInv, TypeOK, Call
  <2>2. \A d \in Conns : call'[d].at \in {"check", "drop"} => call'[d] = call[d]
    BY <1>4 DEF Return, IInv, TypeOK, Idle
  <2>3. CheckInv' /\ DropInv'
    BY <1>4, <2>2 DEF Return, IInv, CheckInv, DropInv
  <2> QED BY <2>1, <2>3 DEF IInv
<1> QED BY <1>1, <1>2, <1>3, <1>4

\* Every step keeps the invariant.
LEMMA NextInv == ASSUME IInv, [Next]_vars PROVE IInv'
BY ReadInv, CheckStepInv, DropStepInv, CleanupInv, GenerateInv, OtherInv DEF Next

\* The invariant holds throughout (Validate's view after each unlock).
THEOREM Invariance == Spec => []IInv
<1>1. Init => IInv
  BY InitInv
<1>2. IInv /\ [Next]_vars => IInv'
  BY NextInv
<1> QED BY <1>1, <1>2, PTL DEF Spec

\* Type correctness of the token map and the calls of Validate.
THEOREM TypeCorrect == Spec => []TypeOK
<1>1. IInv => TypeOK
  BY DEF IInv
<1> QED BY <1>1, Invariance, PTL

\* Entries leave the map only by expiry or restart (Validate, cleanupLoop).
THEOREM NoEarlyLogoutHolds == Spec => NoEarlyLogout
<1> DEFINE Late == \A t \in DOMAIN tokens :
                     t \notin DOMAIN tokens' => now > tokens[t] \/ Restart
<1>1. IInv /\ [Next]_vars => [Late]_vars
  BY DropStepInv, CleanupInv
  DEF Next, Generate, ValidateRead, ValidateCheck, Return, Tick
<1> QED BY <1>1, Invariance, PTL DEF Spec, NoEarlyLogout

-----------------------------------------------------------------------------
(* Refinement: each step of the token manager is a step of the lease or    *)
(* leaves the lease as it is.                                              *)

Verdicts == [c \in Conns |-> Verdict(c)]

\* Deleting expired entries is invisible.
LEMMA GoodTokensShrink ==
  ASSUME UNCHANGED now, DOMAIN tokens' \subseteq DOMAIN tokens,
         tokens' = [t \in DOMAIN tokens' |-> tokens[t]],
         \A t \in DOMAIN tokens : t \notin DOMAIN tokens' => now > tokens[t],
         now \in Int, \A t \in DOMAIN tokens : tokens[t] \in Int
  PROVE  GoodTokens' = GoodTokens
<1>1. {t \in DOMAIN tokens' : now' <= tokens'[t]} = {t \in DOMAIN tokens : now <= tokens[t]}
  OBVIOUS
<1>2. \A t \in {s \in DOMAIN tokens : now <= tokens[s]} : tokens'[t] = tokens[t]
  OBVIOUS
<1> QED BY <1>1, <1>2 DEF GoodTokens

\* A step of one call changes that call's verdict only.
LEMMA VerdictStep ==
  ASSUME TypeOK, NEW c \in Conns, NEW r, call' = [call EXCEPT ![c] = r]
  PROVE  Verdicts' = [Verdicts EXCEPT ![c] =
           IF r.at = "done"
           THEN IF r.ok THEN [verdict |-> "admitted", tok |-> r.tok]
                        ELSE [verdict |-> "refused", tok |-> r.tok]
           ELSE [verdict |-> "none"]]
<1>1. call'[c] = r /\ \A d \in Conns : d # c => call'[d] = call[d]
  BY DEF TypeOK
<1> QED BY <1>1 DEF Verdicts, Verdict

\* The empty map is an empty table of leases.
LEMMA InitRefines == ASSUME Init PROVE Lease!Init
<1>1. GoodTokens = [t \in {} |-> 0]
  BY DEF Init, GoodTokens
<1>2. Verdicts = [c \in Conns |-> [verdict |-> "none"]]
  BY DEF Init, Verdicts, Verdict, Idle
<1> QED BY <1>1, <1>2 DEF Init, Lease!Init, Lease!NoAnswer, Verdicts

\* generateToken issues a lease.
LEMMA GenerateRefines ==
  ASSUME IInv, NEW t \in Tokens, Generate(t)
  PROVE  Lease!Issue(t)
<1>1. /\ t \notin used /\ used' = used \cup {t} /\ UNCHANGED <<now, call>>
      /\ DOMAIN tokens' = DOMAIN tokens \cup {t}
      /\ \A s \in DOMAIN tokens : tokens'[s] = tokens[s]
      /\ tokens'[t] = now + Expiry
      /\ t \notin DOMAIN tokens
  BY DEF Generate, IInv, TypeOK
<1>2. now <= now + Expiry
  BY TokenAssumption DEF IInv, TypeOK, Time
<1>3. DOMAIN GoodTokens' = DOMAIN GoodTokens \cup {t}
  BY <1>1, <1>2 DEF GoodTokens
<1>4. GoodTokens' = [s \in DOMAIN GoodTokens \cup {t} |->
                       IF s = t THEN now + Expiry ELSE GoodTokens[s]]
  BY <1>1, <1>3 DEF GoodTokens
<1>5. Verdicts' = Verdicts
  BY <1>1 DEF Verdicts, Verdict
<1> QED BY <1>1, <1>4, <1>5 DEF Lease!Issue, Verdicts

\* Validate under the read lock refuses a token without an entry, and is silent
\* otherwise.
LEMMA ReadRefines ==
  ASSUME IInv, NEW c \in Conns, NEW t \in Tokens, ValidateRead(c, t)
  PROVE  Lease!Refuse(c, t) \/ UNCHANGED Lease!vars
<1>0. /\ UNCHANGED <<now, tokens, used>> /\ t \in used /\ call[c] = Idle
      /\ GoodTokens' = GoodTokens
  BY DEF ValidateRead, GoodTokens
<1>1. CASE t \in DOMAIN tokens
  <2> DEFINE r == [at |-> "check", tok |-> t, expires |-> tokens[t]]
  <2>1. call' = [call EXCEPT ![c] = r] /\ r.at = "check"
    BY <1>1 DEF ValidateRead
  <2> HIDE DEF r
  <2>2. Verdicts[c] = [verdict |-> "none"]
    BY <1>0 DEF Verdicts, Verdict, Idle
  <2>3. Verdicts' = [Verdicts EXCEPT ![c] = [verdict |-> "none"]]
    BY <2>1, VerdictStep DEF IInv
  <2>4. Verdicts' = Verdicts
    BY <2>2, <2>3 DEF Verdicts
  <2> QED BY <1>0, <2>4 DEF Lease!vars, Verdicts
<1>2. CASE t \notin DOMAIN tokens
  <2> DEFINE r == [at |-> "done", tok |-> t, ok |-> FALSE]
  <2>1. call' = [call EXCEPT ![c] = r] /\ r.at = "done" /\ r.ok = FALSE /\ r.tok = t
    BY <1>2 DEF ValidateRead
  <2> HIDE DEF r
  <2>2. Verdicts' = [Verdicts EXCEPT ![c] = [verdict |-> "refused", tok |-> t]]
    BY <2>1, VerdictStep DEF IInv
  <2>3. t \in used \ DOMAIN GoodTokens
    BY <1>0, <1>2 DEF GoodTokens
  <2> QED BY <1>0, <2>2, <2>3 DEF Lease!Refuse, Lease!Refused, Verdicts
<1> QED BY <1>1, <1>2

\* The comparison with the clock admits a good token, and is silent otherwise.
LEMMA CheckRefines ==
  ASSUME IInv, NEW c \in Conns, ValidateCheck(c)
  PROVE  \/ \E t \in Tokens : Lease!Admit(c, t)
         \/ UNCHANGED Lease!vars
<1> DEFINE t == call[c].tok
<1>0. /\ UNCHANGED <<now, tokens, used>> /\ call[c].at = "check" /\ call[c] \in Call
      /\ GoodTokens' = GoodTokens
  BY DEF ValidateCheck, GoodTokens, IInv, TypeOK
<1>1. t \in Tokens /\ call[c].expires \in Int /\ now \in Int
  BY <1>0 DEF Call, Idle, IInv, TypeOK, Time
<1>2. CASE After(call[c].expires)
  <2> DEFINE r == [at |-> "drop", tok |-> t]
  <2>1. call' = [call EXCEPT ![c] = r] /\ r.at = "drop"
    BY <1>2 DEF ValidateCheck
  <2> HIDE DEF r
  <2>2. Verdicts[c] = [verdict |-> "none"]
    BY <1>0 DEF Verdicts, Verdict
  <2>3. Verdicts' = [Verdicts EXCEPT ![c] = [verdict |-> "none"]]
    BY <2>1, VerdictStep DEF IInv
  <2>4. Verdicts' = Verdicts
    BY <2>2, <2>3 DEF Verdicts
  <2> QED BY <1>0, <2>4 DEF Lease!vars, Verdicts
<1>3. CASE ~ After(call[c].expires)
  <2> DEFINE r == [at |-> "done", tok |-> t, ok |-> TRUE]
  <2>1. call' = [call EXCEPT ![c] = r] /\ r.at = "done" /\ r.ok = TRUE /\ r.tok = t
    BY <1>3 DEF ValidateCheck
  <2> HIDE DEF r
  <2>2. Verdicts' = [Verdicts EXCEPT ![c] = [verdict |-> "admitted", tok |-> t]]
    BY <2>1, VerdictStep DEF IInv
  <2>3. t \in DOMAIN tokens /\ now <= tokens[t]
    BY <1>0, <1>1, <1>3 DEF After, IInv, CheckInv
  <2>4. t \in DOMAIN GoodTokens
    BY <2>3 DEF GoodTokens
  <2>5. Lease!Admit(c, t)
    BY <1>0, <2>2, <2>4 DEF Lease!Admit, Lease!Admitted, Verdicts
  <2> QED BY <1>1, <2>5
<1> QED BY <1>2, <1>3

\* The deletion of an expired entry is a refusal, whoever else deleted it.
LEMMA DropRefines ==
  ASSUME IInv, NEW c \in Conns, ValidateDrop(c)
  PROVE  \E t \in Tokens : Lease!Refuse(c, t)
<1> DEFINE t == call[c].tok
<1>0. UNCHANGED <<now, used>> /\ call[c].at = "drop" /\ call[c] \in Call
  BY DEF ValidateDrop, IInv, TypeOK
<1>1. t \in Tokens /\ t \in used
  BY <1>0 DEF Call, Idle, IInv, DropInv
<1>2. now \in Int /\ \A s \in DOMAIN tokens : tokens[s] \in Int
  BY DEF IInv, TypeOK, Time
<1>3. /\ DOMAIN tokens' \subseteq DOMAIN tokens
      /\ tokens' = [s \in DOMAIN tokens' |-> tokens[s]]
  BY DEF ValidateDrop, Without
<1>4. GoodTokens' = GoodTokens
  BY <1>0, <1>2, <1>3, DropStepInv, GoodTokensShrink
<1> DEFINE r == [at |-> "done", tok |-> t, ok |-> FALSE]
<1>5. call' = [call EXCEPT ![c] = r] /\ r.at = "done" /\ r.ok = FALSE /\ r.tok = t
  BY DEF ValidateDrop
<1> HIDE DEF r
<1>6. Verdicts' = [Verdicts EXCEPT ![c] = [verdict |-> "refused", tok |-> t]]
  BY <1>5, VerdictStep DEF IInv
<1>7. t \notin DOMAIN GoodTokens
  BY <1>0, <1>2 DEF GoodTokens, IInv, DropInv
<1>8. Lease!Refuse(c, t)
  BY <1>0, <1>1, <1>4, <1>6, <1>7 DEF Lease!Refuse, Lease!Refused, Verdicts
<1> QED BY <1>1, <1>8

\* The cleanup loop is invisible, the rest maps one to one.
LEMMA OtherRefines ==
  ASSUME IInv
  PROVE  /\ Cleanup => UNCHANGED Lease!vars
         /\ UNCHANGED vars => UNCHANGED Lease!vars
         /\ Tick => Lease!Tick
         /\ Restart => Lease!Crash
         /\ \A c \in Conns : Return(c) => Lease!Finish(c)
<1>1. now \in Int /\ \A s \in DOMAIN tokens : tokens[s] \in Int
  BY DEF IInv, TypeOK, Time
<1>2. ASSUME Cleanup PROVE UNCHANGED Lease!vars
  <2>1. /\ DOMAIN tokens' \subseteq DOMAIN tokens /\ UNCHANGED <<now, used, call>>
        /\ tokens' = [t \in DOMAIN tokens' |-> tokens[t]]
    BY <1>2 DEF Cleanup, Kept
  <2>2. GoodTokens' = GoodTokens
    BY <1>1, <1>2, <2>1, CleanupInv, GoodTokensShrink
  <2>3. Verdicts' = Verdicts
    BY <2>1 DEF Verdicts, Verdict
  <2> QED BY <2>1, <2>2, <2>3 DEF Lease!vars, Verdicts
<1>3. ASSUME UNCHANGED vars PROVE UNCHANGED Lease!vars
  BY <1>3 DEF vars, Lease!vars, GoodTokens, Verdict
<1>4. ASSUME Tick PROVE Lease!Tick
  <2>1. now' = now + 1 /\ UNCHANGED <<tokens, used, call>>
    BY <1>4 DEF Tick
  <2>2. {t \in DOMAIN tokens : now + 1 <= tokens[t]}
          = {t \in DOMAIN GoodTokens : now + 1 <= GoodTokens[t]}
    BY <1>1 DEF GoodTokens
  <2>3. \A t \in DOMAIN GoodTokens : GoodTokens[t] = tokens[t]
    BY DEF GoodTokens
  <2>4. GoodTokens' = [t \in {s \in DOMAIN tokens : now + 1 <= tokens[s]} |-> tokens[t]]
    BY <2>1 DEF GoodTokens
  <2>5. GoodTokens' = [t \in {s \in DOMAIN GoodTokens : now + 1 <= GoodTokens[s]}
                         |-> GoodTokens[t]]
    BY <2>2, <2>3, <2>4
  <2>6. Verdicts' = Verdicts
    BY <2>1 DEF Verdicts, Verdict
  <2> QED BY <2>1, <2>5, <2>6 DEF Lease!Tick, Lease!GoodUntil, Verdicts
<1>5. ASSUME Restart PROVE Lease!Crash
  <2>1. GoodTokens' = [t \in {} |-> 0]
    BY <1>5 DEF Restart, GoodTokens
  <2>2. Verdicts' = [c \in Conns |-> [verdict |-> "none"]]
    BY <1>5 DEF Restart, Verdicts, Verdict, Idle
  <2> QED BY <1>5, <2>1, <2>2 DEF Restart, Lease!Crash, Lease!NoAnswer, Verdicts
<1>6. ASSUME NEW c \in Conns, Return(c) PROVE Lease!Finish(c)
  <2>1. UNCHANGED <<now, tokens, used>> /\ GoodTokens' = GoodTokens
    BY <1>6 DEF Return, GoodTokens
  <2>2. call' = [call EXCEPT ![c] = Idle] /\ TypeOK
    BY <1>6 DEF Return, IInv
  <2>3. Idle.at # "done"
    BY DEF Idle
  <2>4. Verdicts' = [Verdicts EXCEPT ![c] = [verdict |-> "none"]]
    BY <2>2, <2>3, VerdictStep
  <2> QED BY <2>1, <2>4 DEF Lease!Finish, Lease!NoAnswer, Verdicts
<1> QED BY <1>2, <1>3, <1>4, <1>5, <1>6

\* Every step is a step of the lease or a stutter.
LEMMA NextRefines ==
  ASSUME IInv, [Next]_vars
  PROVE  [Lease!Next]_(Lease!vars)
<1>1. ASSUME NEW t \in Tokens, Generate(t) PROVE Lease!Next
  BY <1>1, GenerateRefines DEF Lease!Next
<1>2. ASSUME NEW c \in Conns, NEW t \in Tokens, ValidateRead(c, t)
      PROVE  Lease!Next \/ UNCHANGED Lease!vars
  BY <1>2, ReadRefines DEF Lease!Next
<1>3. ASSUME NEW c \in Conns, ValidateCheck(c)
      PROVE  Lease!Next \/ UNCHANGED Lease!vars
  BY <1>3, CheckRefines DEF Lease!Next
<1>4. ASSUME NEW c \in Conns, ValidateDrop(c) PROVE Lease!Next
  BY <1>4, DropRefines DEF Lease!Next
<1>5. ASSUME NEW c \in Conns, Return(c) PROVE Lease!Next
  BY <1>5, OtherRefines DEF Lease!Next
<1>6. CASE Cleanup \/ UNCHANGED vars
  BY <1>6, OtherRefines
<1>7. CASE Tick \/ Restart
  BY <1>7, OtherRefines DEF Lease!Next
<1> QED BY <1>1, <1>2, <1>3, <1>4, <1>5, <1>6, <1>7 DEF Next

\* The token manager implements the lease (token.go).
THEOREM TokenManagerIsLease == Spec => ImplementsLease
<1>1. Init => Lease!Init
  BY InitRefines
<1>2. IInv /\ [Next]_vars => [Lease!Next]_(Lease!vars)
  BY NextRefines
<1> QED BY <1>1, <1>2, Invariance, PTL DEF Spec, ImplementsLease, Lease!Spec
=============================================================================
