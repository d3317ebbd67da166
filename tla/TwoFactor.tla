------------------------------- MODULE TwoFactor -------------------------------
(***************************************************************************)
(* Two-factor authentication of one user (twofa-service/): enrolment, the  *)
(* second step of a login with its temporary token, the recent check, and  *)
(* the counters of failed codes.  The user, the secret and the tokens are  *)
(* rows of the database, the counters keys of Redis; every access is an    *)
(* await, and requests interleave between them or end there.               *)
(*                                                                         *)
(* A one-time code is right or wrong, whatever secret it was made with.    *)
(* Sessions that are granted are counted; Sessions.tla has what becomes of *)
(* them.  Trusted devices and the key that markRecentTwoFa sets, which     *)
(* nothing that is mounted reads, are left out.                            *)
(*                                                                         *)
(* The history variables record what the code does not: which setups and   *)
(* verifications were under way together, which secrets a code was         *)
(* accepted for, and how many requests tried codes or logged in at once.   *)
(***************************************************************************)
EXTENDS Naturals, FiniteSets, Sequences

CONSTANTS TwoFaHandlers,     \* requests the server handles at once
          MAX_TWO_FA_ATTEMPTS,
          MaxTwoFaTokens,    \* bounds: logins that reach the second step,
          MaxSecrets,        \*         secrets generated,
          MaxTwoFaFaults     \*         requests that end at an await

ASSUME TwoFaAssumption ==
    /\ IsFiniteSet(TwoFaHandlers) /\ MAX_TWO_FA_ATTEMPTS \in Nat \ {0}
    /\ {MaxTwoFaTokens, MaxSecrets, MaxTwoFaFaults} \subseteq Nat

VARIABLES isTwoFaEnabled,
          twoFaSecret,       \* which secret is stored (0: none), isVerified
          tokens,            \* AuthToken TWO_FA_TEMP rows, by order of creation
          attempts,          \* counter per scope and whether its key expires
          granted,           \* sessions granted per token
          twoFa,             \* per request: where it is and its scope
          twoFaFaults,
          proven,            \* history: secrets for which a code was accepted
          met,               \* setups that were under way with a verification
          crossed,           \* secrets that such a setup stored
          together,          \* most requests at once that tried codes, per scope,
          logins             \* and that replaced the user's tokens

twoFaHistory == <<proven, met, crossed, together, logins>>
twoFaVars == <<isTwoFaEnabled, twoFaSecret, tokens, attempts, granted, twoFa, twoFaFaults,
               twoFaHistory>>
enrolment == <<isTwoFaEnabled, twoFaSecret>>

\* Attempts are counted per token at a login, per session at a recent check.
Recent == 0
Scopes == {Recent} \cup 1..MaxTwoFaTokens
NoAttempts == [count |-> 0, expires |-> FALSE]
TwoFaIdle == [pc |-> "idle", scope |-> Recent]

TwoFaTypeOK ==
    /\ isTwoFaEnabled \in BOOLEAN
    /\ twoFaSecret \in [version : 0..MaxSecrets, isVerified : BOOLEAN]
    /\ tokens \in Seq({"live", "expired", "used", "deleted"}) /\ Len(tokens) <= MaxTwoFaTokens
    /\ attempts \in [Scopes -> [count : Nat, expires : BOOLEAN]]
    /\ granted \in [1..MaxTwoFaTokens -> Nat]
    /\ twoFa \in [TwoFaHandlers ->
           [pc : {"idle", "upsert", "enable", "delete", "create", "attempts", "otp",
                  "incr", "expire", "clear", "use", "grant"}, scope : Scopes]]
    /\ twoFaFaults \in 0..MaxTwoFaFaults
    /\ met \subseteq TwoFaHandlers /\ proven \cup crossed \subseteq 0..MaxSecrets
    /\ together \in [Scopes -> Nat] /\ logins \in Nat

TwoFaInit ==
    /\ isTwoFaEnabled = FALSE
    /\ twoFaSecret = [version |-> 0, isVerified |-> FALSE]
    /\ tokens = << >>
    /\ attempts = [k \in Scopes |-> NoAttempts]
    /\ granted = [t \in 1..MaxTwoFaTokens |-> 0]
    /\ twoFa = [h \in TwoFaHandlers |-> TwoFaIdle]
    /\ twoFaFaults = 0
    /\ proven = {} /\ met = {} /\ crossed = {}
    /\ together = [k \in Scopes |-> 0] /\ logins = 0
-------------------------------------------------------------------------------
Awaits(h, pc) == twoFa[h].pc = pc
Turn(h, pc, k) == twoFa' = [twoFa EXCEPT ![h] = [pc |-> pc, scope |-> k]]
Enter(h, pc, k) == twoFa[h] = TwoFaIdle /\ Turn(h, pc, k)
Leave(h) == twoFa' = [twoFa EXCEPT ![h] = TwoFaIdle]

\* Fault: a setup does not ask whether two-factor login is enabled.
SetupAlways(h) ==
    /\ twoFaSecret.version < MaxSecrets
    /\ Enter(h, "upsert", Recent)
    /\ UNCHANGED <<enrolment, tokens, attempts, granted, twoFaFaults>>

\* setupTwoFa reads the user ...
SetupTwoFa(h) ==
    /\ ~isTwoFaEnabled /\ twoFaSecret.version < MaxSecrets
    /\ Enter(h, "upsert", Recent)
    /\ UNCHANGED <<enrolment, tokens, attempts, granted, twoFaFaults>>

\* ... and stores a new secret, even if a verification came in between.
UpsertSecret(h) ==
    /\ Awaits(h, "upsert") /\ twoFaSecret.version < MaxSecrets
    /\ twoFaSecret' = [version |-> twoFaSecret.version + 1, isVerified |-> FALSE]
    /\ Leave(h)
    /\ UNCHANGED <<isTwoFaEnabled, tokens, attempts, granted, twoFaFaults>>

\* verifyTwoFaSetup reads the secret and accepts a code ...
VerifyTwoFaSetup(h) ==
    /\ twoFaSecret.version > 0 /\ ~twoFaSecret.isVerified
    /\ Enter(h, "enable", Recent)
    /\ UNCHANGED <<enrolment, tokens, attempts, granted, twoFaFaults>>

\* ... and marks whatever secret is stored now, with the user, as verified.
EnableTwoFa(h) ==
    /\ Awaits(h, "enable")
    /\ twoFaSecret' = [twoFaSecret EXCEPT !.isVerified = TRUE]
    /\ isTwoFaEnabled' = TRUE
    /\ Leave(h)
    /\ UNCHANGED <<tokens, attempts, granted, twoFaFaults>>

\* loginUser of an enrolled user on a device that is not trusted.
LoginUser(h) ==
    /\ isTwoFaEnabled /\ Len(tokens) < MaxTwoFaTokens
    /\ Enter(h, "delete", Recent)
    /\ UNCHANGED <<enrolment, tokens, attempts, granted, twoFaFaults>>

\* createTwoFaToken deletes the user's tokens ...
DeleteTokens(h) ==
    /\ Awaits(h, "delete")
    /\ tokens' = [t \in DOMAIN tokens |-> "deleted"]
    /\ Turn(h, "create", Recent)
    /\ UNCHANGED <<enrolment, attempts, granted, twoFaFaults>>

\* ... and then stores a new one.
CreateTwoFaToken(h) ==
    /\ Awaits(h, "create") /\ Len(tokens) < MaxTwoFaTokens
    /\ tokens' = Append(tokens, "live")
    /\ Leave(h)
    /\ UNCHANGED <<enrolment, attempts, granted, twoFaFaults>>

\* verifyTwoFaLogin: the token is neither used nor expired ...
VerifyTwoFaLogin(h, t) ==
    /\ t \in DOMAIN tokens /\ tokens[t] = "live"
    /\ Enter(h, "attempts", t)
    /\ UNCHANGED <<enrolment, tokens, attempts, granted, twoFaFaults>>

\* verifyRecentTwoFa, which counts its attempts by user and session.
VerifyRecentTwoFa(h) ==
    /\ Enter(h, "attempts", Recent)
    /\ UNCHANGED <<enrolment, tokens, attempts, granted, twoFaFaults>>

\* ... checkTwoFaAttempts ...
CheckTwoFaAttempts(h, k) ==
    /\ twoFa[h] = [pc |-> "attempts", scope |-> k]
    /\ IF attempts[k].count >= MAX_TWO_FA_ATTEMPTS THEN Leave(h) ELSE Turn(h, "otp", k)
    /\ UNCHANGED <<enrolment, tokens, attempts, granted, twoFaFaults>>

\* ... verifyUserTwoFaOtp: an error of any kind counts as a failed attempt ...
VerifyUserTwoFaOtp(h, k) ==
    /\ twoFa[h] = [pc |-> "otp", scope |-> k]
    /\ \/ Turn(h, "incr", k)
       \/ isTwoFaEnabled /\ twoFaSecret.isVerified /\ Turn(h, "clear", k)
    /\ UNCHANGED <<enrolment, tokens, attempts, granted, twoFaFaults>>

\* Fault: the counter is compared before it is incremented.
IncrThenCompare(h, k) ==
    /\ twoFa[h] = [pc |-> "incr", scope |-> k]
    /\ attempts' = [attempts EXCEPT ![k].count = @ + 1]
    /\ IF attempts[k].count = 1 THEN Turn(h, "expire", k) ELSE Leave(h)
    /\ UNCHANGED <<enrolment, tokens, granted, twoFaFaults>>

\* recordFailedTwoFaAttempt: INCR, and EXPIRE by the one who began to count.
IncrAttempts(h, k) ==
    /\ twoFa[h] = [pc |-> "incr", scope |-> k]
    /\ attempts' = [attempts EXCEPT ![k].count = @ + 1]
    /\ IF attempts[k].count = 0 THEN Turn(h, "expire", k) ELSE Leave(h)
    /\ UNCHANGED <<enrolment, tokens, granted, twoFaFaults>>

ExpireAttempts(h, k) ==
    /\ twoFa[h] = [pc |-> "expire", scope |-> k]
    /\ attempts' = [attempts EXCEPT ![k].expires = attempts[k].count > 0]
    /\ Leave(h)
    /\ UNCHANGED <<enrolment, tokens, granted, twoFaFaults>>

\* clearTwoFaAttempts after a right code.
ClearTwoFaAttempts(h, k) ==
    /\ twoFa[h] = [pc |-> "clear", scope |-> k]
    /\ attempts' = [attempts EXCEPT ![k] = NoAttempts]
    /\ IF k = Recent THEN Leave(h) ELSE Turn(h, "use", k)
    /\ UNCHANGED <<enrolment, tokens, granted, twoFaFaults>>

\* markTwoFaTokenUsed finds the row by its id: used or expired will do, but
\* the update of a row that a later login deleted throws.
MarkTwoFaTokenUsed(h, t) ==
    /\ twoFa[h] = [pc |-> "use", scope |-> t]
    /\ IF tokens[t] = "deleted"
       THEN Leave(h) /\ UNCHANGED tokens
       ELSE Turn(h, "grant", t) /\ tokens' = [tokens EXCEPT ![t] = "used"]
    /\ UNCHANGED <<enrolment, attempts, granted, twoFaFaults>>

\* createAuthSession.
GrantSession(h, t) ==
    /\ twoFa[h] = [pc |-> "grant", scope |-> t]
    /\ granted' = [granted EXCEPT ![t] = @ + 1]
    /\ Leave(h)
    /\ UNCHANGED <<enrolment, tokens, attempts, twoFaFaults>>

\* TWO_FA_TEMP_MINUTES and TWO_FA_ATTEMPT_WINDOW_SECONDS pass.
TokenExpires(t) ==
    /\ t \in DOMAIN tokens /\ tokens[t] = "live"
    /\ tokens' = [tokens EXCEPT ![t] = "expired"]
    /\ UNCHANGED <<enrolment, attempts, granted, twoFa, twoFaFaults>>

AttemptsExpire(k) ==
    /\ attempts[k].expires
    /\ attempts' = [attempts EXCEPT ![k] = NoAttempts]
    /\ UNCHANGED <<enrolment, tokens, granted, twoFa, twoFaFaults>>

\* The await in hand throws, or the process dies: nothing is undone.
TwoFaFails(h) ==
    /\ twoFa[h] # TwoFaIdle
    /\ twoFaFaults < MaxTwoFaFaults /\ twoFaFaults' = twoFaFaults + 1
    /\ Leave(h)
    /\ UNCHANGED <<enrolment, tokens, attempts, granted>>

EnrolmentStep(h) == SetupTwoFa(h) \/ UpsertSecret(h) \/ VerifyTwoFaSetup(h) \/ EnableTwoFa(h)

CheckStep(h) ==
    \/ \E k \in Scopes : \/ CheckTwoFaAttempts(h, k) \/ VerifyUserTwoFaOtp(h, k)
                         \/ IncrAttempts(h, k) \/ ExpireAttempts(h, k)
                         \/ ClearTwoFaAttempts(h, k)
    \/ \E t \in DOMAIN tokens : MarkTwoFaTokenUsed(h, t) \/ GrantSession(h, t)

\* The requests that try a code of scope k, and those that replace the tokens.
Trying(k) ==
    {h \in TwoFaHandlers :
        /\ twoFa[h].scope = k
        /\ twoFa[h].pc \in {"attempts", "otp", "incr", "expire", "clear", "use", "grant"}}
LoggingIn == {h \in TwoFaHandlers : twoFa[h].pc \in {"delete", "create"}}

AtLeast(n, S) == IF n < Cardinality(S) THEN Cardinality(S) ELSE n

\* What a step adds to the history.
Recorded ==
    /\ proven' = proven \cup {twoFaSecret.version :
                    h \in {g \in TwoFaHandlers : ~Awaits(g, "enable") /\ Awaits(g, "enable")'}}
    /\ met' = {h \in TwoFaHandlers :
                 /\ Awaits(h, "upsert")'
                 /\ h \in met \/ \E g \in TwoFaHandlers : Awaits(g, "enable")'}
    /\ crossed' = crossed \cup {twoFaSecret'.version :
                    h \in {g \in met : ~Awaits(g, "upsert")' /\ twoFaSecret' # twoFaSecret}}
    /\ together' = [k \in Scopes |-> AtLeast(together[k], Trying(k)')]
    /\ logins' = AtLeast(logins, LoggingIn')

TwoFaStep ==
    \/ \E h \in TwoFaHandlers :
          \/ EnrolmentStep(h) \/ CheckStep(h)
          \/ LoginUser(h) \/ DeleteTokens(h) \/ CreateTwoFaToken(h)
          \/ \E t \in DOMAIN tokens : VerifyTwoFaLogin(h, t)
          \/ VerifyRecentTwoFa(h) \/ TwoFaFails(h)
    \/ \E t \in DOMAIN tokens : TokenExpires(t)
    \/ \E k \in Scopes : AttemptsExpire(k)

TwoFaNext == TwoFaStep /\ Recorded

TwoFaSpec == TwoFaInit /\ [][TwoFaNext]_twoFaVars
-------------------------------------------------------------------------------
\* The enrolment of a user is over only for the setups that had not begun: one
\* that read the user before replaces the secret, if a verification was under
\* way together with it, and nothing else does.  Nobody is ever disenrolled.
EnrolmentStands ==
    [][isTwoFaEnabled /\ twoFaSecret.isVerified =>
          /\ isTwoFaEnabled'
          /\ UNCHANGED twoFaSecret \/ twoFaSecret'.version \in crossed']_twoFaVars

\* The secret counts as verified only for a user who has two-factor login
\* switched on, whatever fails: otherwise neither a setup nor a verification
\* would complete the enrolment.
VerifiedIsEnabled == twoFaSecret.isVerified => isTwoFaEnabled

\* Two things go wrong with an enrolment: two-factor login is switched on with
\* a secret that counts as unverified, so that no code is right, and a secret
\* counts as verified that no code was accepted for.  Both need a setup that
\* stores its secret after it was under way together with a verification; with
\* one request at a time there are none.
EnrolmentOverlaps ==
    /\ isTwoFaEnabled /\ ~twoFaSecret.isVerified => twoFaSecret.version \in crossed
    /\ twoFaSecret.isVerified => twoFaSecret.version \in proven \cup crossed

\* Failures stop at the limit, exceeded only by requests that passed the check
\* together: exactly MAX_TWO_FA_ATTEMPTS if there was one at a time.
AttemptsLimited == \A k \in Scopes : attempts[k].count < MAX_TWO_FA_ATTEMPTS + together[k]

\* A token buys one session, or as many as there were requests at once that had
\* found it unused.
GrantsOverlap == \A t \in DOMAIN tokens : granted[t] <= together[t]

\* Only logins that overlap leave more than one token to answer.
LiveTokensOverlap == Cardinality({t \in DOMAIN tokens : tokens[t] = "live"}) <= logins

\* A counter without an expiry is one whose first failure was interrupted
\* between INCR and EXPIRE.
CountersExpire ==
    Cardinality({k \in Scopes : /\ attempts[k].count > 0 /\ ~attempts[k].expires
                                /\ \A h \in TwoFaHandlers :
                                      twoFa[h] # [pc |-> "expire", scope |-> k]}) <= twoFaFaults

\* Checks and what they protect are apart: an enrolment is half done only if
\* requests overlapped, and every limit is exceeded by no more than the
\* requests that overlapped or failed.
TwoFaSound ==
    /\ VerifiedIsEnabled /\ EnrolmentOverlaps /\ AttemptsLimited /\ GrantsOverlap
    /\ LiveTokensOverlap /\ CountersExpire
===============================================================================
