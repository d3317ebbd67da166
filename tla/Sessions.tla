------------------------------- MODULE Sessions -------------------------------
(***************************************************************************)
(* Sessions (auth-service/session.service.js, utils/token.js): a session   *)
(* is a pair of Redis keys, access_token:<id> and refresh_token:<id>, that *)
(* expire after 15 minutes and after 7 days.  A refresh replaces a session *)
(* by a new one, a logout removes it.  Every command to Redis is an await: *)
(* several refreshes and logouts of one session interleave, and a request  *)
(* may end between two commands.  A token can only be presented after it   *)
(* was handed out, and its signature outlives the keys.                    *)
(***************************************************************************)
EXTENDS Naturals, FiniteSets, Sequences

CONSTANTS SessionHandlers,   \* requests the server handles at once
          MaxSessions,       \* bound: session ids drawn by uuidv4()
          MaxSessionFaults   \* bound: requests that end at an await

ASSUME SessionAssumption ==
    IsFiniteSet(SessionHandlers) /\ MaxSessions \in Nat /\ MaxSessionFaults \in Nat

VARIABLES accessKeys, refreshKeys,  \* ids whose key is in Redis
          origin,            \* per id drawn: the session refreshed, 0 for a login
          issued,            \* ids whose tokens the client has received
          sessionRequest,    \* per request: where it is, old and new session
          sessionFaults

sessionVars == <<accessKeys, refreshKeys, origin, issued, sessionRequest, sessionFaults>>

NoSession == 0
SessionIds == 1..MaxSessions
Drawn == DOMAIN origin
NoRequest == [pc |-> "none", old |-> NoSession, new |-> NoSession]

SessionTypeOK ==
    /\ accessKeys \subseteq Drawn /\ refreshKeys \subseteq Drawn /\ issued \subseteq Drawn
    /\ \E n \in 0..MaxSessions : origin \in [1..n -> {NoSession} \cup SessionIds]
    /\ sessionRequest \in [SessionHandlers ->
           [pc : {"none", "revoke", "revokeAccess", "sign", "signRefresh", "logout", "logoutAccess"},
            old : {NoSession} \cup Drawn, new : {NoSession} \cup Drawn]]
    /\ sessionFaults \in 0..MaxSessionFaults

SessionInit ==
    /\ accessKeys = {} /\ refreshKeys = {} /\ issued = {}
    /\ origin = << >>
    /\ sessionRequest = [h \in SessionHandlers |-> NoRequest]
    /\ sessionFaults = 0
-------------------------------------------------------------------------------
Request(pc, old, new) == [pc |-> pc, old |-> old, new |-> new]
IsAt(h, pc) == sessionRequest[h].pc = pc
Await(h, pc) == sessionRequest' = [sessionRequest EXCEPT ![h].pc = pc]
Start(h, request) == /\ sessionRequest[h] = NoRequest
                     /\ sessionRequest' = [sessionRequest EXCEPT ![h] = request]
Done(h) == sessionRequest' = [sessionRequest EXCEPT ![h] = NoRequest]

\* createAuthSession, after the password or the one-time code was accepted.
CreateAuthSession(h) ==
    /\ Len(origin) < MaxSessions
    /\ Start(h, Request("sign", NoSession, NoSession))
    /\ UNCHANGED <<accessKeys, refreshKeys, origin, issued, sessionFaults>>

\* Fault: the signature of the refresh token is enough.
RefreshSigned(h, s) ==
    /\ s \in issued /\ Len(origin) < MaxSessions
    /\ Start(h, Request("revoke", s, NoSession))
    /\ UNCHANGED <<accessKeys, refreshKeys, origin, issued, sessionFaults>>

\* refreshAuthSession reads the refresh key ...
RefreshAuthSession(h, s) ==
    /\ s \in issued \cap refreshKeys /\ Len(origin) < MaxSessions
    /\ Start(h, Request("revoke", s, NoSession))
    /\ UNCHANGED <<accessKeys, refreshKeys, origin, issued, sessionFaults>>

\* Fault: the refresh key is left to expire.
RevokeNothing(h) ==
    /\ IsAt(h, "revoke")
    /\ Await(h, "revokeAccess")
    /\ UNCHANGED <<accessKeys, refreshKeys, origin, issued, sessionFaults>>

\* ... deletes it, without asking whether it still was there ...
RevokeRefreshToken(h) ==
    /\ IsAt(h, "revoke")
    /\ refreshKeys' = refreshKeys \ {sessionRequest[h].old}
    /\ Await(h, "revokeAccess")
    /\ UNCHANGED <<accessKeys, origin, issued, sessionFaults>>

\* ... then the access key ...
RevokeToken(h) ==
    /\ IsAt(h, "revokeAccess")
    /\ accessKeys' = accessKeys \ {sessionRequest[h].old}
    /\ Await(h, "sign")
    /\ UNCHANGED <<refreshKeys, origin, issued, sessionFaults>>

\* ... and signs the tokens of a new session, the access token first.
SignAccessToken(h) ==
    /\ IsAt(h, "sign") /\ Len(origin) < MaxSessions
    /\ LET new == Len(origin) + 1 IN
       /\ origin' = Append(origin, sessionRequest[h].old)
       /\ accessKeys' = accessKeys \cup {new}
       /\ sessionRequest' = [sessionRequest EXCEPT ![h].pc = "signRefresh", ![h].new = new]
    /\ UNCHANGED <<refreshKeys, issued, sessionFaults>>

SignRefreshToken(h) ==
    /\ IsAt(h, "signRefresh")
    /\ refreshKeys' = refreshKeys \cup {sessionRequest[h].new}
    /\ issued' = issued \cup {sessionRequest[h].new}
    /\ Done(h)
    /\ UNCHANGED <<accessKeys, origin, sessionFaults>>

\* revokeAuthSession, the logout: both keys go, whether there or not.
RevokeAuthSession(h, s) ==
    /\ s \in issued
    /\ Start(h, Request("logout", s, NoSession))
    /\ UNCHANGED <<accessKeys, refreshKeys, origin, issued, sessionFaults>>

LogoutRefresh(h) ==
    /\ IsAt(h, "logout")
    /\ refreshKeys' = refreshKeys \ {sessionRequest[h].old}
    /\ Await(h, "logoutAccess")
    /\ UNCHANGED <<accessKeys, origin, issued, sessionFaults>>

LogoutAccess(h) ==
    /\ IsAt(h, "logoutAccess")
    /\ accessKeys' = accessKeys \ {sessionRequest[h].old}
    /\ Done(h)
    /\ UNCHANGED <<refreshKeys, origin, issued, sessionFaults>>

\* ACCESS_EXPIRY is shorter than REFRESH_EXPIRY: the access key of a session
\* is gone before its refresh key expires.
ExpireKey(s) ==
    /\ \/ s \in accessKeys /\ accessKeys' = accessKeys \ {s} /\ UNCHANGED refreshKeys
       \/ s \in refreshKeys \ accessKeys /\ refreshKeys' = refreshKeys \ {s} /\ UNCHANGED accessKeys
    /\ UNCHANGED <<origin, issued, sessionRequest, sessionFaults>>

\* The command in hand throws, or the process dies: nothing is undone.
SessionFails(h) ==
    /\ sessionRequest[h] # NoRequest
    /\ sessionFaults < MaxSessionFaults /\ sessionFaults' = sessionFaults + 1
    /\ Done(h)
    /\ UNCHANGED <<accessKeys, refreshKeys, origin, issued>>

SessionNext ==
    \/ \E h \in SessionHandlers :
          \/ CreateAuthSession(h) \/ RevokeRefreshToken(h) \/ RevokeToken(h)
          \/ SignAccessToken(h) \/ SignRefreshToken(h)
          \/ LogoutRefresh(h) \/ LogoutAccess(h) \/ SessionFails(h)
          \/ \E s \in issued : RefreshAuthSession(h, s) \/ RevokeAuthSession(h, s)
    \/ \E s \in accessKeys \cup refreshKeys : ExpireKey(s)

SessionSpec == SessionInit /\ [][SessionNext]_sessionVars
-------------------------------------------------------------------------------
Successors(s) == {n \in Drawn : origin[n] = s}

\* One refresh token buys one new session, or as many as there were requests
\* that had read its key before the first of them deleted it.
RefreshesOverlap ==
    \A s \in Drawn : Cardinality(Successors(s)) <= Cardinality(SessionHandlers)

UnderWay(s) == \E h \in SessionHandlers : s \in {sessionRequest[h].old, sessionRequest[h].new}

\* A session that can still be used can still be refreshed: an access key
\* outlives its refresh key only where a request failed between the two
\* commands that set or delete them.
AccessOutlivesByFaults ==
    Cardinality({s \in accessKeys \ refreshKeys : ~UnderWay(s)}) <= sessionFaults

Ended(s) ==
    /\ s \in issued \ refreshKeys
    /\ \A h \in SessionHandlers :
          sessionRequest[h].old = s => IsAt(h, "logout") \/ IsAt(h, "logoutAccess")

\* Once a session is logged out, refreshed or expired, and the refreshes that
\* had read its key are over, its keys never come back and no session ever
\* follows from it.
EndedStaysEnded ==
    [][\A s \in Drawn : Ended(s) =>
          /\ Ended(s)'
          /\ {n \in DOMAIN origin' : origin'[n] = s} = Successors(s)]_sessionVars

\* No session appears or stays behind that overlapping or failed requests do
\* not account for.
SessionsAccounted == RefreshesOverlap /\ AccessOutlivesByFaults
===============================================================================
