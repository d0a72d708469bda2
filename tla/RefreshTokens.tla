---- MODULE RefreshTokens ----
(***************************************************************************)
(* The refresh tokens of one user: auth/auth.service.ts.  A login starts a *)
(* family of tokens with a session; each refresh uses a token up and       *)
(* issues the next one of its family; a token that comes back after it was *)
(* used revokes the family.  A refresh is a lookup, an update and a        *)
(* transaction, a logout is two updates, and nothing holds them together.  *)
(***************************************************************************)
EXTENDS Integers

CONSTANTS MaxFamily,  \* bound: logins, numbered as they come
          MaxToken,   \* bound: tokens, numbered as they are issued
          Client      \* requests in flight at once

ASSUME TokensAssumption == MaxFamily \in Nat /\ MaxToken \in Nat

Family == 1 .. MaxFamily
Token  == 1 .. MaxToken

VARIABLES
    family,    \* RefreshTokenFamily: "none", "live", or the revokeReason
    session,   \* the Session row of each family
    token,     \* RefreshToken: its family, 0 before it is issued, and usedAt
    enabled,   \* isActive of the user
    client,    \* what each request has read and where it is
    shown,     \* history: times the token was used up, or presented after that; 2 for more
    forked,    \* history: families in which two refreshes looked one token up at a time
    disturbed, \* history: families whose logout or revocation crossed another request,
               \* was cut short, or came from a replay
    stranded   \* history: families a refresh of which ended between its two writes

tokensVars == <<family, session, token, enabled, client, shown, forked, disturbed, stranded>>

FamilyStates == {"none", "live", "LOGOUT", "DEVICE_LOGOUT", "TOKEN_REUSE_DETECTED"}
SessionStates == {"none", "live", "revoked"}
TokenRow == [family : Family \cup {0}, used : BOOLEAN]
ClientRecord == [pc : {"idle", "revoke", "mark", "issue", "sessions"},
                 token : Token \cup {0}, family : Family \cup {0}]

Away == [pc |-> "idle", token |-> 0, family |-> 0]
\* Requests that will still touch the family: a refresh of one of its tokens, a logout.
Refreshing(f) == \E c \in Client : client[c].pc \in {"mark", "issue"} /\ client[c].family = f
LoggingOut(f) == \E c \in Client : client[c].pc = "sessions" /\ client[c].family \in {0, f}

TokensInit ==
    /\ family = [f \in Family |-> "none"]
    /\ session = [f \in Family |-> "none"]
    /\ token = [t \in Token |-> [family |-> 0, used |-> FALSE]]
    /\ enabled = TRUE
    /\ client = [c \in Client |-> Away]
    /\ shown = [t \in Token |-> 0]
    /\ forked = {} /\ disturbed = {} /\ stranded = {}

(***************************************************************************)
(* Login and refresh                                                       *)
(***************************************************************************)

BeginLogin(c) ==
    /\ client[c].pc = "idle"
    /\ enabled
    /\ client' = [client EXCEPT ![c].pc = "issue"]
    /\ UNCHANGED <<family, session, token, enabled, shown, forked, disturbed, stranded>>

AcceptedWhileUnused(t) == ~token[t].used /\ enabled   \* mutant: revokedAt is not checked
\* A token of a revoked family, of a disabled user or past its expiry changes nothing.
Accepted(t) == ~token[t].used /\ family[token[t].family] = "live" /\ enabled

Counted(t) == [shown EXCEPT ![t] = IF @ = 0 THEN 1 ELSE 2]

Lookup(c, t) ==
    /\ client[c].pc = "idle"
    /\ token[t].family # 0
    /\ token[t].used \/ Accepted(t)
    /\ client' = [client EXCEPT ![c] = [pc |-> IF token[t].used THEN "revoke" ELSE "mark",
                                        token |-> t, family |-> token[t].family]]
    /\ shown' = IF token[t].used THEN Counted(t) ELSE shown
    /\ forked' = IF ~token[t].used /\ \E d \in Client : client[d].pc = "mark" /\ client[d].token = t
                 THEN forked \cup {token[t].family} ELSE forked
    /\ UNCHANGED <<family, session, token, enabled, disturbed, stranded>>

\* Reuse is answered with the family only: its session row stays as it is.
RevokeReused(c) ==
    /\ client[c].pc = "revoke"
    /\ family' = [family EXCEPT ![client[c].family] = "TOKEN_REUSE_DETECTED"]
    /\ client' = [client EXCEPT ![c] = Away]
    /\ disturbed' = disturbed \cup {client[c].family}
    /\ UNCHANGED <<session, token, enabled, shown, forked, stranded>>

MarkLost(c) ==   \* mutant: usedAt is not stored
    /\ client[c].pc = "mark"
    /\ client' = [client EXCEPT ![c].pc = "issue"]
    /\ shown' = Counted(client[c].token)
    /\ UNCHANGED <<family, session, token, enabled, forked, disturbed, stranded>>

\* An update by the token's hash, whoever has used it in the meantime.
MarkUsed(c) ==
    /\ client[c].pc = "mark"
    /\ token' = [token EXCEPT ![client[c].token].used = TRUE]
    /\ client' = [client EXCEPT ![c].pc = "issue"]
    /\ shown' = Counted(client[c].token)
    /\ UNCHANGED <<family, session, enabled, forked, disturbed, stranded>>

IssueUsed(c, t) ==   \* mutant: the new row is stamped as used
    /\ client[c].pc = "issue"
    /\ \A u \in Token : token[u].family = 0 <=> t <= u
    /\ \E f \in Family :
          /\ IF client[c].family = 0 THEN \A e \in Family : family[e] = "none" <=> f <= e
             ELSE f = client[c].family
          /\ token' = [token EXCEPT ![t] = [family |-> f, used |-> TRUE]]
          /\ family' = [family EXCEPT ![f] = IF @ = "none" THEN "live" ELSE @]
          /\ session' = [session EXCEPT ![f] = "live"]
          /\ disturbed' = IF LoggingOut(f) THEN disturbed \cup {f} ELSE disturbed
    /\ client' = [client EXCEPT ![c] = Away]
    /\ UNCHANGED <<enabled, shown, forked, stranded>>

\* issueTokens: the next token, in a new family if the request is a login, and the
\* session upserted with revokedAt null.
Issue(c, t) ==
    /\ client[c].pc = "issue"
    /\ \A u \in Token : token[u].family = 0 <=> t <= u
    /\ \E f \in Family :
          /\ IF client[c].family = 0 THEN \A e \in Family : family[e] = "none" <=> f <= e
             ELSE f = client[c].family
          /\ token' = [token EXCEPT ![t] = [family |-> f, used |-> FALSE]]
          /\ family' = [family EXCEPT ![f] = IF @ = "none" THEN "live" ELSE @]
          /\ session' = [session EXCEPT ![f] = "live"]
          /\ disturbed' = IF LoggingOut(f) THEN disturbed \cup {f} ELSE disturbed
    /\ client' = [client EXCEPT ![c] = Away]
    /\ UNCHANGED <<enabled, shown, forked, stranded>>

(***************************************************************************)
(* Logout                                                                  *)
(***************************************************************************)

Logout(c) ==
    /\ client[c].pc = "idle"
    /\ family' = [f \in Family |-> IF family[f] = "live" THEN "LOGOUT" ELSE family[f]]
    /\ client' = [client EXCEPT ![c].pc = "sessions"]
    /\ disturbed' = disturbed \cup {f \in Family : Refreshing(f)}
    /\ UNCHANGED <<session, token, enabled, shown, forked, stranded>>

LogoutSession(c, f) ==
    /\ client[c].pc = "idle"
    /\ family[f] # "none"
    /\ family' = [family EXCEPT ![f] = "DEVICE_LOGOUT"]
    /\ client' = [client EXCEPT ![c].pc = "sessions", ![c].family = f]
    /\ disturbed' = IF Refreshing(f) THEN disturbed \cup {f} ELSE disturbed
    /\ UNCHANGED <<session, token, enabled, shown, forked, stranded>>

\* The second update: the sessions of the family, or of all families the user has now.
CloseSessions(c) ==
    /\ client[c].pc = "sessions"
    /\ session' = [f \in Family |-> IF session[f] = "live" /\ client[c].family \in {0, f}
                                    THEN "revoked" ELSE session[f]]
    /\ client' = [client EXCEPT ![c] = Away]
    /\ UNCHANGED <<family, token, enabled, shown, forked, disturbed, stranded>>

\* The process stops between two statements, or the next of them throws.
Drop(c) ==
    /\ client[c].pc # "idle"
    /\ client' = [client EXCEPT ![c] = Away]
    /\ disturbed' = disturbed \cup
                       {f \in Family : client[c].pc \in {"revoke", "sessions"} /\ client[c].family \in {0, f}}
    /\ stranded' = stranded \cup {f \in Family : client[c].pc = "issue" /\ client[c].family = f}
    /\ UNCHANGED <<family, session, token, enabled, shown, forked>>

\* An admin deactivates the account, an Auth0 login or an admin activates it.
Enable == enabled' = ~enabled
          /\ UNCHANGED <<family, session, token, client, shown, forked, disturbed, stranded>>

TokensNext ==
    \/ \E c \in Client :
          \/ BeginLogin(c) \/ RevokeReused(c) \/ MarkUsed(c)
          \/ \E t \in Token : Lookup(c, t) \/ Issue(c, t)
          \/ Logout(c) \/ CloseSessions(c) \/ Drop(c)
          \/ \E f \in Family : LogoutSession(c, f)
    \/ Enable

TokensSpec == TokensInit /\ [][TokensNext]_tokensVars

(***************************************************************************)
(* Properties                                                              *)
(***************************************************************************)

\* Types of the rows and of the requests.
TokensTypeOK ==
    /\ family \in [Family -> FamilyStates]
    /\ session \in [Family -> SessionStates]
    /\ token \in [Token -> TokenRow]
    /\ enabled \in BOOLEAN
    /\ client \in [Client -> ClientRecord]
    /\ shown \in [Token -> 0 .. 2]
    /\ forked \subseteq Family /\ disturbed \subseteq Family /\ stranded \subseteq Family

\* A login chain has one usable token at most, and none while its successor is being
\* issued, unless two refreshes had looked the same token up before either used it.
OneUsableTokenUnlessForked ==
    \A f \in Family \ forked : \A t, u \in Token :
        /\ token[t].family = f /\ ~token[t].used
        /\ token[u].family = f /\ ~token[u].used
        => t = u /\ \A c \in Client : ~(client[c].pc = "issue" /\ client[c].family = f)

\* A family is taken for stolen only if a token of it was presented twice, and a token
\* presented twice leaves no live family behind, unless both requests overlapped, or
\* the second is being handled or was cut short.
StolenIfShownTwice ==
    \A f \in Family :
        /\ family[f] = "TOKEN_REUSE_DETECTED" =>
              \E t \in Token : token[t].family = f /\ shown[t] = 2
        /\ family[f] = "live" =>
              \A t \in Token : token[t].family = f /\ shown[t] = 2 =>
                  \/ f \in forked \cup disturbed
                  \/ \E c \in Client : client[c].pc = "revoke" /\ client[c].family = f

\* A token of the login that a refresh would be let in with, or the next one coming.
CanRefresh(f) == \E t \in Token : token[t].family = f /\ Accepted(t)
MidRefresh(f) == \E c \in Client : client[c].pc = "issue" /\ client[c].family = f

\* getSessions lists the logins that can be refreshed and no other, once logouts have
\* run to their end: unless the account is disabled, a refresh was cut short after it
\* had used the old token up and before the new one was stored, a login or a refresh
\* crossed the logout, or a replay revoked the family and not its session.
SessionsAreRefreshable ==
    \A f \in Family \ disturbed : ~LoggingOut(f) =>
        /\ CanRefresh(f) => session[f] = "live"
        /\ session[f] = "live" /\ enabled => CanRefresh(f) \/ MidRefresh(f) \/ f \in stranded
====
