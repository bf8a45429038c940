--------------------------- MODULE AuthSessions ---------------------------
(***************************************************************************)
(* Sessions: login, refresh and logout (src/api/routes.py) over the        *)
(* PostgreSQL store of users and refresh tokens (src/api/auth_store.py),   *)
(* and the browser's ApiClient, which refreshes its session when a request *)
(* is refused (frontend/src/api.ts).                                       *)
(*                                                                         *)
(* Every call of the store opens a connection and is one statement or one  *)
(* transaction; a handler awaits several.  A browser may have several      *)
(* requests in progress, and each that is refused refreshes the session.   *)
(* Answers may be lost, and the server may stop between two statements.    *)
(*                                                                         *)
(* Tokens are numbered as they are issued; a login starts a family, named  *)
(* by its first token.  A number stands for the token's id and hash, which *)
(* identify it together.  Access tokens are not modelled: nothing is       *)
(* stored of them.  token_version never changes in the source.             *)
(***************************************************************************)
EXTENDS Integers

CONSTANTS Users,      \* accounts of a tenant, one browser each
          Calls,      \* requests in progress
          MaxTokens   \* bound: refresh tokens issued

ASSUME TokensAssumption == MaxTokens \in Nat

VARIABLES disabled,   \* auth_users.disabled, by user
          tokens,     \* rows of auth_refresh_tokens
          session,    \* the refresh token a browser holds, or NoToken
          request     \* requests and the handlers that answer them

auth_vars == <<disabled, tokens, session, request>>

Tokens == 1..MaxTokens
NoToken == 0
Unissued == [status |-> "unissued"]
TokenRows == [user : Users, family : Tokens, replaced_by : Tokens \cup {NoToken},
              status : {"active", "revoked", "expired"}]
Resting == [at |-> "idle"]
Stages == {"login", "storing", "refresh", "user", "rotate", "logout", "answer", "denied"}
Handlers == [at : Stages, user : Users, token : Tokens \cup {NoToken}]

Issued == {t \in Tokens : tokens[t] # Unissued}
Active(t) == t \in Issued /\ tokens[t].status = "active"
Fresh == {t \in Tokens : t \notin Issued /\ \A u \in Tokens : u < t => u \in Issued}

Stage(r, at) == request[r].at = at
Proceeds(r, at) == request' = [request EXCEPT ![r].at = at]
Closes(r) == request' = [request EXCEPT ![r] = Resting]

(* Faulty: the rotation trusts the lookup that came before it. *)
WasActive(t) == t \in Issued

(* rotate_refresh_token: its UPDATE finds the token of the user active. *)
Rotatable(t) == Active(t)

-----------------------------------------------------------------------------
(* login: find_user_by_login and the password, then store_refresh_token. *)
LoginSent(r, u) ==
  /\ Stage(r, "idle") /\ session[u] = NoToken
  /\ request' = [request EXCEPT ![r] = [at |-> "login", user |-> u, token |-> NoToken]]
  /\ UNCHANGED <<disabled, tokens, session>>

LoginChecked(r) ==
  /\ Stage(r, "login")
  /\ \/ ~ disabled[request[r].user] /\ Proceeds(r, "storing")
     \/ Proceeds(r, "denied")
  /\ UNCHANGED <<disabled, tokens, session>>

LoginStored(r) ==
  /\ Stage(r, "storing")
  /\ \E t \in Fresh :
       /\ tokens' = [tokens EXCEPT ![t] =
                       [user |-> request[r].user, family |-> t,
                        replaced_by |-> NoToken, status |-> "active"]]
       /\ request' = [request EXCEPT ![r].at = "answer", ![r].token = t]
  /\ UNCHANGED <<disabled, session>>

-----------------------------------------------------------------------------
(* refresh: get_active_refresh_token, get_user and rotate_refresh_token. *)

(* refreshSession: a request of the browser was refused. *)
RefreshSent(r, u) ==
  /\ Stage(r, "idle") /\ session[u] # NoToken
  /\ request' = [request EXCEPT ![r] = [at |-> "refresh", user |-> u, token |-> session[u]]]
  /\ UNCHANGED <<disabled, tokens, session>>

ActiveFound(r) ==
  /\ Stage(r, "refresh")
  /\ Proceeds(r, IF Active(request[r].token) THEN "user" ELSE "denied")
  /\ UNCHANGED <<disabled, tokens, session>>

UserFound(r) ==
  /\ Stage(r, "user")
  /\ Proceeds(r, IF disabled[request[r].user] THEN "denied" ELSE "rotate")
  /\ UNCHANGED <<disabled, tokens, session>>

(* The old token is revoked and the new one inserted in one transaction. *)
Rotated(r) ==
  LET old == request[r].token IN
  /\ Stage(r, "rotate") /\ Rotatable(old)
  /\ \E t \in Fresh :
       /\ tokens' = [tokens EXCEPT
            ![old].status = "revoked", ![old].replaced_by = t,
            ![t] = [user |-> request[r].user, family |-> tokens[old].family,
                    replaced_by |-> NoToken, status |-> "active"]]
       /\ request' = [request EXCEPT ![r].at = "answer", ![r].token = t]
  /\ UNCHANGED <<disabled, session>>

RotationRefused(r) ==
  /\ Stage(r, "rotate") /\ ~ Rotatable(request[r].token)
  /\ Proceeds(r, "denied")
  /\ UNCHANGED <<disabled, tokens, session>>

-----------------------------------------------------------------------------
(* handleLogout clears the session, then asks the server to revoke it. *)
LogoutSent(r, u) ==
  /\ Stage(r, "idle") /\ session[u] # NoToken
  /\ session' = [session EXCEPT ![u] = NoToken]
  /\ request' = [request EXCEPT ![r] = [at |-> "logout", user |-> u, token |-> session[u]]]
  /\ UNCHANGED <<disabled, tokens>>

(* revoke_refresh_token keeps an earlier revocation. *)
LoggedOut(r) ==
  /\ Stage(r, "logout")
  /\ tokens' = [tokens EXCEPT ![request[r].token].status = "revoked"]
  /\ Closes(r)
  /\ UNCHANGED <<disabled, session>>

-----------------------------------------------------------------------------
(* setSession: the browser keeps the tokens it is given, whatever it did in  *)
(* the meantime.                                                             *)
Answered(r) ==
  /\ Stage(r, "answer")
  /\ session' = [session EXCEPT ![request[r].user] = request[r].token]
  /\ Closes(r)
  /\ UNCHANGED <<disabled, tokens>>

(* A refusal clears the session of the browser. *)
Denied(r) ==
  /\ Stage(r, "denied")
  /\ session' = [session EXCEPT ![request[r].user] = NoToken]
  /\ Closes(r)
  /\ UNCHANGED <<disabled, tokens>>

(* The answer is lost, or the server stops: the browser sees an error that   *)
(* is not a refusal, and keeps what it has.                                  *)
AnswerLost(r) ==
  /\ ~ Stage(r, "idle")
  /\ Closes(r)
  /\ UNCHANGED <<disabled, tokens, session>>

(* upsert_user, from the administration script. *)
UserUpserted(u) ==
  /\ disabled' = [disabled EXCEPT ![u] = ~ @]
  /\ UNCHANGED <<tokens, session, request>>

TokenExpires(t) ==
  /\ Active(t)
  /\ tokens' = [tokens EXCEPT ![t].status = "expired"]
  /\ UNCHANGED <<disabled, session, request>>

-----------------------------------------------------------------------------
AuthInit ==
  /\ disabled = [u \in Users |-> FALSE]
  /\ tokens = [t \in Tokens |-> Unissued]
  /\ session = [u \in Users |-> NoToken]
  /\ request = [r \in Calls |-> Resting]

AuthNext ==
  \/ \E r \in Calls :
       \/ \E u \in Users : LoginSent(r, u) \/ RefreshSent(r, u) \/ LogoutSent(r, u)
       \/ LoginChecked(r) \/ LoginStored(r)
       \/ ActiveFound(r) \/ UserFound(r) \/ Rotated(r) \/ RotationRefused(r)
       \/ LoggedOut(r) \/ Answered(r) \/ Denied(r) \/ AnswerLost(r)
  \/ \E u \in Users : UserUpserted(u)
  \/ \E t \in Tokens : TokenExpires(t)

AuthSpec == AuthInit /\ [][AuthNext]_auth_vars

-----------------------------------------------------------------------------
(* The values of the accounts, tokens, sessions and requests. *)
AuthTypeOK ==
  /\ disabled \in [Users -> BOOLEAN]
  /\ tokens \in [Tokens -> TokenRows \cup {Unissued}]
  /\ session \in [Users -> Tokens \cup {NoToken}]
  /\ request \in [Calls -> Handlers \cup {Resting}]

(* A refresh token is used once: however many requests of a browser refresh  *)
(* with it, whatever answers are lost, a login has at most one active token, *)
(* a token that was replaced is never active again, and no two tokens are    *)
(* replaced by the same one.                                                 *)
TokensAreOneTime ==
  /\ \A s, t \in Tokens : Active(s) /\ Active(t) /\ s # t =>
       tokens[s].family # tokens[t].family
  /\ \A s \in Issued : tokens[s].replaced_by # NoToken =>
       /\ tokens[s].status = "revoked"
       /\ tokens[s].replaced_by \in Issued
       /\ tokens[tokens[s].replaced_by].user = tokens[s].user
       /\ \A t \in Issued : tokens[t].replaced_by = tokens[s].replaced_by => t = s
=============================================================================
