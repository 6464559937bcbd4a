--------------------------- MODULE PasswordReset ---------------------------
(***************************************************************************)
(* The reset of a subscriber's password by a link in an e-mail.            *)
(*                                                                         *)
(* A token stands for the link and for its row in password_reset_tokens.   *)
(* A request loads what it tests when its session opens and writes at its  *)
(* commit; the UPDATE that uses up older tokens sees what was committed    *)
(* before it.  The rows that have an address are those of Subscription:    *)
(* they appear and never go or change address (its AddressIsKept).         *)
(*                                                                         *)
(* Left out: the hashes, and which row is taken where several subscriptions*)
(* have one address (the query has LIMIT 1 and no order).                  *)
(***************************************************************************)
EXTENDS Naturals

CONSTANTS
  Addresses,     \* as forgot_password compares them: in lower case
  Tokens,        \* secrets, each generated at most once
  Requests,      \* requests in flight at one time
  NoToken, NoRequest

VARIABLES
  known,         \* addresses for which aiselect_subscriptions has a row
  token,         \* password_reset_tokens
  expired,       \* tokens whose hour is over
  request,       \* what each request in flight will do
  mailbox,       \* links that have reached their addressee
  uses,          \* how often each token has set its subscriber's password
  latest,        \* history: the last token committed for an address
  raced          \* history: addresses of which two requests overlapped

resetVars == <<known, token, expired, request, mailbox, uses, latest, raced>>

Token == [email : Addresses, used : BOOLEAN]

\* `old` are the tokens a new one replaces.
Request == [kind : {"forgot", "reset"}, step : {"commit", "mail"}, email : Addresses,
            token : Tokens, old : SUBSET Tokens]

ASSUME NoTokenAssumption == NoToken \notin Tokens /\ NoToken \notin Token
ASSUME NoRequestAssumption == NoRequest \notin Request

ResetInit ==
  /\ known = {}
  /\ token = [t \in Tokens |-> NoToken]
  /\ expired = {}
  /\ request = [r \in Requests |-> NoRequest]
  /\ mailbox = {}
  /\ uses = [t \in Tokens |-> 0]
  /\ latest = [a \in Addresses |-> NoToken]
  /\ raced = {}
-----------------------------------------------------------------------------
Exists(t) == token[t] # NoToken
Live(t) == Exists(t) /\ ~token[t].used /\ t \notin expired

Held == {request[r].token : r \in {q \in Requests : request[q] # NoRequest}}

Begin(r, kind, email, t, old) ==
  /\ request[r] = NoRequest
  /\ request' = [request EXCEPT
       ![r] = [kind |-> kind, step |-> "commit", email |-> email, token |-> t, old |-> old]]
  /\ raced' = IF \E q \in Requests : request[q] # NoRequest /\ request[q].email = email
              THEN raced \union {email} ELSE raced
  /\ UNCHANGED <<known, token, expired, mailbox, uses, latest>>

\* Fault: older links stay good.
ForgotPasswordKeepsOld(r, email) ==
  /\ email \in known
  /\ \E t \in Tokens \ Held :
       /\ ~Exists(t)
       /\ Begin(r, "forgot", email, t, {})

\* An address without a row gets the same answer and no link.
ForgotPassword(r, email) ==
  /\ email \in known
  /\ \E t \in Tokens \ Held :
       /\ ~Exists(t)
       /\ Begin(r, "forgot", email, t, {u \in Tokens : Live(u) /\ token[u].email = email})

\* The customer uses a link, perhaps twice.
ResetPassword(r, t) ==
  /\ t \in mailbox /\ Live(t)
  /\ token[t].email \in known
  /\ Begin(r, "reset", token[t].email, t, {})

CommitForgot(r) ==
  /\ request[r] # NoRequest /\ request[r].kind = "forgot" /\ request[r].step = "commit"
  /\ LET q == request[r] IN
       /\ token' = [u \in Tokens |->
            IF u = q.token THEN [email |-> q.email, used |-> FALSE]
            ELSE IF u \in q.old THEN [token[u] EXCEPT !.used = TRUE] ELSE token[u]]
       /\ latest' = [latest EXCEPT ![q.email] = q.token]
       /\ request' = [request EXCEPT ![r] = [q EXCEPT !.step = "mail"]]
  /\ UNCHANGED <<known, expired, mailbox, uses, raced>>

\* A failure of the e-mail is logged: see Drop.
SendLink(r) ==
  /\ request[r] # NoRequest /\ request[r].step = "mail"
  /\ mailbox' = mailbox \union {request[r].token}
  /\ request' = [request EXCEPT ![r] = NoRequest]
  /\ UNCHANGED <<known, token, expired, uses, latest, raced>>

\* Fault: the password is set and the token is not used up.
CommitResetOnly(r) ==
  /\ request[r] # NoRequest /\ request[r].kind = "reset"
  /\ uses' = [uses EXCEPT ![request[r].token] = @ + 1]
  /\ request' = [request EXCEPT ![r] = NoRequest]
  /\ UNCHANGED <<known, token, expired, mailbox, latest, raced>>

\* The token's row is updated by its key, whatever has become of it.
CommitReset(r) ==
  /\ request[r] # NoRequest /\ request[r].kind = "reset"
  /\ uses' = [uses EXCEPT ![request[r].token] = @ + 1]
  /\ token' = [token EXCEPT ![request[r].token].used = TRUE]
  /\ request' = [request EXCEPT ![r] = NoRequest]
  /\ UNCHANGED <<known, expired, mailbox, latest, raced>>

Drop(r) ==
  /\ request[r] # NoRequest
  /\ request' = [request EXCEPT ![r] = NoRequest]
  /\ UNCHANGED <<known, token, expired, mailbox, uses, latest, raced>>

Expire(t) ==
  /\ Exists(t) /\ t \notin expired
  /\ expired' = expired \union {t}
  /\ UNCHANGED <<known, token, request, mailbox, uses, latest, raced>>

\* A webhook commits a row with this address.
Subscribed(email) ==
  /\ email \notin known
  /\ known' = known \union {email}
  /\ UNCHANGED <<token, expired, request, mailbox, uses, latest, raced>>

ResetNext ==
  \/ \E r \in Requests :
       \/ \E email \in Addresses : ForgotPassword(r, email)
       \/ \E t \in Tokens : ResetPassword(r, t)
       \/ CommitForgot(r) \/ SendLink(r) \/ CommitReset(r) \/ Drop(r)
  \/ \E t \in Tokens : Expire(t)
  \/ \E email \in Addresses : Subscribed(email)

ResetSpec == ResetInit /\ [][ResetNext]_resetVars
-----------------------------------------------------------------------------
ResetTypeOK ==
  /\ known \subseteq Addresses
  /\ token \in [Tokens -> Token \union {NoToken}]
  /\ expired \subseteq Tokens
  /\ request \in [Requests -> Request \union {NoRequest}]
  /\ mailbox \subseteq Tokens
  /\ uses \in [Tokens -> Nat]
  /\ latest \in [Addresses -> Tokens \union {NoToken}]
  /\ raced \subseteq Addresses

\* Of an address at most one link is good at a time, unless two of its requests overlapped.
OneLiveLink ==
  \A t, u \in Tokens :
    Live(t) /\ Live(u) /\ token[t].email = token[u].email /\ token[t].email \notin raced
      => t = u

\* However requests overlap, none takes up a link that has set a password: only requests in
\* flight together set it twice.  Where no two requests of an address overlapped, a link
\* sets a password once, and no more when a newer link has been made.
LinkWorksOnce ==
  [][/\ \A r \in Requests :
          request'[r] \notin {NoRequest, request[r]} /\ request'[r].kind = "reset" =>
            uses[request'[r].token] = 0
     /\ \A t \in Tokens :
          uses'[t] # uses[t] /\ token[t].email \notin raced =>
            uses[t] = 0 /\ t = latest[token[t].email]]_resetVars
=============================================================================
