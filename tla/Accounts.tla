------------------------------ MODULE Accounts ------------------------------
(***************************************************************************)
(* AuthService and UsersService: signing up and in, changing a password,   *)
(* and the link that resets a forgotten one.  An account is named by its   *)
(* e-mail, a hash by the password it verifies.                             *)
(*                                                                         *)
(* A process is a browser: its two cookies and the request it is waiting   *)
(* for.  As in Groups each awaited statement is a step; the transaction of *)
(* changePassword is one statement, and that of confirmResetPassword holds *)
(* the token row from its first write to its commit.                       *)
(***************************************************************************)
EXTENDS Naturals

CONSTANTS
  Users,     \* the e-mails
  Clients,   \* the browsers
  Passwords, \* the passwords people choose
  Null,      \* no row, no cookie, an unused field of a request
  Ops,       \* the operations clients ask for
  MaxCalls   \* bound: requests received in one behaviour

ASSUME AccountAssumption ==
  /\ Null \notin Users \cup Passwords
  /\ MaxCalls \in Nat

VARIABLES
  hash,   \* User.hash of each e-mail, Null if it has no account
  token,  \* the ActionToken row with the subject key of each account
  links,  \* reset links that have been mailed
  issued, \* raw tokens generated so far: the next one is new
  resets, \* history: passwords set by each row since it was last issued
  had,    \* history: the passwords each account has had
  login,  \* the cookie grouptodo_login: whom the client is signed in as
  jwt,    \* the cookie grouptodo_reset_password
  req,    \* the request each client waits for
  calls   \* requests received so far

rows    == <<hash, token, links, issued, resets, had>>
cookies == <<login, jwt>>
vars    == <<rows, cookies, req, calls>>

\* A row's hash is the number of its secret, 0 if the row is not in the table.
Token == [hash : Nat, consumed : BOOLEAN, expired : BOOLEAN]
NoToken == [hash |-> 0, consumed |-> FALSE, expired |-> FALSE]
Link == [user : Users, hash : Nat]

\* The id of a user's row goes with the user: sub stands for tokenId as well.
ResetJwt == [sub : Users \cup {Null}, aud : {"none", "reset-password"}]
NoJwt == [sub |-> Null, aud |-> "none"]

PC ==
  { "idle", "signup_read", "signup_insert", "signin", "change_read",
    "change_write", "reset_read", "reset_upsert", "reset_mail", "verify",
    "guard", "confirm_read", "confirm_consume", "confirm_write" }

NoRequest ==
  [ op |-> "none", pc |-> "idle", user |-> Null, old |-> Null, new |-> Null,
    hash |-> 0 ]

Request ==
  [ op : {"none"} \cup Ops, pc : PC, user : Users \cup {Null},
    old : Passwords \cup {Null}, new : Passwords \cup {Null}, hash : Nat ]

Goto(c, pc) == req' = [req EXCEPT ![c].pc = pc]

\* The handler answers: with a result, or with the error it threw.
Finish(c) == req' = [req EXCEPT ![c] = NoRequest]

Receive(c, r) ==
  /\ req[c] = NoRequest
  /\ r.op \in Ops
  /\ calls < MaxCalls
  /\ req' = [req EXCEPT ![c] = r]
  /\ calls' = calls + 1
  /\ UNCHANGED <<rows, cookies>>

\* The request dies before its transaction has committed.
Abort(c) ==
  /\ req[c] # NoRequest
  /\ Finish(c)
  /\ UNCHANGED <<rows, cookies, calls>>

\* A step that reads and goes on, or throws.
Proceed(c, allowed, pc) ==
  /\ IF allowed THEN Goto(c, pc) ELSE Finish(c)
  /\ UNCHANGED <<rows, cookies, calls>>

\* No other request holds the token row of u.
TokenUnlocked(c, u) ==
  \A d \in Clients \ {c} : ~(req[d].pc = "confirm_write" /\ req[d].user = u)

-----------------------------------------------------------------------------
(* POST api/auth/signup                                                    *)

PostSignup(c) ==
  \E u \in Users, n \in Passwords :
    Receive(c, [NoRequest EXCEPT !.op = "signup", !.pc = "signup_read",
                                 !.user = u, !.new = n])

SignupRead(c) ==
  /\ req[c].pc = "signup_read"
  /\ Proceed(c, hash[req[c].user] = Null, "signup_insert")

\* Mutant of SignupInsert: an upsert, or no unique index on User.email.
SignupUpsert(c) ==
  LET r == req[c] IN
  /\ r.pc = "signup_insert"
  /\ hash' = [hash EXCEPT ![r.user] = r.new]
  /\ had' = [had EXCEPT ![r.user] = @ \cup {r.new}]
  /\ Finish(c)
  /\ UNCHANGED <<token, links, issued, resets, cookies, calls>>

\* The unique index on User.email refuses the second of two.
SignupInsert(c) ==
  LET r == req[c] IN
  /\ r.pc = "signup_insert"
  /\ IF hash[r.user] = Null
     THEN /\ hash' = [hash EXCEPT ![r.user] = r.new]
          /\ had' = [had EXCEPT ![r.user] = {r.new}]
     ELSE UNCHANGED <<hash, had>>
  /\ Finish(c)
  /\ UNCHANGED <<token, links, issued, resets, cookies, calls>>

-----------------------------------------------------------------------------
(* POST api/auth/signin, signout and change-password                       *)

PostSignin(c) ==
  \E u \in Users, o \in Passwords :
    Receive(c, [NoRequest EXCEPT !.op = "signin", !.pc = "signin",
                                 !.user = u, !.old = o])

\* An unknown e-mail has no password that verifies.
Signin(c) ==
  LET r == req[c] IN
  /\ r.pc = "signin"
  /\ login' = IF hash[r.user] = r.old THEN [login EXCEPT ![c] = r.user]
                                      ELSE login
  /\ Finish(c)
  /\ UNCHANGED <<rows, jwt, calls>>

\* signout, or the end of the cookie's maxAge.  The token in it is not
\* revoked, which nothing here looks at.
PostSignout(c) ==
  /\ req[c] = NoRequest /\ login[c] # Null
  /\ login' = [login EXCEPT ![c] = Null]
  /\ UNCHANGED <<rows, jwt, req, calls>>

\* AccessTokenGuard verifies the cookie and looks nothing up.
PostChange(c) ==
  /\ login[c] # Null
  /\ \E o \in Passwords, n \in Passwords :
       Receive(c, [NoRequest EXCEPT !.op = "change", !.pc = "change_read",
                                    !.user = login[c], !.old = o, !.new = n])

ChangeRead(c) ==
  LET r == req[c] IN
  /\ r.pc = "change_read"
  /\ Proceed(c, hash[r.user] = r.old /\ r.old # r.new, "change_write")

\* update by id, whatever the hash is by now; the handler signs out.
ChangeWrite(c) ==
  LET r == req[c] IN
  /\ r.pc = "change_write"
  /\ hash' = [hash EXCEPT ![r.user] = r.new]
  /\ had' = [had EXCEPT ![r.user] = @ \cup {r.new}]
  /\ login' = [login EXCEPT ![c] = Null]
  /\ Finish(c)
  /\ UNCHANGED <<token, links, issued, resets, jwt, calls>>

-----------------------------------------------------------------------------
(* POST api/auth/reset-password                                            *)

PostReset(c) ==
  \E u \in Users :
    Receive(c, [NoRequest EXCEPT !.op = "reset", !.pc = "reset_read",
                                 !.user = u])

ResetRead(c) ==
  /\ req[c].pc = "reset_read"
  /\ Proceed(c, hash[req[c].user] # Null, "reset_upsert")

\* One row per account: a second request gives it a new secret.
ResetUpsert(c) ==
  LET u == req[c].user
      n == issued + 1
  IN
  /\ req[c].pc = "reset_upsert"
  /\ TokenUnlocked(c, u)
  /\ token' = [token EXCEPT ![u] =
                 [hash |-> n, consumed |-> FALSE, expired |-> FALSE]]
  /\ issued' = n
  /\ resets' = [resets EXCEPT ![u] = 0]
  /\ req' = [req EXCEPT ![c].pc = "reset_mail", ![c].hash = n]
  /\ UNCHANGED <<hash, links, had, cookies, calls>>

ResetMail(c) ==
  LET r == req[c] IN
  /\ r.pc = "reset_mail"
  /\ links' = links \cup {[user |-> r.user, hash |-> r.hash]}
  /\ Finish(c)
  /\ UNCHANGED <<hash, token, issued, resets, had, cookies, calls>>

\* Fifteen minutes have passed.
Expire(u) ==
  /\ token[u].hash # 0 /\ ~token[u].expired
  /\ token' = [token EXCEPT ![u].expired = TRUE]
  /\ UNCHANGED <<hash, links, issued, resets, had, cookies, req, calls>>

-----------------------------------------------------------------------------
(* GET api/auth/verify-reset-token/:id/:token                              *)

GetVerify(c) ==
  \E l \in links :
    Receive(c, [NoRequest EXCEPT !.op = "verify", !.pc = "verify",
                                 !.user = l.user, !.hash = l.hash])

\* signResetPasswordToken sets a lifetime, the module a secret, and neither an
\* audience.
VerifyToken(c) ==
  LET r == req[c]
      t == token[r.user]
  IN
  /\ r.pc = "verify"
  /\ jwt' = IF t.hash = r.hash /\ ~t.consumed /\ ~t.expired
            THEN [jwt EXCEPT ![c] = [sub |-> r.user, aud |-> "none"]]
            ELSE jwt
  /\ Finish(c)
  /\ UNCHANGED <<rows, login, calls>>

\* Ten minutes have passed.
JwtExpires(c) ==
  /\ req[c] = NoRequest /\ jwt[c] # NoJwt
  /\ jwt' = [jwt EXCEPT ![c] = NoJwt]
  /\ UNCHANGED <<rows, login, req, calls>>

-----------------------------------------------------------------------------
(* POST api/auth/reset-password/confirm                                    *)

PostConfirm(c) ==
  \E n \in Passwords :
    Receive(c, [NoRequest EXCEPT !.op = "confirm", !.pc = "guard", !.new = n])

\* The route is not Public, so AccessTokenGuard comes first; then the strategy
\* of ResetPasswordTokenGuard demands an audience.
ConfirmGuards(c) ==
  /\ req[c].pc = "guard"
  /\ IF /\ login[c] # Null
        /\ jwt[c].sub # Null /\ jwt[c].aud = "reset-password"
     THEN req' = [req EXCEPT ![c].pc = "confirm_read", ![c].user = jwt[c].sub]
     ELSE Finish(c)
  /\ UNCHANGED <<rows, cookies, calls>>

\* confirmResetPassword called past the guards, as the tests of the service
\* call it, with the ids verifyResetToken has signed.
CallConfirm(c) ==
  /\ jwt[c].sub # Null
  /\ \E n \in Passwords :
       Receive(c, [NoRequest EXCEPT !.op = "confirm", !.pc = "confirm_read",
                                    !.user = jwt[c].sub, !.new = n])

\* A confirmation that differs from the password is refused here too, which
\* Abort covers.
ConfirmRead(c) ==
  LET r == req[c] IN
  /\ r.pc = "confirm_read"
  /\ Proceed(c, hash[r.user] \notin {Null, r.new}, "confirm_consume")

\* The where clause of the updateMany.  A row that expires after the now it
\* compares with, and before the update, is one that expires after the update.
Consumable(t) == t.hash # 0 /\ ~t.consumed /\ ~t.expired

\* Mutant of ConfirmConsume: the two writes are not one transaction.
ConfirmConsumeAlone(c) ==
  LET u == req[c].user IN
  /\ req[c].pc = "confirm_consume"
  /\ TokenUnlocked(c, u)
  /\ Consumable(token[u])
  /\ token' = [token EXCEPT ![u].consumed = TRUE]
  /\ Goto(c, "confirm_write")
  /\ UNCHANGED <<hash, links, issued, resets, had, cookies, calls>>

ConfirmConsume(c) ==
  LET u == req[c].user IN
  /\ req[c].pc = "confirm_consume"
  /\ TokenUnlocked(c, u)
  /\ Proceed(c, Consumable(token[u]), "confirm_write")

\* The new hash, and the commit of both writes.  Past the guards there is no
\* controller to clear the cookie: what was signed may be tried again.
ConfirmWrite(c) ==
  LET r == req[c] IN
  /\ r.pc = "confirm_write"
  /\ token' = [token EXCEPT ![r.user].consumed = TRUE]
  /\ hash' = [hash EXCEPT ![r.user] = r.new]
  /\ had' = [had EXCEPT ![r.user] = @ \cup {r.new}]
  /\ resets' = [resets EXCEPT ![r.user] = @ + 1]
  /\ Finish(c)
  /\ UNCHANGED <<links, issued, cookies, calls>>

-----------------------------------------------------------------------------

\* Some people have signed up before.
Init ==
  /\ hash \in [Users -> Passwords \cup {Null}]
  /\ token = [u \in Users |-> NoToken]
  /\ links = {}
  /\ issued = 0
  /\ resets = [u \in Users |-> 0]
  /\ had = [u \in Users |-> {hash[u]} \ {Null}]
  /\ login = [c \in Clients |-> Null]
  /\ jwt = [c \in Clients |-> NoJwt]
  /\ req = [c \in Clients |-> NoRequest]
  /\ calls = 0

Call(c) ==
  \/ PostSignup(c) \/ PostSignin(c) \/ PostSignout(c) \/ PostChange(c)
  \/ PostReset(c) \/ GetVerify(c) \/ PostConfirm(c) \/ CallConfirm(c)

Step(c) ==
  \/ SignupRead(c) \/ SignupInsert(c) \/ Signin(c)
  \/ ChangeRead(c) \/ ChangeWrite(c)
  \/ ResetRead(c) \/ ResetUpsert(c) \/ ResetMail(c) \/ VerifyToken(c)
  \/ ConfirmGuards(c)
  \/ ConfirmRead(c) \/ ConfirmConsume(c) \/ ConfirmWrite(c)

Next ==
  \/ \E c \in Clients : Call(c) \/ Step(c) \/ Abort(c) \/ JwtExpires(c)
  \/ \E u \in Users : Expire(u)

Spec == Init /\ [][Next]_vars

-----------------------------------------------------------------------------

TypeOK ==
  /\ hash \in [Users -> Passwords \cup {Null}]
  /\ token \in [Users -> Token]
  /\ links \subseteq Link
  /\ issued \in Nat
  /\ resets \in [Users -> Nat]
  /\ had \in [Users -> SUBSET Passwords]
  /\ login \in [Clients -> Users \cup {Null}]
  /\ jwt \in [Clients -> ResetJwt]
  /\ req \in [Clients -> Request]
  /\ calls \in 0 .. MaxCalls

\* The password of an account is replaced only by a request that has quoted a
\* password of that account, or that holds its unused reset row: not by the
\* second of two sign-ups that both found the e-mail free, nor by a request
\* that decided for another account.  (One it has had, not the present one:
\* changePassword verifies against a hash it read before its transaction.)
PasswordsChangeForCause ==
  [][\A u \in Users :
       hash[u] # Null /\ hash'[u] # hash[u] =>
         \E c \in Clients :
           /\ req[c].user = u /\ req'[c] = NoRequest
           /\ \/ req[c].op = "change" /\ req[c].old \in had[u]
              \/ /\ req[c].op = "confirm"
                 /\ ~token[u].consumed /\ token'[u].consumed]_vars

\* A reset row sets at most one password for each time it was issued, and is
\* spent by the very step that sets it, however many requests follow its link
\* at once, whichever of them dies between the two writes, and whatever
\* rotates the row meanwhile: the rows behave like those of OneTimeToken.
TokenState ==
  [u \in Users |-> IF token[u].hash = 0 THEN "none"
                   ELSE IF token[u].consumed THEN "spent" ELSE "live"]

OneTime ==
  INSTANCE OneTimeToken WITH Subjects <- Users, state <- TokenState,
                             uses <- resets

ResetIsOneTime == OneTime!Spec

-----------------------------------------------------------------------------
(* What a comment promises and the code does not do.                       *)

\* auth.service.ts:169: verifyResetToken "issues a short-lived JWT for password
\* updates": the route of the update lets a client in that presents it.
ResetTokenOpensItsRoute ==
  [][\A c \in Clients :
       ConfirmGuards(c) /\ login[c] # Null /\ jwt[c].sub # Null =>
         req'[c].pc = "confirm_read"]_vars

=============================================================================
