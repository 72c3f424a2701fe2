--------------------------- MODULE Accounts_proofs ---------------------------
(***************************************************************************)
(* For every set of people, browsers and passwords: an account's password  *)
(* is replaced only for cause, and the rows of the reset links are         *)
(* one-time tokens.  Both need to know what a request has established by   *)
(* the time it writes: that the password it quoted was the account's, and  *)
(* that the row it is about to spend is unused and held by nobody else.    *)
(***************************************************************************)
EXTENDS Accounts, TLAPS

\* The parameters a handler may rely on, by where it stands.
Handler(r) ==
  /\ r.pc \notin {"idle", "guard"} => r.user \in Users
  /\ r.pc \in { "signup_read", "signup_insert", "change_read", "change_write",
                "guard", "confirm_read", "confirm_consume", "confirm_write" } =>
       r.new \in Passwords
  /\ r.pc \in {"change_read", "change_write"} =>
       r.op = "change" /\ r.old \in Passwords
  /\ r.pc \in {"guard", "confirm_read", "confirm_consume", "confirm_write"} =>
       r.op = "confirm"

GoodRequest(r) == r \in Request /\ Handler(r)

TypeInv == TypeOK /\ \A c \in Clients : GoodRequest(req[c])

\* Of the rows: a reset row counts its one use, and what an account has had
\* begins with its first password.
RowInv ==
  /\ \A u \in Users : resets[u] = IF token[u].consumed THEN 1 ELSE 0
  /\ \A u \in Users : token[u].hash = 0 => ~token[u].consumed
  /\ \A u \in Users : IF hash[u] = Null THEN had[u] = {} ELSE hash[u] \in had[u]

\* What a request has established when it is about to write.
Backed(r) ==
  /\ r.pc = "change_write" => r.old \in had[r.user]
  /\ r.pc = "confirm_write" =>
       token[r.user].hash # 0 /\ ~token[r.user].consumed

\* A token row is held by one transaction at a time.
Exclusive ==
  \A c, d \in Clients :
    c # d /\ req[c].pc = "confirm_write" /\ req[d].pc = "confirm_write" =>
      req[c].user # req[d].user

AccountInv ==
  /\ TypeInv /\ RowInv /\ Exclusive
  /\ \A c \in Clients : Backed(req[c])

-----------------------------------------------------------------------------

LEMMA NoRequestGood == GoodRequest(NoRequest)
BY DEF GoodRequest, Request, Handler, NoRequest, PC

LEMMA InitInv == AccountAssumption /\ Init => AccountInv
<1> SUFFICES ASSUME AccountAssumption, Init  PROVE AccountInv
  OBVIOUS
<1>1. TypeOK
  BY NoRequestGood DEF AccountAssumption, Init, TypeOK, Token, NoToken, Link,
                       ResetJwt, NoJwt, GoodRequest
<1>2. \A c \in Clients : GoodRequest(req[c]) /\ Backed(req[c])
  BY NoRequestGood DEF Init, Backed, NoRequest
<1>3. RowInv /\ Exclusive
  BY DEF Init, RowInv, Exclusive, NoToken, NoRequest
<1> QED BY <1>1, <1>2, <1>3 DEF AccountInv, TypeInv

\* A step of c that leaves all rows alone and does not begin to write.
LEMMA QuietStep ==
  ASSUME AccountInv, UNCHANGED rows, NEW c \in Clients, NEW r,
         req' = [req EXCEPT ![c] = r], GoodRequest(r), calls' \in 0 .. MaxCalls,
         login' \in [Clients -> Users \cup {Null}],
         jwt' \in [Clients -> ResetJwt],
         r.pc \notin {"change_write", "confirm_write"}
  PROVE  AccountInv'
<1>1. TypeInv'
  BY DEF AccountInv, TypeInv, TypeOK, rows, GoodRequest
<1>2. RowInv'
  BY DEF AccountInv, RowInv, rows
<1>3. (\A d \in Clients : Backed(req[d]))'
  BY DEF AccountInv, Backed, rows, TypeInv, TypeOK
<1>4. Exclusive'
  BY DEF AccountInv, Exclusive, TypeInv, TypeOK
<1> QED BY <1>1, <1>2, <1>3, <1>4 DEF AccountInv

LEMMA FinishStep ==
  ASSUME AccountInv, UNCHANGED <<rows, calls>>, NEW c \in Clients, Finish(c),
         login' \in [Clients -> Users \cup {Null}],
         jwt' \in [Clients -> ResetJwt]
  PROVE  AccountInv'
BY QuietStep, NoRequestGood DEF Finish, AccountInv, TypeInv, TypeOK, NoRequest

LEMMA GotoGood ==
  ASSUME AccountInv, NEW c \in Clients, NEW pc \in PC,
         Handler([req[c] EXCEPT !.pc = pc])
  PROVE  GoodRequest([req[c] EXCEPT !.pc = pc])
BY DEF AccountInv, TypeInv, GoodRequest, Request

LEMMA ProceedStep ==
  ASSUME AccountInv, NEW c \in Clients, NEW allowed \in BOOLEAN,
         NEW pc \in PC \ {"change_write", "confirm_write"},
         Proceed(c, allowed, pc), Handler([req[c] EXCEPT !.pc = pc])
  PROVE  AccountInv'
<1>1. UNCHANGED <<rows, login, jwt, calls>>
  BY DEF Proceed, cookies
<1>2. CASE allowed
  <2>1. req' = [req EXCEPT ![c] = [req[c] EXCEPT !.pc = pc]]
    BY <1>2 DEF Proceed, Goto
  <2>2. [req[c] EXCEPT !.pc = pc].pc = pc
    BY DEF AccountInv, TypeInv, GoodRequest, Request
  <2> QED BY <1>1, <2>1, <2>2, GotoGood, QuietStep
             DEF AccountInv, TypeInv, TypeOK
<1>3. CASE ~allowed
  BY <1>1, <1>3, FinishStep DEF Proceed, AccountInv, TypeInv, TypeOK
<1> QED BY <1>2, <1>3

-----------------------------------------------------------------------------
(* Clients' calls, and the steps that leave the rows alone.                *)

LEMMA ReceiveInv ==
  ASSUME AccountInv, NEW c \in Clients, NEW r, Receive(c, r), GoodRequest(r),
         r.pc \notin {"change_write", "confirm_write"}
  PROVE  AccountInv'
<1>1. calls' \in 0 .. MaxCalls
  BY AccountAssumption DEF Receive, AccountAssumption, AccountInv, TypeInv,
                           TypeOK
<1>2. UNCHANGED <<rows, login, jwt>>
  BY DEF Receive, cookies
<1> QED BY <1>1, <1>2, QuietStep DEF Receive, AccountInv, TypeInv, TypeOK

LEMMA CallInv == ASSUME AccountInv, NEW c \in Clients, Call(c)  PROVE AccountInv'
<1>1. CASE PostSignup(c)
  <2>1. PICK u \in Users, n \in Passwords :
          Receive(c, [NoRequest EXCEPT !.op = "signup", !.pc = "signup_read",
                                       !.user = u, !.new = n])
    BY <1>1 DEF PostSignup
  <2>2. GoodRequest([NoRequest EXCEPT !.op = "signup", !.pc = "signup_read",
                                      !.user = u, !.new = n])
    BY <2>1 DEF Receive, GoodRequest, Request, Handler, NoRequest, PC
  <2> QED BY <2>1, <2>2, ReceiveInv DEF NoRequest
<1>2. CASE PostSignin(c)
  <2>1. PICK u \in Users, o \in Passwords :
          Receive(c, [NoRequest EXCEPT !.op = "signin", !.pc = "signin",
                                       !.user = u, !.old = o])
    BY <1>2 DEF PostSignin
  <2>2. GoodRequest([NoRequest EXCEPT !.op = "signin", !.pc = "signin",
                                      !.user = u, !.old = o])
    BY <2>1 DEF Receive, GoodRequest, Request, Handler, NoRequest, PC
  <2> QED BY <2>1, <2>2, ReceiveInv DEF NoRequest
<1>3. CASE PostSignout(c)
  <2>1. UNCHANGED rows /\ login' = [login EXCEPT ![c] = Null]
        /\ UNCHANGED <<jwt, req, calls>>
    BY <1>3 DEF PostSignout
  <2> QED BY <2>1 DEF AccountInv, TypeInv, TypeOK, rows, RowInv, Exclusive,
                      Backed
<1>4. CASE PostChange(c)
  <2>1. PICK o \in Passwords, n \in Passwords :
          Receive(c, [NoRequest EXCEPT !.op = "change", !.pc = "change_read",
                                       !.user = login[c], !.old = o,
                                       !.new = n])
    BY <1>4 DEF PostChange
  <2>2. login[c] \in Users
    BY <1>4 DEF PostChange, AccountInv, TypeInv, TypeOK
  <2>3. GoodRequest([NoRequest EXCEPT !.op = "change", !.pc = "change_read",
                                      !.user = login[c], !.old = o, !.new = n])
    BY <2>1, <2>2 DEF Receive, GoodRequest, Request, Handler, NoRequest, PC
  <2> QED BY <2>1, <2>3, ReceiveInv DEF NoRequest
<1>5. CASE PostReset(c)
  <2>1. PICK u \in Users :
          Receive(c, [NoRequest EXCEPT !.op = "reset", !.pc = "reset_read",
                                       !.user = u])
    BY <1>5 DEF PostReset
  <2>2. GoodRequest([NoRequest EXCEPT !.op = "reset", !.pc = "reset_read",
                                      !.user = u])
    BY <2>1 DEF Receive, GoodRequest, Request, Handler, NoRequest, PC
  <2> QED BY <2>1, <2>2, ReceiveInv DEF NoRequest
<1>6. CASE GetVerify(c)
  <2>1. PICK l \in links :
          Receive(c, [NoRequest EXCEPT !.op = "verify", !.pc = "verify",
                                       !.user = l.user, !.hash = l.hash])
    BY <1>6 DEF GetVerify
  <2>2. l.user \in Users /\ l.hash \in Nat
    BY DEF AccountInv, TypeInv, TypeOK, Link
  <2>3. GoodRequest([NoRequest EXCEPT !.op = "verify", !.pc = "verify",
                                      !.user = l.user, !.hash = l.hash])
    BY <2>1, <2>2 DEF Receive, GoodRequest, Request, Handler, NoRequest, PC
  <2> QED BY <2>1, <2>3, ReceiveInv DEF NoRequest
<1>7. CASE PostConfirm(c)
  <2>1. PICK n \in Passwords :
          Receive(c, [NoRequest EXCEPT !.op = "confirm", !.pc = "guard",
                                       !.new = n])
    BY <1>7 DEF PostConfirm
  <2>2. GoodRequest([NoRequest EXCEPT !.op = "confirm", !.pc = "guard",
                                      !.new = n])
    BY <2>1 DEF Receive, GoodRequest, Request, Handler, NoRequest, PC
  <2> QED BY <2>1, <2>2, ReceiveInv DEF NoRequest
<1>8. CASE CallConfirm(c)
  <2>1. PICK n \in Passwords :
          Receive(c, [NoRequest EXCEPT !.op = "confirm", !.pc = "confirm_read",
                                       !.user = jwt[c].sub, !.new = n])
    BY <1>8 DEF CallConfirm
  <2>2. jwt[c].sub \in Users
    BY <1>8 DEF CallConfirm, AccountInv, TypeInv, TypeOK, ResetJwt
  <2>3. GoodRequest([NoRequest EXCEPT !.op = "confirm", !.pc = "confirm_read",
                                      !.user = jwt[c].sub, !.new = n])
    BY <2>1, <2>2 DEF Receive, GoodRequest, Request, Handler, NoRequest, PC
  <2> QED BY <2>1, <2>3, ReceiveInv DEF NoRequest
<1> QED BY <1>1, <1>2, <1>3, <1>4, <1>5, <1>6, <1>7, <1>8 DEF Call

LEMMA ReadInv ==
  ASSUME AccountInv, NEW c \in Clients,
         SignupRead(c) \/ ResetRead(c) \/ ConfirmRead(c)
  PROVE  AccountInv'
<1>1. req[c] \in Request /\ Handler(req[c])
  BY DEF AccountInv, TypeInv, GoodRequest
<1>2. CASE SignupRead(c)
  <2>1. Handler([req[c] EXCEPT !.pc = "signup_insert"])
    BY <1>1, <1>2 DEF SignupRead, Handler, Request
  <2> QED BY <1>2, <2>1, ProceedStep DEF SignupRead, PC
<1>3. CASE ResetRead(c)
  <2>1. Handler([req[c] EXCEPT !.pc = "reset_upsert"])
    BY <1>1, <1>3 DEF ResetRead, Handler, Request
  <2> QED BY <1>3, <2>1, ProceedStep DEF ResetRead, PC
<1>4. CASE ConfirmRead(c)
  <2>1. Handler([req[c] EXCEPT !.pc = "confirm_consume"])
    BY <1>1, <1>4 DEF ConfirmRead, Handler, Request
  <2> QED BY <1>4, <2>1, ProceedStep DEF ConfirmRead, PC
<1> QED BY <1>2, <1>3, <1>4

LEMMA CookieInv ==
  ASSUME AccountInv, NEW c \in Clients,
         Signin(c) \/ VerifyToken(c) \/ JwtExpires(c)
  PROVE  AccountInv'
<1>1. req[c] \in Request /\ Handler(req[c])
  BY DEF AccountInv, TypeInv, GoodRequest
<1>2. CASE Signin(c)
  <2>1. login' \in [Clients -> Users \cup {Null}]
    BY <1>1, <1>2 DEF Signin, Handler, AccountInv, TypeInv, TypeOK
  <2> QED BY <1>2, <2>1, FinishStep DEF Signin, AccountInv, TypeInv, TypeOK
<1>3. CASE VerifyToken(c)
  <2>1. [sub |-> req[c].user, aud |-> "none"] \in ResetJwt
    BY <1>1, <1>3 DEF VerifyToken, Handler, ResetJwt
  <2>2. jwt' \in [Clients -> ResetJwt]
    BY <1>3, <2>1 DEF VerifyToken, AccountInv, TypeInv, TypeOK
  <2> QED BY <1>3, <2>2, FinishStep DEF VerifyToken, AccountInv, TypeInv,
                                        TypeOK
<1>4. CASE JwtExpires(c)
  <2>1. /\ jwt' = [jwt EXCEPT ![c] = NoJwt]
        /\ UNCHANGED <<rows, login, req, calls>>
    BY <1>4 DEF JwtExpires
  <2>2. NoJwt \in ResetJwt
    BY DEF NoJwt, ResetJwt
  <2> QED BY <2>1, <2>2 DEF AccountInv, TypeInv, TypeOK, rows, RowInv,
                            Exclusive, Backed
<1> QED BY <1>2, <1>3, <1>4

LEMMA GuardsInv ==
  ASSUME AccountInv, NEW c \in Clients, ConfirmGuards(c)  PROVE AccountInv'
<1> DEFINE r == [req[c] EXCEPT !.pc = "confirm_read", !.user = jwt[c].sub]
<1>1. req[c] \in Request /\ Handler(req[c]) /\ req[c].pc = "guard"
  BY DEF AccountInv, TypeInv, GoodRequest, ConfirmGuards
<1>2. UNCHANGED <<rows, login, jwt, calls>>
  BY DEF ConfirmGuards, cookies
<1>3. CASE req' = [req EXCEPT ![c] = r] /\ jwt[c].sub # Null
  <2>1. jwt[c].sub \in Users
    BY <1>3 DEF AccountInv, TypeInv, TypeOK, ResetJwt
  <2>2. GoodRequest(r) /\ r.pc = "confirm_read"
    BY <1>1, <2>1 DEF GoodRequest, Handler, Request, PC
  <2> HIDE DEF r
  <2> QED BY <1>2, <1>3, <2>2, QuietStep DEF AccountInv, TypeInv, TypeOK
<1>4. CASE Finish(c)
  BY <1>2, <1>4, FinishStep DEF AccountInv, TypeInv, TypeOK
<1> QED BY <1>3, <1>4 DEF ConfirmGuards

-----------------------------------------------------------------------------
(* The reads that decide on a write: what they establish is Backed.        *)

\* A step of c that leaves all rows alone and stands before a write.
LEMMA CommitStep ==
  ASSUME AccountInv, NEW c \in Clients, NEW pc \in PC,
         Goto(c, pc), UNCHANGED <<rows, cookies, calls>>,
         Handler([req[c] EXCEPT !.pc = pc]),
         Backed([req[c] EXCEPT !.pc = pc]),
         pc = "confirm_write" => TokenUnlocked(c, req[c].user)
  PROVE  AccountInv'
<1> DEFINE r == [req[c] EXCEPT !.pc = pc]
<1>1. GoodRequest(r) /\ r.pc = pc /\ r.user = req[c].user
  BY GotoGood DEF AccountInv, TypeInv, GoodRequest, Request
<1>2. req' = [req EXCEPT ![c] = r]
  BY DEF Goto
<1>3. Backed(r)
  OBVIOUS
<1> HIDE DEF r
<1>4. TypeInv'
  BY <1>1, <1>2 DEF AccountInv, TypeInv, TypeOK, rows, cookies, GoodRequest
<1>5. RowInv'
  BY DEF AccountInv, RowInv, rows
<1>6. (\A d \in Clients : Backed(req[d]))'
  BY <1>2, <1>3 DEF AccountInv, Backed, rows, TypeInv, TypeOK
<1>7. Exclusive'
  BY <1>1, <1>2 DEF AccountInv, Exclusive, TypeInv, TypeOK, TokenUnlocked
<1> QED BY <1>4, <1>5, <1>6, <1>7 DEF AccountInv

LEMMA DecideInv ==
  ASSUME AccountInv, NEW c \in Clients, ChangeRead(c) \/ ConfirmConsume(c)
  PROVE  AccountInv'
<1>1. req[c] \in Request /\ Handler(req[c])
  BY DEF AccountInv, TypeInv, GoodRequest
<1>2. ASSUME Finish(c), UNCHANGED <<rows, cookies, calls>>  PROVE AccountInv'
  BY <1>2, FinishStep DEF cookies, AccountInv, TypeInv, TypeOK
<1>3. CASE ChangeRead(c)
  <2>1. CASE hash[req[c].user] = req[c].old /\ req[c].old # req[c].new
    <3>1. Handler([req[c] EXCEPT !.pc = "change_write"])
      BY <1>1, <1>3 DEF ChangeRead, Handler, Request
    <3>2. req[c].user \in Users /\ req[c].old # Null
      BY <1>1, <1>3, AccountAssumption
         DEF ChangeRead, Handler, AccountAssumption
    <3>3. Backed([req[c] EXCEPT !.pc = "change_write"])
      BY <1>1, <2>1, <3>2 DEF Backed, Request, AccountInv, RowInv
    <3> QED BY <1>3, <2>1, <3>1, <3>3, CommitStep DEF ChangeRead, Proceed, PC
  <2>2. CASE ~(hash[req[c].user] = req[c].old /\ req[c].old # req[c].new)
    BY <1>2, <1>3, <2>2 DEF ChangeRead, Proceed
  <2> QED BY <2>1, <2>2
<1>4. CASE ConfirmConsume(c)
  <2>1. CASE Consumable(token[req[c].user])
    <3>1. Handler([req[c] EXCEPT !.pc = "confirm_write"])
      BY <1>1, <1>4 DEF ConfirmConsume, Handler, Request
    <3>2. Backed([req[c] EXCEPT !.pc = "confirm_write"])
      BY <1>1, <2>1 DEF Consumable, Backed, Request
    <3> QED BY <1>4, <2>1, <3>1, <3>2, CommitStep
               DEF ConfirmConsume, Proceed, PC
  <2>2. CASE ~Consumable(token[req[c].user])
    BY <1>2, <1>4, <2>2 DEF ConfirmConsume, Proceed
  <2> QED BY <2>1, <2>2
<1> QED BY <1>3, <1>4

-----------------------------------------------------------------------------
(* The writes.  After each the request is answered, but for the upsert of  *)
(* a reset row, which goes on to its mail.                                 *)

LEMMA Answered ==
  ASSUME AccountInv, NEW c \in Clients, Finish(c)
  PROVE  /\ req' \in [Clients -> Request]
         /\ \A d \in Clients : GoodRequest(req'[d])
         /\ \A d \in Clients : req'[d].pc # "idle" => d # c /\ req'[d] = req[d]
         /\ Exclusive'
<1>1. NoRequest \in Request /\ NoRequest.pc = "idle"
  BY NoRequestGood DEF GoodRequest, NoRequest
<1>2. req' = [req EXCEPT ![c] = NoRequest]
  BY DEF Finish
<1>3. \A d \in Clients : IF d = c THEN req'[d] = NoRequest ELSE req'[d] = req[d]
  BY <1>2 DEF AccountInv, TypeInv, TypeOK
<1>4. \A d \in Clients : req'[d].pc # "idle" => d # c /\ req'[d] = req[d]
  BY <1>1, <1>3
<1>5. Exclusive'
  BY <1>4 DEF AccountInv, Exclusive
<1>6. req' \in [Clients -> Request]
  BY <1>1, <1>2 DEF AccountInv, TypeInv, TypeOK
<1>7. \A d \in Clients : GoodRequest(req'[d])
  BY <1>3, NoRequestGood DEF AccountInv, TypeInv
<1> QED BY <1>4, <1>5, <1>6, <1>7

\* A new password for u: what an account has had only grows.
LEMMA PasswordStep ==
  ASSUME AccountInv, NEW c \in Clients, Finish(c), NEW u \in Users,
         NEW n \in Passwords, NEW more, more = had[u] \cup {n},
         hash' = [hash EXCEPT ![u] = n], had' = [had EXCEPT ![u] = more],
         login' \in [Clients -> Users \cup {Null}],
         UNCHANGED <<token, links, issued, resets, jwt, calls>>
  PROVE  AccountInv'
<1>1. more \in SUBSET Passwords
  BY DEF AccountInv, TypeInv, TypeOK
<1>2. TypeInv'
  BY <1>1, Answered DEF AccountInv, TypeInv, TypeOK
<1>3. n # Null
  BY AccountAssumption DEF AccountAssumption
<1>4. RowInv'
  BY <1>3 DEF AccountInv, RowInv, TypeInv, TypeOK
<1>5. \A v \in Users : had[v] \subseteq had'[v]
  BY DEF AccountInv, TypeInv, TypeOK
<1>6. (\A d \in Clients : Backed(req[d]))'
  <2> SUFFICES ASSUME NEW d \in Clients, req'[d].pc # "idle"
               PROVE  Backed(req[d])'
    BY DEF Backed
  <2>1. req'[d] = req[d] /\ GoodRequest(req[d]) /\ Backed(req[d])
    BY Answered DEF AccountInv, TypeInv
  <2> QED BY <1>5, <2>1 DEF Backed, GoodRequest, Handler
<1> QED BY <1>2, <1>4, <1>6, Answered DEF AccountInv

LEMMA PasswordInv ==
  ASSUME AccountInv, NEW c \in Clients, SignupInsert(c) \/ ChangeWrite(c)
  PROVE  AccountInv'
<1> DEFINE u == req[c].user
           n == req[c].new
<1>1. u \in Users /\ n \in Passwords
  BY DEF AccountInv, TypeInv, GoodRequest, Handler, SignupInsert, ChangeWrite
<1>2. CASE SignupInsert(c)
  <2>1. CASE hash[u] = Null
    <3>1. had[u] \cup {n} = {n}
      BY <1>1, <2>1 DEF AccountInv, RowInv
    <3>2. /\ hash' = [hash EXCEPT ![u] = n] /\ had' = [had EXCEPT ![u] = {n}]
          /\ Finish(c)
          /\ UNCHANGED <<token, links, issued, resets, login, jwt, calls>>
      BY <1>2, <2>1 DEF SignupInsert, cookies
    <3> HIDE DEF u, n
    <3> QED BY <1>1, <3>1, <3>2, PasswordStep DEF AccountInv, TypeInv, TypeOK
  <2>2. CASE hash[u] # Null
    <3>1. Finish(c) /\ UNCHANGED <<rows, login, jwt, calls>>
      BY <1>2, <2>2 DEF SignupInsert, rows, cookies
    <3> QED BY <3>1, FinishStep DEF AccountInv, TypeInv, TypeOK
  <2> QED BY <2>1, <2>2
<1>3. CASE ChangeWrite(c)
  <2>1. /\ hash' = [hash EXCEPT ![u] = n]
        /\ had' = [had EXCEPT ![u] = had[u] \cup {n}]
        /\ login' = [login EXCEPT ![c] = Null] /\ Finish(c)
        /\ UNCHANGED <<token, links, issued, resets, jwt, calls>>
    BY <1>3 DEF ChangeWrite
  <2>2. login' \in [Clients -> Users \cup {Null}]
    BY <2>1 DEF AccountInv, TypeInv, TypeOK
  <2> HIDE DEF u, n
  <2> QED BY <1>1, <2>1, <2>2, PasswordStep
<1> QED BY <1>2, <1>3

LEMMA UpsertInv ==
  ASSUME AccountInv, NEW c \in Clients, ResetUpsert(c)  PROVE AccountInv'
<1> DEFINE u == req[c].user
           n == issued + 1
           fresh == [hash |-> n, consumed |-> FALSE, expired |-> FALSE]
           mailing == [req[c] EXCEPT !.pc = "reset_mail", !.hash = n]
<1>1. u \in Users /\ req[c] \in Request /\ Handler(req[c])
  BY DEF AccountInv, TypeInv, GoodRequest, Handler, ResetUpsert
<1>2. n \in Nat /\ n # 0
  BY DEF AccountInv, TypeInv, TypeOK
<1>3. /\ token' = [token EXCEPT ![u] = fresh]
      /\ resets' = [resets EXCEPT ![u] = 0]
      /\ issued' = n
      /\ req' = [req EXCEPT ![c] = mailing]
      /\ UNCHANGED <<hash, links, had, login, jwt, calls>>
  BY DEF ResetUpsert, cookies
<1>4. fresh \in Token /\ fresh.hash = n /\ ~fresh.consumed
  BY <1>2 DEF Token
<1>5. mailing \in Request /\ mailing.pc = "reset_mail"
  BY <1>1, <1>2 DEF Request, PC
<1>6. GoodRequest(mailing)
  BY <1>1, <1>5 DEF GoodRequest, Handler, Request, ResetUpsert
<1>7. \A d \in Clients \ {c} : req[d].pc = "confirm_write" => req[d].user # u
  BY DEF ResetUpsert, TokenUnlocked
<1> HIDE DEF u, n, fresh, mailing
<1>8. TypeInv'
  BY <1>1, <1>2, <1>3, <1>4, <1>6 DEF AccountInv, TypeInv, TypeOK, GoodRequest
<1>9. RowInv'
  BY <1>1, <1>2, <1>3, <1>4 DEF AccountInv, RowInv, TypeInv, TypeOK
<1>10. (\A d \in Clients : Backed(req[d]))'
  <2> SUFFICES ASSUME NEW d \in Clients  PROVE Backed(req[d])'
    OBVIOUS
  <2>1. CASE d = c
    BY <1>3, <1>5, <2>1 DEF Backed, AccountInv, TypeInv, TypeOK
  <2>2. CASE d # c
    <3>1. req'[d] = req[d]
      BY <1>3, <2>2 DEF AccountInv, TypeInv, TypeOK
    <3>2. req[d].pc = "confirm_write" => req[d].user \in Users \ {u}
      BY <1>7, <2>2 DEF AccountInv, TypeInv, GoodRequest, Handler
    <3>3. Backed(req[d])
      BY DEF AccountInv
    <3> QED BY <1>3, <3>1, <3>2, <3>3 DEF AccountInv, Backed, TypeInv, TypeOK
  <2> QED BY <2>1, <2>2
<1>11. Exclusive'
  BY <1>3, <1>5 DEF AccountInv, Exclusive, TypeInv, TypeOK
<1> QED BY <1>8, <1>9, <1>10, <1>11 DEF AccountInv

LEMMA MailInv ==
  ASSUME AccountInv, NEW c \in Clients, ResetMail(c)  PROVE AccountInv'
<1>1. [user |-> req[c].user, hash |-> req[c].hash] \in Link
  BY DEF AccountInv, TypeInv, GoodRequest, Handler, Request, ResetMail, Link
<1>2. /\ links' = links \cup {[user |-> req[c].user, hash |-> req[c].hash]}
      /\ Finish(c)
      /\ UNCHANGED <<hash, token, issued, resets, had, login, jwt, calls>>
  BY DEF ResetMail, cookies
<1>3. TypeInv'
  BY <1>1, <1>2, Answered DEF AccountInv, TypeInv, TypeOK
<1>4. RowInv'
  BY <1>2 DEF AccountInv, RowInv
<1>5. (\A d \in Clients : Backed(req[d]))'
  BY <1>2, Answered DEF AccountInv, Backed
<1> QED BY <1>2, <1>3, <1>4, <1>5, Answered DEF AccountInv

LEMMA WriteInv ==
  ASSUME AccountInv, NEW c \in Clients, ConfirmWrite(c)  PROVE AccountInv'
<1> DEFINE u == req[c].user
           n == req[c].new
           spent == [token[u] EXCEPT !.consumed = TRUE]
           more == resets[u] + 1
           known == had[u] \cup {n}
<1>1. /\ u \in Users /\ n \in Passwords
      /\ token[u].hash # 0 /\ ~token[u].consumed
  BY DEF AccountInv, TypeInv, GoodRequest, Handler, Backed, ConfirmWrite
<1>2. /\ Finish(c)
      /\ token' = [token EXCEPT ![u] = spent]
      /\ hash' = [hash EXCEPT ![u] = n]
      /\ had' = [had EXCEPT ![u] = known]
      /\ resets' = [resets EXCEPT ![u] = more]
      /\ UNCHANGED <<links, issued, login, jwt, calls>>
  BY DEF ConfirmWrite, cookies
<1>3. token[u] \in Token /\ resets[u] = 0
  BY <1>1 DEF AccountInv, TypeInv, TypeOK, RowInv
<1>4. /\ spent \in Token /\ spent.hash = token[u].hash /\ spent.consumed
      /\ more = 1
  <2>1. spent \in Token /\ spent.hash = token[u].hash /\ spent.consumed
    BY <1>3 DEF Token
  <2> QED BY <1>3, <2>1
<1>5. known \in SUBSET Passwords /\ n \in known /\ had[u] \subseteq known
  BY <1>1 DEF AccountInv, TypeInv, TypeOK
<1>6. \A d \in Clients \ {c} : req[d].pc = "confirm_write" => req[d].user # u
  BY DEF AccountInv, Exclusive, ConfirmWrite
<1>7. n # Null
  BY <1>1, AccountAssumption DEF AccountAssumption
<1> HIDE DEF u, n, spent, more, known
<1>8. TypeInv'
  <2>1. more \in Nat
    BY <1>4
  <2> QED BY <1>1, <1>2, <1>4, <1>5, <2>1, Answered
             DEF AccountInv, TypeInv, TypeOK
<1>9. RowInv'
  BY <1>1, <1>2, <1>4, <1>5, <1>7 DEF AccountInv, RowInv, TypeInv, TypeOK
<1>10. (\A d \in Clients : Backed(req[d]))'
  <2> SUFFICES ASSUME NEW d \in Clients, req'[d].pc # "idle"
               PROVE  Backed(req[d])'
    BY DEF Backed
  <2>1. d # c /\ req'[d] = req[d] /\ GoodRequest(req[d]) /\ Backed(req[d])
    BY <1>2, Answered DEF AccountInv, TypeInv
  <2>2. req[d].pc = "change_write" => req[d].old \in had'[req[d].user]
    BY <1>2, <1>5, <2>1 DEF Backed, GoodRequest, Handler, AccountInv, TypeInv,
                            TypeOK
  <2>3. req[d].pc = "confirm_write" => token'[req[d].user] = token[req[d].user]
    BY <1>2, <1>6, <2>1 DEF GoodRequest, Handler, AccountInv, TypeInv, TypeOK
  <2> QED BY <2>1, <2>2, <2>3 DEF Backed
<1> QED BY <1>2, <1>8, <1>9, <1>10, Answered DEF AccountInv

LEMMA ExpireInv ==
  ASSUME AccountInv, NEW u \in Users, Expire(u)  PROVE AccountInv'
<1> DEFINE old == [token[u] EXCEPT !.expired = TRUE]
<1>1. token[u] \in Token
  BY DEF AccountInv, TypeInv, TypeOK
<1>2. /\ old \in Token /\ old.hash = token[u].hash
      /\ old.consumed = token[u].consumed
  BY <1>1 DEF Token
<1>3. /\ token' = [token EXCEPT ![u] = old]
      /\ UNCHANGED <<hash, links, issued, resets, had, login, jwt, req, calls>>
  BY DEF Expire, cookies
<1> HIDE DEF old
<1>4. \A v \in Users : /\ token'[v].hash = token[v].hash
                       /\ token'[v].consumed = token[v].consumed
  BY <1>2, <1>3 DEF AccountInv, TypeInv, TypeOK
<1>5. TypeInv'
  BY <1>2, <1>3 DEF AccountInv, TypeInv, TypeOK
<1>6. (RowInv /\ Exclusive)'
  BY <1>3, <1>4 DEF AccountInv, RowInv, Exclusive
<1>7. (\A d \in Clients : Backed(req[d]))'
  BY <1>3, <1>4 DEF AccountInv, Backed, TypeInv, GoodRequest, Handler
<1> QED BY <1>5, <1>6, <1>7 DEF AccountInv

LEMMA NextInv == AccountInv /\ [Next]_vars => AccountInv'
<1> SUFFICES ASSUME AccountInv, [Next]_vars  PROVE AccountInv'
  OBVIOUS
<1>1. CASE UNCHANGED vars
  BY <1>1 DEF vars, rows, cookies, AccountInv, TypeInv, TypeOK, RowInv,
              Exclusive, Backed
<1>2. ASSUME NEW c \in Clients,
             Call(c) \/ Step(c) \/ Abort(c) \/ JwtExpires(c)
      PROVE  AccountInv'
  <2>1. CASE Abort(c)
    BY <2>1, FinishStep DEF Abort, cookies, AccountInv, TypeInv, TypeOK
  <2> QED BY <1>2, <2>1, CallInv, ReadInv, CookieInv, GuardsInv, DecideInv,
             PasswordInv, UpsertInv, MailInv, WriteInv DEF Step
<1>3. ASSUME NEW u \in Users, Expire(u)  PROVE AccountInv'
  BY <1>3, ExpireInv
<1> QED BY <1>1, <1>2, <1>3 DEF Next

-----------------------------------------------------------------------------

\* The inductive invariant: with the types of the state, what each request has
\* established by the statement it stands before.
THEOREM AccountInvariant == Spec => []AccountInv
<1>1. Init => AccountInv
  BY AccountAssumption, InitInv
<1>2. AccountInv /\ [Next]_vars => AccountInv'
  BY NextInv
<1> QED BY <1>1, <1>2, PTL DEF Spec

\* The state of AuthService stays within its types: each handler has the
\* parameters its statements use.
THEOREM AccountTypes == Spec => []TypeOK
<1>1. AccountInv => TypeOK
  BY DEF AccountInv, TypeInv
<1> QED BY <1>1, AccountInvariant, PTL

\* What one step may do to a password.
LEMMA ChangedForCause ==
  ASSUME AccountInv, [Next]_vars, NEW u \in Users,
         hash[u] # Null, hash'[u] # hash[u]
  PROVE  \E c \in Clients :
           /\ req[c].user = u /\ req'[c] = NoRequest
           /\ \/ req[c].op = "change" /\ req[c].old \in had[u]
              \/ /\ req[c].op = "confirm"
                 /\ ~token[u].consumed /\ token'[u].consumed
<1>1. hash' # hash
  OBVIOUS
<1>2. PICK c \in Clients : Call(c) \/ Step(c) \/ Abort(c) \/ JwtExpires(c)
  BY <1>1 DEF Next, vars, rows, Expire
<1>3. /\ GoodRequest(req[c]) /\ Backed(req[c])
      /\ hash \in [Users -> Passwords \cup {Null}]
      /\ token \in [Users -> Token]
  BY DEF AccountInv, TypeInv, TypeOK
<1>4. SignupInsert(c) \/ ChangeWrite(c) \/ ConfirmWrite(c)
  <2>1. ~(Call(c) \/ Abort(c) \/ JwtExpires(c))
    BY <1>1 DEF Call, PostSignup, PostSignin, PostSignout, PostChange,
                PostReset, GetVerify, PostConfirm, CallConfirm, Receive, Abort,
                JwtExpires, rows
  <2>2. ~(\/ SignupRead(c) \/ Signin(c) \/ ChangeRead(c) \/ ResetRead(c)
          \/ VerifyToken(c) \/ ConfirmGuards(c) \/ ConfirmRead(c)
          \/ ConfirmConsume(c))
    BY <1>1 DEF SignupRead, Signin, ChangeRead, ResetRead, VerifyToken,
                ConfirmGuards, ConfirmRead, ConfirmConsume, Proceed, rows
  <2>3. ~(ResetUpsert(c) \/ ResetMail(c))
    BY <1>1 DEF ResetUpsert, ResetMail
  <2> QED BY <1>2, <2>1, <2>2, <2>3 DEF Step
<1>5. req[c].user = u /\ req'[c] = NoRequest
  BY <1>3, <1>4 DEF SignupInsert, ChangeWrite, ConfirmWrite, Finish, AccountInv,
                    TypeInv, TypeOK
<1>6. ~SignupInsert(c)
  BY <1>1, <1>5 DEF SignupInsert
<1>7. CASE ChangeWrite(c)
  BY <1>3, <1>5, <1>7 DEF ChangeWrite, GoodRequest, Handler, Backed
<1>8. CASE ConfirmWrite(c)
  <2>1. req[c].op = "confirm" /\ ~token[u].consumed
    BY <1>3, <1>5, <1>8 DEF ConfirmWrite, GoodRequest, Handler, Backed
  <2>2. token'[u].consumed
    BY <1>3, <1>5, <1>8 DEF ConfirmWrite, Token
  <2> QED BY <1>5, <2>1, <2>2
<1> QED BY <1>4, <1>6, <1>7, <1>8

\* No sign-up, and no request that has neither quoted a password of the account
\* nor holds its unused reset row, ever replaces the account's password.
THEOREM PasswordsChangeOnlyForCause == Spec => PasswordsChangeForCause
<1> DEFINE A == \A u \in Users :
                  hash[u] # Null /\ hash'[u] # hash[u] =>
                    \E c \in Clients :
                      /\ req[c].user = u /\ req'[c] = NoRequest
                      /\ \/ req[c].op = "change" /\ req[c].old \in had[u]
                         \/ /\ req[c].op = "confirm"
                            /\ ~token[u].consumed /\ token'[u].consumed
<1>1. AccountInv /\ [Next]_vars => [A]_vars
  BY ChangedForCause
<1> QED BY <1>1, AccountInvariant, PTL DEF Spec, PasswordsChangeForCause

-----------------------------------------------------------------------------
(* The reset rows implement OneTimeToken.                                  *)

LEMMA InitMaps == Init => OneTime!Init
BY DEF Init, OneTime!Init, TokenState, NoToken

LEMMA UpsertIssues ==
  ASSUME AccountInv, NEW c \in Clients, ResetUpsert(c)
  PROVE  req[c].user \in Users /\ OneTime!Issue(req[c].user)
<1> DEFINE u == req[c].user
           fresh == [hash |-> issued + 1, consumed |-> FALSE,
                     expired |-> FALSE]
<1>1. u \in Users /\ issued + 1 # 0
  BY DEF AccountInv, TypeInv, TypeOK, GoodRequest, Handler, ResetUpsert
<1>2. fresh.hash # 0 /\ ~fresh.consumed
  BY <1>1
<1>3. token' = [token EXCEPT ![u] = fresh] /\ resets' = [resets EXCEPT ![u] = 0]
  BY DEF ResetUpsert
<1> HIDE DEF u, fresh
<1>4. TokenState' = [TokenState EXCEPT ![u] = "live"]
  BY <1>1, <1>2, <1>3 DEF TokenState, AccountInv, TypeInv, TypeOK
<1>5. OneTime!Issue(u)
  BY <1>3, <1>4 DEF OneTime!Issue
<1> QED BY <1>1, <1>5 DEF u

LEMMA WriteUses ==
  ASSUME AccountInv, NEW c \in Clients, ConfirmWrite(c)
  PROVE  req[c].user \in Users /\ OneTime!Use(req[c].user)
<1> DEFINE u == req[c].user
           spent == [token[u] EXCEPT !.consumed = TRUE]
<1>1. u \in Users /\ token[u].hash # 0 /\ ~token[u].consumed
  BY DEF AccountInv, TypeInv, GoodRequest, Handler, Backed, ConfirmWrite
<1>2. token[u] \in Token
  BY <1>1 DEF AccountInv, TypeInv, TypeOK
<1>3. spent.hash = token[u].hash /\ spent.consumed
  BY <1>2 DEF Token
<1>4. /\ token' = [token EXCEPT ![u] = spent]
      /\ resets' = [resets EXCEPT ![u] = @ + 1]
  BY DEF ConfirmWrite
<1> HIDE DEF u, spent
<1>5. TokenState[u] = "live"
  BY <1>1 DEF TokenState
<1>6. TokenState' = [TokenState EXCEPT ![u] = "spent"]
  BY <1>1, <1>3, <1>4 DEF TokenState, AccountInv, TypeInv, TypeOK
<1>7. OneTime!Use(u)
  BY <1>4, <1>5, <1>6 DEF OneTime!Use
<1> QED BY <1>1, <1>7 DEF u

LEMMA ExpireStutters ==
  ASSUME AccountInv, NEW u \in Users, Expire(u)  PROVE UNCHANGED OneTime!vars
<1> DEFINE old == [token[u] EXCEPT !.expired = TRUE]
<1>1. token[u] \in Token
  BY DEF AccountInv, TypeInv, TypeOK
<1>2. old.hash = token[u].hash /\ old.consumed = token[u].consumed
  BY <1>1 DEF Token
<1>3. token' = [token EXCEPT ![u] = old] /\ resets' = resets
  BY DEF Expire
<1> HIDE DEF old
<1>4. TokenState' = TokenState
  BY <1>2, <1>3 DEF TokenState, AccountInv, TypeInv, TypeOK
<1> QED BY <1>3, <1>4 DEF OneTime!vars

LEMMA StepMaps ==
  AccountInv /\ [Next]_vars => [OneTime!Next]_(OneTime!vars)
<1> SUFFICES ASSUME AccountInv, [Next]_vars
             PROVE  OneTime!Next \/ UNCHANGED OneTime!vars
  OBVIOUS
<1>1. UNCHANGED <<token, resets>> => UNCHANGED OneTime!vars
  BY DEF OneTime!vars, TokenState
<1>2. CASE UNCHANGED vars
  BY <1>1, <1>2 DEF vars, rows
<1>3. ASSUME NEW c \in Clients,
             Call(c) \/ Step(c) \/ Abort(c) \/ JwtExpires(c)
      PROVE  OneTime!Next \/ UNCHANGED OneTime!vars
  <2>1. CASE Call(c) \/ Abort(c) \/ JwtExpires(c)
    BY <1>1, <2>1 DEF Call, PostSignup, PostSignin, PostSignout, PostChange,
                      PostReset, GetVerify, PostConfirm, CallConfirm, Receive,
                      Abort, JwtExpires, rows
  <2>2. CASE \/ SignupRead(c) \/ Signin(c) \/ ChangeRead(c) \/ ResetRead(c)
             \/ VerifyToken(c) \/ ConfirmGuards(c) \/ ConfirmRead(c)
             \/ ConfirmConsume(c)
    BY <1>1, <2>2 DEF SignupRead, Signin, ChangeRead, ResetRead, VerifyToken,
                      ConfirmGuards, ConfirmRead, ConfirmConsume, Proceed, rows
  <2>3. CASE SignupInsert(c) \/ ChangeWrite(c) \/ ResetMail(c)
    BY <1>1, <2>3 DEF SignupInsert, ChangeWrite, ResetMail
  <2>4. CASE ResetUpsert(c)
    BY <2>4, UpsertIssues DEF OneTime!Next
  <2>5. CASE ConfirmWrite(c)
    BY <2>5, WriteUses DEF OneTime!Next
  <2> QED BY <1>3, <2>1, <2>2, <2>3, <2>4, <2>5 DEF Step
<1>4. ASSUME NEW u \in Users, Expire(u)  PROVE UNCHANGED OneTime!vars
  BY <1>4, ExpireStutters
<1> QED BY <1>2, <1>3, <1>4 DEF Next

\* confirmResetPassword honours what a token row promises, whatever requests do
\* meanwhile: one password at most for each time the row was issued.
THEOREM ResetsAreOneTime == Spec => ResetIsOneTime
<1>1. Init => OneTime!Init
  BY InitMaps
<1>2. AccountInv /\ [Next]_vars => [OneTime!Next]_(OneTime!vars)
  BY StepMaps
<1> QED BY <1>1, <1>2, AccountInvariant, PTL
        DEF Spec, ResetIsOneTime, OneTime!Spec

=============================================================================
