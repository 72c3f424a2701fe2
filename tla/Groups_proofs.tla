---------------------------- MODULE Groups_proofs ----------------------------
(***************************************************************************)
(* For every set of users and concurrent requests: the founder of a group  *)
(* stays its owner, no owner is lost by leaving, and the invitations are   *)
(* one-time tokens.  The first and the last need to know what a request    *)
(* has established by the time it writes: that the target of a new role or *)
(* a removal is not the founder, and that the row an invitation is about   *)
(* to use is unused and held by nobody else.                               *)
(***************************************************************************)
EXTENDS Groups, TLAPS

\* The parameters a handler may rely on, by where it stands.
Handler(r) ==
  /\ r.pc = "guard" =>
       /\ r.op \in {"invite", "role", "kick", "disband"}
       /\ r.actor \in Users
  /\ r.pc = "guard" /\ r.op \in {"invite", "role", "kick"} => r.target \in Users
  /\ r.pc = "guard" /\ r.op = "role" => r.newRole \in GroupRole
  /\ r.pc \in { "invite_actor", "invite_member", "invite_upsert",
                "invite_mail", "role_read", "role_write", "kick_read",
                "kick_write" } => r.actor \in Users /\ r.target \in Users
  /\ r.pc \in {"role_read", "role_write"} => r.newRole \in GroupRole
  /\ r.pc \in {"verify_read", "verify_consume", "verify_join"} =>
       r.target \in Users
  /\ r.pc \in {"leave_read", "leave_write"} => r.actor \in Users
  /\ r.pc \in {"kick_read", "kick_write"} => r.op = "kick"

GoodRequest(r) == r \in Request /\ Handler(r)

TypeInv == TypeOK /\ \A p \in Procs : GoodRequest(req[p])

\* Of the tokens: a row counts its one use, and nothing outlives the group.
TokenInv ==
  /\ \A u \in Users : joins[u] = IF token[u].consumed THEN 1 ELSE 0
  /\ \A u \in Users : token[u].hash = 0 => ~token[u].consumed
  /\ ~exists => \A u \in Users : member[u] = NoRow /\ token[u].hash = 0

\* What a request has established when it is about to write.
Backed(r) ==
  /\ r.pc = "verify_join" =>
       token[r.target].hash # 0 /\ ~token[r.target].consumed
  /\ r.pc \in {"role_write", "kick_write"} => r.target # ownerId

\* A token row is held by one transaction at a time.
Exclusive ==
  \A p, q \in Procs :
    p # q /\ req[p].pc = "verify_join" /\ req[q].pc = "verify_join" =>
      req[p].target # req[q].target

GroupInv ==
  /\ TypeInv /\ FounderIsOwner /\ TokenInv /\ Exclusive
  /\ \A p \in Procs : Backed(req[p])

-----------------------------------------------------------------------------

LEMMA NoRequestGood == GoodRequest(NoRequest)
BY DEF GoodRequest, Request, Handler, NoRequest, PC

LEMMA InitInv == GroupAssumption /\ Init => GroupInv
<1> SUFFICES ASSUME GroupAssumption, Init  PROVE GroupInv
  OBVIOUS
<1>1. TypeOK
  BY NoRequestGood DEF GroupAssumption, Init, TypeOK, Token, NoToken, Link,
                       GoodRequest
<1>2. \A p \in Procs : GoodRequest(req[p]) /\ Backed(req[p])
  BY NoRequestGood DEF Init, Backed, NoRequest
<1>3. FounderIsOwner /\ TokenInv /\ Exclusive
  BY DEF GroupAssumption, Init, FounderIsOwner, TokenInv, Exclusive,
         NoToken, NoRequest
<1> QED BY <1>1, <1>2, <1>3 DEF GroupInv, TypeInv

\* A step of p that leaves all rows alone and does not begin to write.
LEMMA QuietStep ==
  ASSUME GroupInv, UNCHANGED rows, NEW p \in Procs, NEW r,
         req' = [req EXCEPT ![p] = r], GoodRequest(r), calls' \in 0 .. MaxCalls,
         r.pc \notin {"verify_join", "role_write", "kick_write"}
  PROVE  GroupInv'
<1>1. TypeInv'
  BY DEF GroupInv, TypeInv, TypeOK, rows, GoodRequest
<1>2. (FounderIsOwner /\ TokenInv)'
  BY DEF GroupInv, FounderIsOwner, TokenInv, rows
<1>3. (\A q \in Procs : Backed(req[q]))'
  BY DEF GroupInv, Backed, rows, TypeInv, TypeOK
<1>4. Exclusive'
  BY DEF GroupInv, Exclusive, TypeInv, TypeOK
<1> QED BY <1>1, <1>2, <1>3, <1>4 DEF GroupInv

LEMMA FinishStep ==
  ASSUME GroupInv, UNCHANGED <<rows, calls>>, NEW p \in Procs, Finish(p)
  PROVE  GroupInv'
BY QuietStep, NoRequestGood DEF Finish, GroupInv, TypeInv, TypeOK, NoRequest

LEMMA GotoGood ==
  ASSUME GroupInv, NEW p \in Procs, NEW pc \in PC,
         Handler([req[p] EXCEPT !.pc = pc])
  PROVE  GoodRequest([req[p] EXCEPT !.pc = pc])
BY DEF GroupInv, TypeInv, GoodRequest, Request

LEMMA ProceedStep ==
  ASSUME GroupInv, NEW p \in Procs, NEW allowed \in BOOLEAN,
         NEW pc \in PC \ {"verify_join", "role_write", "kick_write"},
         Proceed(p, allowed, pc), Handler([req[p] EXCEPT !.pc = pc])
  PROVE  GroupInv'
<1>1. CASE allowed
  <2>1. req' = [req EXCEPT ![p] = [req[p] EXCEPT !.pc = pc]]
    BY <1>1 DEF Proceed, Goto
  <2>2. [req[p] EXCEPT !.pc = pc].pc = pc
    BY DEF GroupInv, TypeInv, GoodRequest, Request
  <2> QED BY <2>1, <2>2, GotoGood, QuietStep
             DEF Proceed, GroupInv, TypeInv, TypeOK
<1>2. CASE ~allowed
  BY <1>2, FinishStep DEF Proceed
<1> QED BY <1>1, <1>2

-----------------------------------------------------------------------------
(* Clients' calls, and the steps that only read.                           *)

LEMMA ReceiveInv ==
  ASSUME GroupInv, NEW p \in Procs, NEW r, Receive(p, r), GoodRequest(r),
         r.pc \in {"guard", "verify_read", "leave_read"}
  PROVE  GroupInv'
<1>1. calls' \in 0 .. MaxCalls
  BY GroupAssumption DEF Receive, GroupInv, TypeInv, TypeOK
<1> QED BY <1>1, QuietStep DEF Receive

LEMMA CallInv == ASSUME GroupInv, NEW p \in Procs, Call(p)  PROVE GroupInv'
<1>1. CASE PostInvite(p)
  <2>1. PICK u \in Users, a \in Users :
          Receive(p, [NoRequest EXCEPT !.op = "invite", !.pc = "guard",
                                       !.actor = u, !.target = a])
    BY <1>1 DEF PostInvite
  <2>2. GoodRequest([NoRequest EXCEPT !.op = "invite", !.pc = "guard",
                                      !.actor = u, !.target = a])
    BY <2>1 DEF Receive, GoodRequest, Request, Handler, NoRequest, PC
  <2> QED BY <2>1, <2>2, ReceiveInv DEF NoRequest
<1>2. CASE GetInvitation(p)
  <2>1. PICK l \in links :
          Receive(p, [NoRequest EXCEPT !.op = "verify", !.pc = "verify_read",
                                       !.target = l.user, !.hash = l.hash])
    BY <1>2 DEF GetInvitation
  <2>2. l.user \in Users /\ l.hash \in Nat
    BY DEF GroupInv, TypeInv, TypeOK, Link
  <2>3. GoodRequest([NoRequest EXCEPT !.op = "verify", !.pc = "verify_read",
                                      !.target = l.user, !.hash = l.hash])
    BY <2>1, <2>2 DEF Receive, GoodRequest, Request, Handler, NoRequest, PC
  <2> QED BY <2>1, <2>3, ReceiveInv DEF NoRequest
<1>3. CASE PostRole(p)
  <2>1. PICK u \in Users, a \in Users, n \in GroupRole :
          Receive(p, [NoRequest EXCEPT !.op = "role", !.pc = "guard",
                                       !.actor = u, !.target = a,
                                       !.newRole = n])
    BY <1>3 DEF PostRole
  <2>2. GoodRequest([NoRequest EXCEPT !.op = "role", !.pc = "guard",
                                      !.actor = u, !.target = a,
                                      !.newRole = n])
    BY <2>1 DEF Receive, GoodRequest, Request, Handler, NoRequest, PC
  <2> QED BY <2>1, <2>2, ReceiveInv DEF NoRequest
<1>4. CASE PostKick(p)
  <2>1. PICK u \in Users, a \in Users :
          Receive(p, [NoRequest EXCEPT !.op = "kick", !.pc = "guard",
                                       !.actor = u, !.target = a])
    BY <1>4 DEF PostKick
  <2>2. GoodRequest([NoRequest EXCEPT !.op = "kick", !.pc = "guard",
                                      !.actor = u, !.target = a])
    BY <2>1 DEF Receive, GoodRequest, Request, Handler, NoRequest, PC
  <2> QED BY <2>1, <2>2, ReceiveInv DEF NoRequest
<1>5. CASE PostLeave(p)
  <2>1. PICK u \in Users :
          Receive(p, [NoRequest EXCEPT !.op = "leave", !.pc = "leave_read",
                                       !.actor = u])
    BY <1>5 DEF PostLeave
  <2>2. GoodRequest([NoRequest EXCEPT !.op = "leave", !.pc = "leave_read",
                                      !.actor = u])
    BY <2>1 DEF Receive, GoodRequest, Request, Handler, NoRequest, PC
  <2> QED BY <2>1, <2>2, ReceiveInv DEF NoRequest
<1>6. CASE PostDisband(p)
  <2>1. PICK u \in Users :
          Receive(p, [NoRequest EXCEPT !.op = "disband", !.pc = "guard",
                                       !.actor = u])
    BY <1>6 DEF PostDisband
  <2>2. GoodRequest([NoRequest EXCEPT !.op = "disband", !.pc = "guard",
                                      !.actor = u])
    BY <2>1 DEF Receive, GoodRequest, Request, Handler, NoRequest, PC
  <2> QED BY <2>1, <2>2, ReceiveInv DEF NoRequest
<1> QED BY <1>1, <1>2, <1>3, <1>4, <1>5, <1>6 DEF Call

LEMMA GuardInv ==
  ASSUME GroupInv, NEW p \in Procs, GroupRolesGuard(p)  PROVE GroupInv'
<1> DEFINE pc == ServiceEntry[req[p].op]
<1>1. req[p] \in Request /\ Handler(req[p]) /\ req[p].pc = "guard"
  BY DEF GroupInv, TypeInv, GoodRequest, GroupRolesGuard
<1>2. req[p].op \in {"invite", "role", "kick", "disband"}
  BY <1>1 DEF Handler
<1>3. pc \in PC \ {"verify_join", "role_write", "kick_write"}
  BY <1>2 DEF ServiceEntry, PC
<1>4. Handler([req[p] EXCEPT !.pc = pc])
  BY <1>1, <1>2 DEF Handler, ServiceEntry, Request
<1> DEFINE allowed == member[req[p].actor] \in RequireRoles[req[p].op]
<1>5. Proceed(p, allowed, pc)
  BY DEF GroupRolesGuard
<1>6. allowed \in BOOLEAN
  OBVIOUS
<1> HIDE DEF allowed, pc
<1> QED BY <1>3, <1>4, <1>5, <1>6, ProceedStep

LEMMA ReadInv ==
  ASSUME GroupInv, NEW p \in Procs,
         \/ InviteActor(p) \/ InviteMember(p) \/ VerifyRead(p) \/ LeaveRead(p)
  PROVE  GroupInv'
<1>1. req[p] \in Request /\ Handler(req[p])
  BY DEF GroupInv, TypeInv, GoodRequest
<1>2. CASE InviteActor(p)
  <2>1. Handler([req[p] EXCEPT !.pc = "invite_member"])
    BY <1>1, <1>2 DEF InviteActor, Handler, Request
  <2> QED BY <1>2, <2>1, ProceedStep DEF InviteActor, PC
<1>3. CASE InviteMember(p)
  <2>1. Handler([req[p] EXCEPT !.pc = "invite_upsert"])
    BY <1>1, <1>3 DEF InviteMember, Handler, Request
  <2> QED BY <1>3, <2>1, ProceedStep DEF InviteMember, PC
<1>4. CASE VerifyRead(p)
  <2>1. Handler([req[p] EXCEPT !.pc = "verify_consume"])
    BY <1>1, <1>4 DEF VerifyRead, Handler, Request
  <2> QED BY <1>4, <2>1, ProceedStep DEF VerifyRead, PC
<1>5. CASE LeaveRead(p)
  <2>1. Handler([req[p] EXCEPT !.pc = "leave_write"])
    BY <1>1, <1>5 DEF LeaveRead, Handler, Request
  <2> QED BY <1>5, <2>1, ProceedStep DEF LeaveRead, PC
<1> QED BY <1>2, <1>3, <1>4, <1>5

-----------------------------------------------------------------------------
(* The reads that decide on a write: what they establish is Backed.        *)

\* A step of p that leaves all rows alone and stands before a write.
LEMMA CommitStep ==
  ASSUME GroupInv, NEW p \in Procs, NEW pc \in PC,
         Goto(p, pc), UNCHANGED <<rows, calls>>,
         Handler([req[p] EXCEPT !.pc = pc]),
         Backed([req[p] EXCEPT !.pc = pc]),
         pc = "verify_join" => TokenUnlocked(p, req[p].target)
  PROVE  GroupInv'
<1> DEFINE r == [req[p] EXCEPT !.pc = pc]
<1>1. GoodRequest(r) /\ r.pc = pc /\ r.target = req[p].target
  BY GotoGood DEF GroupInv, TypeInv, GoodRequest, Request
<1>2. req' = [req EXCEPT ![p] = r]
  BY DEF Goto
<1> HIDE DEF r
<1>3. TypeInv'
  BY <1>1, <1>2 DEF GroupInv, TypeInv, TypeOK, rows, GoodRequest
<1>4. (FounderIsOwner /\ TokenInv)'
  BY DEF GroupInv, FounderIsOwner, TokenInv, rows
<1>5. (\A q \in Procs : Backed(req[q]))'
  <2>1. Backed(r)
    BY DEF r
  <2> QED BY <1>2, <2>1 DEF GroupInv, Backed, rows, TypeInv, TypeOK
<1>6. Exclusive'
  BY <1>1, <1>2 DEF GroupInv, Exclusive, TypeInv, TypeOK, TokenUnlocked
<1> QED BY <1>3, <1>4, <1>5, <1>6 DEF GroupInv

LEMMA DecideInv ==
  ASSUME GroupAssumption, GroupInv, NEW p \in Procs,
         VerifyConsume(p) \/ RoleRead(p) \/ KickRead(p)
  PROVE  GroupInv'
<1>1. req[p] \in Request /\ Handler(req[p])
  BY DEF GroupInv, TypeInv, GoodRequest
<1>2. CASE VerifyConsume(p)
  <2>1. CASE Consumable(token[req[p].target])
    <3>1. Handler([req[p] EXCEPT !.pc = "verify_join"])
      BY <1>1, <1>2 DEF VerifyConsume, Handler, Request
    <3>2. Backed([req[p] EXCEPT !.pc = "verify_join"])
      BY <1>1, <2>1 DEF Consumable, Backed, Request
    <3> QED BY <1>2, <2>1, <3>1, <3>2, CommitStep
               DEF VerifyConsume, Proceed, PC
  <2>2. CASE ~Consumable(token[req[p].target])
    BY <1>2, <2>2, FinishStep DEF VerifyConsume, Proceed
  <2> QED BY <2>1, <2>2
<1>3. CASE RoleRead(p)
  <2>1. CASE RoleAllowed(req[p])
    <3>1. Handler([req[p] EXCEPT !.pc = "role_write"])
      BY <1>1, <1>3 DEF RoleRead, Handler, Request
    <3>2. req[p].target # ownerId
      BY <2>1 DEF RoleAllowed, GroupInv, FounderIsOwner, TokenInv,
                  GroupAssumption
    <3>3. Backed([req[p] EXCEPT !.pc = "role_write"])
      BY <1>1, <3>2 DEF Backed, Request
    <3> QED BY <1>3, <2>1, <3>1, <3>3, CommitStep DEF RoleRead, Proceed, PC
  <2>2. CASE ~RoleAllowed(req[p])
    BY <1>3, <2>2, FinishStep DEF RoleRead, Proceed
  <2> QED BY <2>1, <2>2
<1>4. CASE KickRead(p)
  <2>1. CASE KickAllowed(req[p])
    <3>1. Handler([req[p] EXCEPT !.pc = "kick_write"])
      BY <1>1, <1>4 DEF KickRead, Handler, Request
    <3>2. member[req[p].actor] \in GroupRole
      <4>1. req[p].actor \in Users
        BY <1>1, <1>4 DEF KickRead, Handler
      <4> QED BY <2>1, <4>1 DEF KickAllowed, GroupInv, TypeInv, TypeOK
    <3>3. member[req[p].target] \in {"ADMIN", "MEMBER"}
      BY <2>1, <3>2 DEF KickAllowed, REMOVAL_MATRIX, GroupRole
    <3>4. req[p].target # ownerId
      BY <3>3 DEF GroupInv, FounderIsOwner, TokenInv, GroupAssumption, NoRow
    <3>5. Backed([req[p] EXCEPT !.pc = "kick_write"])
      BY <1>1, <3>4 DEF Backed, Request
    <3> QED BY <1>4, <2>1, <3>1, <3>5, CommitStep DEF KickRead, Proceed, PC
  <2>2. CASE ~KickAllowed(req[p])
    BY <1>4, <2>2, FinishStep DEF KickRead, Proceed
  <2> QED BY <2>1, <2>2
<1> QED BY <1>2, <1>3, <1>4

-----------------------------------------------------------------------------
(* The writes.  After each the request is answered, but for the upsert of  *)
(* an invitation, which goes on to its mail.                               *)

LEMMA Answered ==
  ASSUME GroupInv, NEW p \in Procs, Finish(p)
  PROVE  /\ req' \in [Procs -> Request]
         /\ \A q \in Procs : GoodRequest(req'[q])
         /\ \A q \in Procs : req'[q].pc # "idle" => q # p /\ req'[q] = req[q]
         /\ Exclusive'
<1>1. NoRequest \in Request /\ NoRequest.pc = "idle"
  BY NoRequestGood DEF GoodRequest, NoRequest
<1>2. req' = [req EXCEPT ![p] = NoRequest]
  BY DEF Finish
<1>3. \A q \in Procs : IF q = p THEN req'[q] = NoRequest ELSE req'[q] = req[q]
  BY <1>2 DEF GroupInv, TypeInv, TypeOK
<1>4. \A q \in Procs : req'[q].pc # "idle" => q # p /\ req'[q] = req[q]
  BY <1>1, <1>3
<1>5. Exclusive'
  BY <1>4 DEF GroupInv, Exclusive
<1>6. req' \in [Procs -> Request]
  BY <1>1, <1>2 DEF GroupInv, TypeInv, TypeOK
<1>7. \A q \in Procs : GoodRequest(req'[q])
  BY <1>3, NoRequestGood DEF GroupInv, TypeInv
<1> QED BY <1>4, <1>5, <1>6, <1>7

\* A change of one member's row: tokens and the group stay as they are.
LEMMA MemberStep ==
  ASSUME GroupInv, NEW p \in Procs, Finish(p),
         NEW u \in Users, NEW r \in GroupRole \cup {NoRow},
         member' = [member EXCEPT ![u] = r],
         member[u] = NoRow => r = NoRow,
         u = ownerId => r = member[u],
         UNCHANGED <<exists, token, links, issued, joins, calls>>
  PROVE  GroupInv'
<1>1. TypeInv'
  BY Answered DEF GroupInv, TypeInv, TypeOK
<1>2. FounderIsOwner'
  BY DEF GroupInv, FounderIsOwner, TypeInv, TypeOK
<1>3. TokenInv'
  BY DEF GroupInv, TokenInv, TypeInv, TypeOK
<1>4. (\A q \in Procs : Backed(req[q]))'
  BY Answered DEF GroupInv, Backed
<1> QED BY <1>1, <1>2, <1>3, <1>4, Answered DEF GroupInv

LEMMA MemberWriteInv ==
  ASSUME GroupInv, NEW p \in Procs,
         RoleWrite(p) \/ KickWrite(p) \/ LeaveWrite(p)
  PROVE  GroupInv'
<1>1. GoodRequest(req[p]) /\ Backed(req[p])
  BY DEF GroupInv, TypeInv
<1>2. member \in [Users -> GroupRole \cup {NoRow}]
  BY DEF GroupInv, TypeInv, TypeOK
<1>3. CASE RoleWrite(p)
  <2>1. /\ req[p].target \in Users /\ req[p].newRole \in GroupRole
        /\ req[p].target # ownerId
    BY <1>1, <1>3 DEF RoleWrite, GoodRequest, Handler, Backed
  <2>2. CASE member[req[p].target] = NoRow
    <3>1. member' = [member EXCEPT ![req[p].target] = NoRow]
      BY <1>2, <1>3, <2>1, <2>2 DEF RoleWrite
    <3> QED BY <1>3, <2>1, <2>2, <3>1, MemberStep DEF RoleWrite
  <2>3. CASE member[req[p].target] # NoRow
    BY <1>3, <2>1, <2>3, MemberStep DEF RoleWrite
  <2> QED BY <2>2, <2>3
<1>4. CASE KickWrite(p)
  <2>1. req[p].target \in Users /\ req[p].target # ownerId
    BY <1>1, <1>4 DEF KickWrite, GoodRequest, Handler, Backed
  <2> QED BY <1>4, <2>1, MemberStep DEF KickWrite
<1>5. CASE LeaveWrite(p)
  <2>1. req[p].actor \in Users
    BY <1>1, <1>5 DEF LeaveWrite, GoodRequest, Handler
  <2>2. CASE member[req[p].actor] = "OWNER"
    <3>1. member' = [member EXCEPT ![req[p].actor] = "OWNER"]
      BY <1>2, <1>5, <2>1, <2>2 DEF LeaveWrite
    <3> QED BY <1>5, <2>1, <2>2, <3>1, MemberStep
            DEF LeaveWrite, GroupRole, NoRow
  <2>3. CASE member[req[p].actor] # "OWNER"
    <3>1. member' = [member EXCEPT ![req[p].actor] = NoRow]
      BY <1>5, <2>3 DEF LeaveWrite
    <3>2. req[p].actor = ownerId => member[req[p].actor] = NoRow
      BY <2>1, <2>3 DEF GroupInv, FounderIsOwner, TokenInv
    <3> QED BY <1>5, <2>1, <3>1, <3>2, MemberStep DEF LeaveWrite
  <2> QED BY <2>2, <2>3
<1> QED BY <1>3, <1>4, <1>5

LEMMA JoinInv ==
  ASSUME GroupInv, NEW p \in Procs, VerifyJoin(p)  PROVE GroupInv'
<1> DEFINE u == req[p].target
<1>1. u \in Users /\ token[u].hash # 0 /\ ~token[u].consumed /\ exists
  BY DEF GroupInv, TypeInv, GoodRequest, Handler, Backed, TokenInv, VerifyJoin
<1>2. /\ Finish(p)
      /\ token' = [token EXCEPT ![u].consumed = TRUE]
      /\ joins' = [joins EXCEPT ![u] = @ + 1]
      /\ member' = IF member[u] = NoRow THEN [member EXCEPT ![u] = "MEMBER"]
                                        ELSE member
      /\ UNCHANGED <<exists, links, issued, calls>>
  BY DEF VerifyJoin
<1>3. \A q \in Procs \ {p} : req[q].pc = "verify_join" => req[q].target # u
  BY DEF GroupInv, Exclusive, VerifyJoin
<1> HIDE DEF u
<1>4. TypeInv'
  <2>1. token[u] \in Token /\ joins[u] \in Nat
    BY <1>1 DEF GroupInv, TypeInv, TypeOK
  <2> DEFINE spent == [token[u] EXCEPT !.consumed = TRUE]
  <2>2. spent \in Token /\ token' = [token EXCEPT ![u] = spent]
    BY <1>2, <2>1 DEF Token
  <2> HIDE DEF spent
  <2>3. token' \in [Users -> Token]
    BY <1>1, <2>2 DEF GroupInv, TypeInv, TypeOK
  <2> DEFINE more == joins[u] + 1
  <2>4. more \in Nat /\ joins' = [joins EXCEPT ![u] = more]
    BY <1>2, <2>1
  <2> HIDE DEF more
  <2>5. joins' \in [Users -> Nat]
    BY <1>1, <2>4 DEF GroupInv, TypeInv, TypeOK
  <2>6. member' \in [Users -> GroupRole \cup {NoRow}]
    BY <1>2 DEF GroupInv, TypeInv, TypeOK, GroupRole
  <2> QED BY <1>2, <2>3, <2>5, <2>6, Answered DEF GroupInv, TypeInv, TypeOK
<1>5. FounderIsOwner'
  BY <1>1, <1>2 DEF GroupInv, FounderIsOwner, TypeInv, TypeOK, NoRow
<1>6. TokenInv'
  BY <1>1, <1>2 DEF GroupInv, TokenInv, TypeInv, TypeOK, Token
<1>7. (\A q \in Procs : Backed(req[q]))'
  <2> SUFFICES ASSUME NEW q \in Procs  PROVE Backed(req[q])'
    OBVIOUS
  <2>1. CASE req'[q].pc = "idle"
    BY <2>1 DEF Backed
  <2>2. CASE req'[q].pc # "idle"
    <3>1. q # p /\ req'[q] = req[q]
      BY <1>2, <2>2, Answered
    <3>2. req[q].pc = "verify_join" =>
            req[q].target \in Users /\ req[q].target # u
      BY <1>3, <3>1 DEF GroupInv, TypeInv, GoodRequest, Handler
    <3> QED BY <1>2, <3>1, <3>2 DEF GroupInv, Backed, TypeInv, TypeOK, Token
  <2> QED BY <2>1, <2>2
<1> QED BY <1>2, <1>4, <1>5, <1>6, <1>7, Answered DEF GroupInv

LEMMA UpsertInv ==
  ASSUME GroupInv, NEW p \in Procs, InviteUpsert(p)  PROVE GroupInv'
<1> DEFINE u == req[p].target
           n == issued + 1
           fresh == [hash |-> n, consumed |-> FALSE, expired |-> FALSE]
           mailing == [req[p] EXCEPT !.pc = "invite_mail", !.hash = n]
<1>1. u \in Users /\ req[p] \in Request /\ Handler(req[p])
  BY DEF GroupInv, TypeInv, GoodRequest, Handler, InviteUpsert
<1>2. n \in Nat /\ n # 0
  BY DEF GroupInv, TypeInv, TypeOK
<1>3. CASE ~exists
  BY <1>3, FinishStep DEF InviteUpsert, rows
<1>4. CASE exists
  <2>1. /\ token' = [token EXCEPT ![u] = fresh]
        /\ joins' = [joins EXCEPT ![u] = 0]
        /\ issued' = n
        /\ req' = [req EXCEPT ![p] = mailing]
        /\ UNCHANGED <<exists, member, links, calls>>
    BY <1>4 DEF InviteUpsert
  <2>2. fresh \in Token /\ fresh.hash = n /\ ~fresh.consumed
    BY <1>2 DEF Token
  <2>3. mailing \in Request /\ mailing.pc = "invite_mail"
    BY <1>1, <1>2 DEF Request, PC
  <2>4. GoodRequest(mailing)
    BY <1>1, <2>3 DEF GoodRequest, Handler, Request, InviteUpsert
  <2>5. \A q \in Procs \ {p} : req[q].pc = "verify_join" => req[q].target # u
    BY DEF InviteUpsert, TokenUnlocked
  <2> HIDE DEF u, n, fresh, mailing
  <2>6. TypeInv'
    BY <1>1, <1>2, <2>1, <2>2, <2>4
       DEF GroupInv, TypeInv, TypeOK, GoodRequest
  <2>7. FounderIsOwner'
    BY <2>1 DEF GroupInv, FounderIsOwner
  <2>8. TokenInv'
    BY <1>1, <1>2, <1>4, <2>1, <2>2 DEF GroupInv, TokenInv, TypeInv, TypeOK
  <2>9. (\A q \in Procs : Backed(req[q]))'
    <3> SUFFICES ASSUME NEW q \in Procs  PROVE Backed(req[q])'
      OBVIOUS
    <3>1. CASE q = p
      BY <2>1, <2>3, <3>1 DEF Backed, GroupInv, TypeInv, TypeOK
    <3>2. CASE q # p
      <4>1. req'[q] = req[q]
        BY <2>1, <3>2 DEF GroupInv, TypeInv, TypeOK
      <4>2. req[q].pc = "verify_join" =>
              req[q].target \in Users /\ req[q].target # u
        BY <2>5, <3>2 DEF GroupInv, TypeInv, GoodRequest, Handler
      <4>3. Backed(req[q])
        BY DEF GroupInv
      <4> QED BY <2>1, <4>1, <4>2, <4>3
              DEF GroupInv, Backed, TypeInv, TypeOK
    <3> QED BY <3>1, <3>2
  <2>10. Exclusive'
    BY <2>1, <2>3 DEF GroupInv, Exclusive, TypeInv, TypeOK
  <2> QED BY <2>6, <2>7, <2>8, <2>9, <2>10 DEF GroupInv
<1> QED BY <1>3, <1>4

LEMMA MailInv ==
  ASSUME GroupInv, NEW p \in Procs, InviteMail(p)  PROVE GroupInv'
<1>1. [user |-> req[p].target, hash |-> req[p].hash] \in Link
  BY DEF GroupInv, TypeInv, GoodRequest, Handler, Request, InviteMail, Link
<1>2. /\ links' = links \cup {[user |-> req[p].target, hash |-> req[p].hash]}
      /\ Finish(p) /\ UNCHANGED <<exists, member, token, issued, joins, calls>>
  BY DEF InviteMail
<1>3. TypeInv'
  BY <1>1, <1>2, Answered DEF GroupInv, TypeInv, TypeOK
<1>4. (FounderIsOwner /\ TokenInv)'
  BY <1>2 DEF GroupInv, FounderIsOwner, TokenInv
<1>5. (\A q \in Procs : Backed(req[q]))'
  BY <1>2, Answered DEF GroupInv, Backed
<1> QED BY <1>2, <1>3, <1>4, <1>5, Answered DEF GroupInv

LEMMA DisbandInv ==
  ASSUME GroupInv, NEW p \in Procs, Disband(p)  PROVE GroupInv'
<1>1. /\ exists' = FALSE /\ Finish(p)
      /\ member' = [u \in Users |-> NoRow]
      /\ token' = [u \in Users |-> NoToken]
      /\ joins' = [u \in Users |-> 0]
      /\ UNCHANGED <<links, issued, calls>>
  BY DEF Disband
<1>2. TypeInv'
  BY <1>1, Answered DEF GroupInv, TypeInv, TypeOK, Token, NoToken
<1>3. (FounderIsOwner /\ TokenInv)'
  BY <1>1 DEF FounderIsOwner, TokenInv, NoToken
<1>4. (\A q \in Procs : Backed(req[q]))'
  <2> SUFFICES ASSUME NEW q \in Procs  PROVE Backed(req[q])'
    OBVIOUS
  <2>1. req'[q].pc # "idle" => q # p /\ req'[q] = req[q]
    BY <1>1, Answered
  <2>2. q # p => req[q].pc # "verify_join"
    BY DEF Disband, TokenUnlocked, GroupInv, TypeInv, GoodRequest, Handler
  <2>3. Backed(req[q])
    BY DEF GroupInv
  <2> QED BY <2>1, <2>2, <2>3 DEF Backed
<1> QED BY <1>1, <1>2, <1>3, <1>4, Answered DEF GroupInv

LEMMA ExpireInv ==
  ASSUME GroupInv, NEW u \in Users, Expire(u)  PROVE GroupInv'
<1> DEFINE old == [token[u] EXCEPT !.expired = TRUE]
<1>1. token[u] \in Token
  BY DEF GroupInv, TypeInv, TypeOK
<1>2. /\ old \in Token /\ old.hash = token[u].hash
      /\ old.consumed = token[u].consumed
  BY <1>1 DEF Token
<1>3. /\ token' = [token EXCEPT ![u] = old]
      /\ UNCHANGED <<exists, member, links, issued, joins, req, calls>>
  BY DEF Expire
<1> HIDE DEF old
<1>4. \A v \in Users : /\ token'[v].hash = token[v].hash
                       /\ token'[v].consumed = token[v].consumed
  BY <1>2, <1>3 DEF GroupInv, TypeInv, TypeOK
<1>5. TypeInv'
  BY <1>2, <1>3 DEF GroupInv, TypeInv, TypeOK
<1>6. (FounderIsOwner /\ TokenInv /\ Exclusive)'
  BY <1>3, <1>4 DEF GroupInv, FounderIsOwner, TokenInv, Exclusive
<1>7. (\A q \in Procs : Backed(req[q]))'
  BY <1>3, <1>4 DEF GroupInv, Backed, TypeInv, GoodRequest, Handler
<1> QED BY <1>5, <1>6, <1>7 DEF GroupInv

LEMMA NextInv == GroupAssumption /\ GroupInv /\ [Next]_vars => GroupInv'
<1> SUFFICES ASSUME GroupAssumption, GroupInv, [Next]_vars  PROVE GroupInv'
  OBVIOUS
<1>1. CASE UNCHANGED vars
  BY <1>1 DEF vars, rows, GroupInv, TypeInv, TypeOK, FounderIsOwner, TokenInv,
              Exclusive, Backed
<1>2. ASSUME NEW p \in Procs, Call(p) \/ Step(p) \/ Abort(p)
      PROVE  GroupInv'
  <2>1. CASE Abort(p)
    BY <2>1, FinishStep DEF Abort
  <2> QED BY <1>2, <2>1, CallInv, GuardInv, ReadInv, DecideInv,
             MemberWriteInv, JoinInv, UpsertInv, MailInv, DisbandInv DEF Step
<1>3. ASSUME NEW u \in Users, Expire(u)  PROVE GroupInv'
  BY <1>3, ExpireInv
<1> QED BY <1>1, <1>2, <1>3 DEF Next

-----------------------------------------------------------------------------

\* The inductive invariant: with the types of the state, what each request has
\* established by the statement it stands before.
THEOREM GroupInvariant == Spec => []GroupInv
<1>1. Init => GroupInv
  BY GroupAssumption, InitInv
<1>2. GroupInv /\ [Next]_vars => GroupInv'
  BY GroupAssumption, NextInv
<1> QED BY <1>1, <1>2, PTL DEF Spec

\* The state of GroupsService stays within its types: each handler has the
\* parameters its statements use.
THEOREM GroupTypes == Spec => []TypeOK
<1>1. GroupInv => TypeOK
  BY DEF GroupInv, TypeInv
<1> QED BY <1>1, GroupInvariant, PTL

\* Nobody takes the group from its founder: leaveGroup, kickOutMember and
\* updateMemberRole act on what they read, and what they read is never that
\* the founder may go.
THEOREM FounderStays == Spec => []FounderIsOwner
<1>1. GroupInv => FounderIsOwner
  BY DEF GroupInv
<1> QED BY <1>1, GroupInvariant, PTL

\* What one step may do to a member's row.
LEMMA OwnerKept ==
  ASSUME GroupInv, [Next]_vars, NEW u \in Users,
         member[u] = "OWNER", member'[u] = NoRow, exists'
  PROVE  \E p \in Procs : req[p].op = "kick" /\ req'[p] # req[p]
<1>1. member' # member
  BY DEF NoRow
<1>2. PICK p \in Procs : Call(p) \/ Step(p) \/ Abort(p)
  BY <1>1 DEF Next, vars, rows, Expire
<1>3. GoodRequest(req[p]) /\ member \in [Users -> GroupRole \cup {NoRow}]
  BY DEF GroupInv, TypeInv, TypeOK
<1>4. VerifyJoin(p) \/ RoleWrite(p) \/ KickWrite(p) \/ LeaveWrite(p)
  <2>1. ~(Call(p) \/ Abort(p))
    BY <1>1 DEF Call, PostInvite, GetInvitation, PostRole, PostKick, PostLeave,
                PostDisband, Receive, Abort, rows
  <2>2. ~(\/ GroupRolesGuard(p) \/ InviteActor(p) \/ InviteMember(p)
          \/ VerifyRead(p) \/ VerifyConsume(p)
          \/ RoleRead(p) \/ KickRead(p) \/ LeaveRead(p))
    BY <1>1 DEF GroupRolesGuard, InviteActor, InviteMember, VerifyRead,
                VerifyConsume, RoleRead, KickRead, LeaveRead, Proceed, rows
  <2>3. ~(InviteUpsert(p) \/ InviteMail(p) \/ Disband(p))
    BY <1>1 DEF InviteUpsert, InviteMail, Disband
  <2> QED BY <1>2, <2>1, <2>2, <2>3 DEF Step
<1>5. ~VerifyJoin(p)
  BY <1>3 DEF VerifyJoin, NoRow
<1>6. ~LeaveWrite(p)
  BY <1>3 DEF LeaveWrite, NoRow
<1>7. ~RoleWrite(p)
  <2>1. RoleWrite(p) => req[p].newRole # NoRow
    BY <1>3 DEF RoleWrite, GoodRequest, Handler, GroupRole, NoRow
  <2> QED BY <1>3, <2>1 DEF RoleWrite, NoRow
<1>8. CASE KickWrite(p)
  <2>1. req[p].op = "kick" /\ req[p] # NoRequest
    BY <1>3, <1>8 DEF KickWrite, GoodRequest, Handler, NoRequest
  <2>2. req'[p] = NoRequest
    BY <1>8 DEF KickWrite, Finish, GroupInv, TypeInv, TypeOK
  <2> QED BY <2>1, <2>2
<1> QED BY <1>4, <1>5, <1>6, <1>7, <1>8

\* leaveGroup never takes an owner out of the group, not even one promoted
\* between its read and its delete.
THEOREM OwnersStay == Spec => OwnersDoNotLeave
<1> DEFINE A == \A u \in Users :
                  member[u] = "OWNER" /\ member'[u] = NoRow =>
                    \/ ~exists'
                    \/ \E p \in Procs : req[p].op = "kick" /\ req'[p] # req[p]
<1>1. GroupInv /\ [Next]_vars => [A]_vars
  BY OwnerKept
<1> QED BY <1>1, GroupInvariant, PTL DEF Spec, OwnersDoNotLeave

-----------------------------------------------------------------------------
(* The invitations implement OneTimeToken.                                 *)

LEMMA InitMaps == Init => OneTime!Init
BY DEF Init, OneTime!Init, TokenState, NoToken

LEMMA UpsertIssues ==
  ASSUME GroupInv, NEW p \in Procs, InviteUpsert(p), exists
  PROVE  OneTime!Issue(req[p].target)
<1> DEFINE u == req[p].target
           fresh == [hash |-> issued + 1, consumed |-> FALSE,
                     expired |-> FALSE]
<1>1. u \in Users /\ issued + 1 # 0
  BY DEF GroupInv, TypeInv, TypeOK, GoodRequest, Handler, InviteUpsert
<1>2. fresh.hash # 0 /\ ~fresh.consumed
  BY <1>1
<1>3. token' = [token EXCEPT ![u] = fresh] /\ joins' = [joins EXCEPT ![u] = 0]
  BY DEF InviteUpsert
<1> HIDE DEF u, fresh
<1>4. TokenState' = [TokenState EXCEPT ![u] = "live"]
  BY <1>1, <1>2, <1>3 DEF TokenState, GroupInv, TypeInv, TypeOK
<1>5. OneTime!Issue(u)
  BY <1>3, <1>4 DEF OneTime!Issue
<1> QED BY <1>5 DEF u

LEMMA JoinUses ==
  ASSUME GroupInv, NEW p \in Procs, VerifyJoin(p)
  PROVE  OneTime!Use(req[p].target)
<1> DEFINE u == req[p].target
           spent == [token[u] EXCEPT !.consumed = TRUE]
<1>1. u \in Users /\ token[u].hash # 0 /\ ~token[u].consumed
  BY DEF GroupInv, TypeInv, GoodRequest, Handler, Backed, VerifyJoin
<1>2. token[u] \in Token
  BY <1>1 DEF GroupInv, TypeInv, TypeOK
<1>3. spent.hash = token[u].hash /\ spent.consumed
  BY <1>2 DEF Token
<1>4. /\ token' = [token EXCEPT ![u] = spent]
      /\ joins' = [joins EXCEPT ![u] = @ + 1]
  BY DEF VerifyJoin
<1> HIDE DEF u, spent
<1>5. TokenState[u] = "live"
  BY <1>1 DEF TokenState
<1>6. TokenState' = [TokenState EXCEPT ![u] = "spent"]
  BY <1>1, <1>3, <1>4 DEF TokenState, GroupInv, TypeInv, TypeOK
<1>7. OneTime!Use(u)
  BY <1>4, <1>5, <1>6 DEF OneTime!Use
<1> QED BY <1>7 DEF u

LEMMA DisbandDeletes ==
  ASSUME NEW p \in Procs, Disband(p)  PROVE OneTime!Delete(Users)
BY DEF Disband, OneTime!Delete, TokenState, NoToken

LEMMA ExpireStutters ==
  ASSUME GroupInv, NEW u \in Users, Expire(u)  PROVE UNCHANGED OneTime!vars
<1> DEFINE old == [token[u] EXCEPT !.expired = TRUE]
<1>1. token[u] \in Token
  BY DEF GroupInv, TypeInv, TypeOK
<1>2. old.hash = token[u].hash /\ old.consumed = token[u].consumed
  BY <1>1 DEF Token
<1>3. token' = [token EXCEPT ![u] = old] /\ joins' = joins
  BY DEF Expire
<1> HIDE DEF old
<1>4. TokenState' = TokenState
  BY <1>2, <1>3 DEF TokenState, GroupInv, TypeInv, TypeOK
<1> QED BY <1>3, <1>4 DEF OneTime!vars

LEMMA StepMaps ==
  GroupInv /\ [Next]_vars => [OneTime!Next]_(OneTime!vars)
<1> SUFFICES ASSUME GroupInv, [Next]_vars
             PROVE  OneTime!Next \/ UNCHANGED OneTime!vars
  OBVIOUS
<1>1. UNCHANGED <<token, joins>> => UNCHANGED OneTime!vars
  BY DEF OneTime!vars, TokenState
<1>2. CASE UNCHANGED vars
  BY <1>1, <1>2 DEF vars, rows
<1>3. ASSUME NEW p \in Procs, Call(p) \/ Step(p) \/ Abort(p)
      PROVE  OneTime!Next \/ UNCHANGED OneTime!vars
  <2>1. CASE Call(p) \/ Abort(p)
    BY <1>1, <2>1 DEF Call, PostInvite, GetInvitation, PostRole, PostKick,
                      PostLeave, PostDisband, Receive, Abort, rows
  <2>2. CASE \/ GroupRolesGuard(p) \/ InviteActor(p) \/ InviteMember(p)
             \/ VerifyRead(p) \/ VerifyConsume(p)
             \/ RoleRead(p) \/ KickRead(p) \/ LeaveRead(p)
    BY <1>1, <2>2 DEF GroupRolesGuard, InviteActor, InviteMember, VerifyRead,
                      VerifyConsume, RoleRead, KickRead, LeaveRead, Proceed,
                      rows
  <2>3. CASE InviteMail(p) \/ RoleWrite(p) \/ KickWrite(p) \/ LeaveWrite(p)
    BY <1>1, <2>3 DEF InviteMail, RoleWrite, KickWrite, LeaveWrite
  <2>4. CASE InviteUpsert(p)
    <3>1. req[p].target \in Users
      BY <2>4 DEF InviteUpsert, GroupInv, TypeInv, GoodRequest, Handler
    <3>2. CASE exists
      BY <2>4, <3>1, <3>2, UpsertIssues DEF OneTime!Next
    <3>3. CASE ~exists
      BY <1>1, <2>4, <3>3 DEF InviteUpsert
    <3> QED BY <3>2, <3>3
  <2>5. CASE VerifyJoin(p)
    <3>1. req[p].target \in Users
      BY <2>5 DEF VerifyJoin, GroupInv, TypeInv, GoodRequest, Handler
    <3> QED BY <2>5, <3>1, JoinUses DEF OneTime!Next
  <2>6. CASE Disband(p)
    BY <2>6, DisbandDeletes DEF OneTime!Next
  <2> QED BY <1>3, <2>1, <2>2, <2>3, <2>4, <2>5, <2>6 DEF Step
<1>4. ASSUME NEW u \in Users, Expire(u)  PROVE UNCHANGED OneTime!vars
  BY <1>4, ExpireStutters
<1> QED BY <1>2, <1>3, <1>4 DEF Next

\* verifyInvitation honours what a token row promises, whatever requests do
\* meanwhile: used at most once each time it was issued.
THEOREM InvitationsAreOneTime == Spec => InvitationIsOneTime
<1>1. Init => OneTime!Init
  BY InitMaps
<1>2. GroupInv /\ [Next]_vars => [OneTime!Next]_(OneTime!vars)
  BY StepMaps
<1> QED BY <1>1, <1>2, GroupInvariant, PTL
        DEF Spec, InvitationIsOneTime, OneTime!Spec

======================================================================================================================================================
