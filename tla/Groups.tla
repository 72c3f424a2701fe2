------------------------------- MODULE Groups -------------------------------
(***************************************************************************)
(* GroupsService: who is in a group, with which role, and how members come *)
(* (by an invitation link), change role, and go.  One group, with its      *)
(* GroupMember rows and the ActionToken rows of its invitations.           *)
(*                                                                         *)
(* As in TaskStore a request is a process and each statement it awaits a   *)
(* step.  The transactions of leaveGroup, updateMemberRole and             *)
(* kickOutMember read without locking and write one row, so their write    *)
(* and their commit are one step.  verifyInvitation writes two rows: from  *)
(* its first write to its commit it holds the token row.                   *)
(***************************************************************************)
EXTENDS TaskRules, Naturals

CONSTANTS
  Users,     \* the accounts
  Procs,     \* the requests the server may be serving at one moment
  Null,      \* an unused field of a request
  ownerId,   \* Group.ownerId: the user who created the group
  firstRole, \* the members and their roles at the start
  Ops,       \* the operations clients ask for
  MaxCalls   \* bound: requests received in one behaviour

ASSUME GroupAssumption ==
  /\ ownerId \in Users
  /\ firstRole \in [Users -> GroupRole \cup {NoRow}]
  /\ firstRole[ownerId] = "OWNER"
  /\ Null \notin Users
  /\ MaxCalls \in Nat

VARIABLES
  exists, \* whether the row of Group is still there
  member, \* GroupMember.role of each user
  token,  \* the ActionToken row with the subject key of each invitee
  links,  \* invitation links that have been mailed
  issued, \* raw tokens generated so far: the next one is new
  joins,  \* history: admissions by each row since it was last issued
  req,    \* the request each process is serving
  calls   \* requests received so far

rows == <<exists, member, token, links, issued, joins>>
vars == <<rows, req, calls>>

\* Secrets are numbered; a row's hash is the number of its secret, 0 if the
\* row is not in the table.
Token == [hash : Nat, consumed : BOOLEAN, expired : BOOLEAN]
NoToken == [hash |-> 0, consumed |-> FALSE, expired |-> FALSE]
Link == [user : Users, hash : Nat]

PC ==
  { "idle", "guard", "invite_actor", "invite_member", "invite_upsert",
    "invite_mail", "verify_read", "verify_consume", "verify_join",
    "role_read", "role_write", "kick_read", "kick_write", "leave_read",
    "leave_write", "disband" }

NoRequest ==
  [ op |-> "none", pc |-> "idle", actor |-> Null, target |-> Null,
    newRole |-> NoRow, hash |-> 0 ]

Request ==
  [ op : {"none"} \cup Ops, pc : PC, actor : Users \cup {Null},
    target : Users \cup {Null}, newRole : GroupRole \cup {NoRow}, hash : Nat ]

Goto(p, pc) == req' = [req EXCEPT ![p].pc = pc]

\* The handler answers: with a result, or with the error it threw.
Finish(p) == req' = [req EXCEPT ![p] = NoRequest]

Receive(p, r) ==
  /\ req[p] = NoRequest
  /\ r.op \in Ops
  /\ calls < MaxCalls
  /\ req' = [req EXCEPT ![p] = r]
  /\ calls' = calls + 1
  /\ UNCHANGED rows

\* The request dies before its transaction has committed.
Abort(p) ==
  /\ req[p] # NoRequest
  /\ Finish(p)
  /\ UNCHANGED <<rows, calls>>

\* A step that reads and goes on, or throws.
Proceed(p, allowed, pc) ==
  /\ IF allowed THEN Goto(p, pc) ELSE Finish(p)
  /\ UNCHANGED <<rows, calls>>

\* No other request holds the token row of u.
TokenUnlocked(p, u) ==
  \A q \in Procs \ {p} : ~(req[q].pc = "verify_join" /\ req[q].target = u)

-----------------------------------------------------------------------------
(* GroupRolesGuard                                                         *)

RequireRoles ==
  [ invite |-> {"OWNER", "ADMIN"}, role |-> {"OWNER"},
    kick |-> {"OWNER", "ADMIN"}, disband |-> {"OWNER"} ]

ServiceEntry ==
  [ invite |-> "invite_actor", role |-> "role_read", kick |-> "kick_read",
    disband |-> "disband" ]

GroupRolesGuard(p) ==
  LET r == req[p] IN
  /\ r.pc = "guard"
  /\ Proceed(p, member[r.actor] \in RequireRoles[r.op], ServiceEntry[r.op])

-----------------------------------------------------------------------------
(* POST groups/:id/invitations                                             *)

PostInvite(p) ==
  \E u \in Users, a \in Users :
    Receive(p, [NoRequest EXCEPT !.op = "invite", !.pc = "guard",
                                 !.actor = u, !.target = a])

\* The actor's row is read again, but not its role.
InviteActor(p) ==
  /\ req[p].pc = "invite_actor"
  /\ Proceed(p, member[req[p].actor] # NoRow, "invite_member")

InviteMember(p) ==
  LET r == req[p] IN
  /\ r.pc = "invite_member"
  /\ Proceed(p, r.actor # r.target /\ member[r.target] = NoRow,
             "invite_upsert")

\* One row per invitee: a second invitation gives it a new secret.  Without
\* its group the row is refused by the foreign key.
InviteUpsert(p) ==
  LET r == req[p]
      n == issued + 1
  IN
  /\ r.pc = "invite_upsert"
  /\ TokenUnlocked(p, r.target)
  /\ IF exists
     THEN /\ token' = [token EXCEPT ![r.target] =
                         [hash |-> n, consumed |-> FALSE, expired |-> FALSE]]
          /\ issued' = n
          /\ joins' = [joins EXCEPT ![r.target] = 0]
          /\ req' = [req EXCEPT ![p].pc = "invite_mail", ![p].hash = n]
     ELSE /\ Finish(p)
          /\ UNCHANGED <<token, issued, joins>>
  /\ UNCHANGED <<exists, member, links, calls>>

InviteMail(p) ==
  LET r == req[p] IN
  /\ r.pc = "invite_mail"
  /\ links' = links \cup {[user |-> r.target, hash |-> r.hash]}
  /\ Finish(p)
  /\ UNCHANGED <<exists, member, token, issued, joins, calls>>

-----------------------------------------------------------------------------
(* GET groups/invitation/:id/:token                                        *)

\* Public: the link names the row, and so the user who joins.
GetInvitation(p) ==
  \E l \in links :
    Receive(p, [NoRequest EXCEPT !.op = "verify", !.pc = "verify_read",
                                 !.target = l.user, !.hash = l.hash])

\* Three days have passed.
Expire(u) ==
  /\ token[u].hash # 0 /\ ~token[u].expired
  /\ token' = [token EXCEPT ![u].expired = TRUE]
  /\ UNCHANGED <<exists, member, links, issued, joins, req, calls>>

VerifyRead(p) ==
  LET r == req[p]
      t == token[r.target]
  IN
  /\ r.pc = "verify_read"
  /\ Proceed(p, t.hash = r.hash /\ ~t.consumed /\ ~t.expired,
             "verify_consume")

\* Mutant of Consumable: that the row was unused when it was read suffices.
ConsumableOnceRead(t) == t.hash # 0

\* The where clause of the updateMany.  Its now is that of the first read, so
\* a link that expires in between still counts; the hash is not in it.
Consumable(t) == t.hash # 0 /\ ~t.consumed

\* updateMany waits for the row, and its count decides.
VerifyConsume(p) ==
  LET r == req[p] IN
  /\ r.pc = "verify_consume"
  /\ TokenUnlocked(p, r.target)
  /\ Proceed(p, Consumable(token[r.target]), "verify_join")

\* The upsert of the membership, which changes nothing for a member, and the
\* commit of both writes.
VerifyJoin(p) ==
  LET u == req[p].target IN
  /\ req[p].pc = "verify_join"
  /\ token' = [token EXCEPT ![u].consumed = TRUE]
  /\ member' = IF member[u] = NoRow THEN [member EXCEPT ![u] = "MEMBER"]
                                    ELSE member
  /\ joins' = [joins EXCEPT ![u] = @ + 1]
  /\ Finish(p)
  /\ UNCHANGED <<exists, links, issued, calls>>

-----------------------------------------------------------------------------
(* POST groups/:id/update/role                                             *)

PostRole(p) ==
  \E u \in Users, a \in Users, n \in GroupRole :
    Receive(p, [NoRequest EXCEPT !.op = "role", !.pc = "guard", !.actor = u,
                                 !.target = a, !.newRole = n])

\* Mutant of RoleAllowed: an owner's role may be changed by another owner.
RoleAllowedToOwner(r) ==
  /\ member[r.target] # NoRow /\ member[r.actor] # NoRow
  /\ r.actor # r.target
  /\ member[r.target] # r.newRole

\* A missing actor is not caught by the code; it throws all the same.
RoleAllowed(r) ==
  /\ member[r.target] # NoRow /\ member[r.actor] # NoRow
  /\ r.actor # r.target
  /\ member[r.target] \notin {"OWNER", r.newRole}

RoleRead(p) ==
  /\ req[p].pc = "role_read"
  /\ Proceed(p, RoleAllowed(req[p]), "role_write")

\* update by key: an error if the row has gone, else whatever it holds by now.
RoleWrite(p) ==
  LET r == req[p] IN
  /\ r.pc = "role_write"
  /\ member' = IF member[r.target] = NoRow
               THEN member ELSE [member EXCEPT ![r.target] = r.newRole]
  /\ Finish(p)
  /\ UNCHANGED <<exists, token, links, issued, joins, calls>>

-----------------------------------------------------------------------------
(* POST groups/:id/kick-out-members                                        *)

PostKick(p) ==
  \E u \in Users, a \in Users :
    Receive(p, [NoRequest EXCEPT !.op = "kick", !.pc = "guard", !.actor = u,
                                 !.target = a])

REMOVAL_MATRIX ==
  [OWNER |-> {"ADMIN", "MEMBER"}, ADMIN |-> {"MEMBER"}, MEMBER |-> {}]

\* Both rows in one read.
KickAllowed(r) ==
  /\ member[r.actor] # NoRow
  /\ r.actor # r.target
  /\ member[r.target] \in REMOVAL_MATRIX[member[r.actor]]

KickRead(p) ==
  /\ req[p].pc = "kick_read"
  /\ Proceed(p, KickAllowed(req[p]), "kick_write")

\* delete by key, whatever the row holds by now; an error if it has gone.
KickWrite(p) ==
  /\ req[p].pc = "kick_write"
  /\ member' = [member EXCEPT ![req[p].target] = NoRow]
  /\ Finish(p)
  /\ UNCHANGED <<exists, token, links, issued, joins, calls>>

-----------------------------------------------------------------------------
(* POST groups/:id/leave and groups/:id/disband                            *)

PostLeave(p) ==
  \E u \in Users :
    Receive(p, [NoRequest EXCEPT !.op = "leave", !.pc = "leave_read",
                                 !.actor = u])

LeaveRead(p) ==
  /\ req[p].pc = "leave_read"
  /\ Proceed(p, member[req[p].actor] \notin {NoRow, "OWNER"}, "leave_write")

\* Mutant of LeaveWrite: the row is deleted by key.
LeaveWriteByKey(p) ==
  /\ req[p].pc = "leave_write"
  /\ member' = [member EXCEPT ![req[p].actor] = NoRow]
  /\ Finish(p)
  /\ UNCHANGED <<exists, token, links, issued, joins, calls>>

\* deleteMany of the row unless it is an owner's by now.
LeaveWrite(p) ==
  LET u == req[p].actor IN
  /\ req[p].pc = "leave_write"
  /\ member' = IF member[u] = "OWNER" THEN member
                                      ELSE [member EXCEPT ![u] = NoRow]
  /\ Finish(p)
  /\ UNCHANGED <<exists, token, links, issued, joins, calls>>

PostDisband(p) ==
  \E u \in Users :
    Receive(p, [NoRequest EXCEPT !.op = "disband", !.pc = "guard",
                                 !.actor = u])

\* The group goes with its members and its tokens, once none of their rows is
\* held by a transaction.
Disband(p) ==
  /\ req[p].pc = "disband"
  /\ \A u \in Users : TokenUnlocked(p, u)
  /\ exists' = FALSE
  /\ member' = [u \in Users |-> NoRow]
  /\ token' = [u \in Users |-> NoToken]
  /\ joins' = [u \in Users |-> 0]
  /\ Finish(p)
  /\ UNCHANGED <<links, issued, calls>>

-----------------------------------------------------------------------------

\* As createGroup left it, and some members who have joined since.
Init ==
  /\ exists = TRUE
  /\ member = firstRole
  /\ token = [u \in Users |-> NoToken]
  /\ links = {}
  /\ issued = 0
  /\ joins = [u \in Users |-> 0]
  /\ req = [p \in Procs |-> NoRequest]
  /\ calls = 0

Call(p) ==
  \/ PostInvite(p) \/ GetInvitation(p) \/ PostRole(p) \/ PostKick(p)
  \/ PostLeave(p) \/ PostDisband(p)

Step(p) ==
  \/ GroupRolesGuard(p)
  \/ InviteActor(p) \/ InviteMember(p) \/ InviteUpsert(p) \/ InviteMail(p)
  \/ VerifyRead(p) \/ VerifyConsume(p) \/ VerifyJoin(p)
  \/ RoleRead(p) \/ RoleWrite(p) \/ KickRead(p) \/ KickWrite(p)
  \/ LeaveRead(p) \/ LeaveWrite(p) \/ Disband(p)

Next ==
  \/ \E p \in Procs : Call(p) \/ Step(p) \/ Abort(p)
  \/ \E u \in Users : Expire(u)

Spec == Init /\ [][Next]_vars

-----------------------------------------------------------------------------

TypeOK ==
  /\ exists \in BOOLEAN
  /\ member \in [Users -> GroupRole \cup {NoRow}]
  /\ token \in [Users -> Token]
  /\ links \subseteq Link
  /\ issued \in Nat
  /\ joins \in [Users -> Nat]
  /\ req \in [Procs -> Request]
  /\ calls \in 0 .. MaxCalls

\* Whoever Group.ownerId names is an owner for as long as the group exists:
\* neither a departure, a removal nor a new role takes that from them, although
\* updateMemberRole accepts OWNER, so that there may be other owners, and every
\* handler acts on roles it read before it writes.
FounderIsOwner == exists => member[ownerId] = "OWNER"

\* Nobody who is an owner is out of the group by leaving it: leaveGroup looks
\* again in the statement that deletes, for a promotion may have come between.
OwnersDoNotLeave ==
  [][\A u \in Users :
       member[u] = "OWNER" /\ member'[u] = NoRow =>
         \/ ~exists'
         \/ \E p \in Procs : req[p].op = "kick" /\ req'[p] # req[p]]_vars

\* verifyInvitation admits at most one request for each time an invitation was
\* issued, however many follow its links at once and whatever rotates the row
\* meanwhile: the token rows behave like those of OneTimeToken.
TokenState ==
  [u \in Users |-> IF token[u].hash = 0 THEN "none"
                   ELSE IF token[u].consumed THEN "spent" ELSE "live"]

OneTime ==
  INSTANCE OneTimeToken WITH Subjects <- Users, state <- TokenState,
                             uses <- joins

InvitationIsOneTime == OneTime!Spec

-----------------------------------------------------------------------------
(* What a comment promises and the code does not do.                       *)

\* groups.service.ts:214-215: "at most one active invite per (group, email)":
\* a link admits only while it is the one the row was issued for.
OneActiveInvite ==
  [][\A p \in Procs :
       VerifyJoin(p) => token[req[p].target].hash = req[p].hash]_vars

=============================================================================
