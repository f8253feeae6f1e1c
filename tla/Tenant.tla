------------------------------- MODULE Tenant -------------------------------
(***************************************************************************)
(* Who may act for a business and where its money goes: sign-in with a     *)
(* code, organisations, memberships and invites (backend/internal/org), and *)
(* the Administrative Gate, in which a merchant claims an M-Pesa number and *)
(* an operator decides (backend/internal/ledger, backend/internal/admin).  *)
(*                                                                         *)
(* A request is authenticated and reads in one step and commits in a later *)
(* one; the transactions are READ COMMITTED and lock no row they read.     *)
(***************************************************************************)
EXTENDS Naturals, Sequences, FiniteSets

CONSTANTS
    Users, NoUser,
    Orgs, NoOrg,   \* organisations, each named by its KRA PIN
    Numbers, NoNumber,  \* tills and paybills
    Requests,      \* requests of the api that may run at the same time
    MaxCodes,      \* codes a number may ask for in an hour (5 in the code)
    MaxSessions,   \* bound on the sessions of a user
    MaxInvites,    \* bound on invites
    MaxRows,       \* bound on claims of a number
    MaxOps         \* bound on the number of requests

ASSUME TenantAssumption ==
    /\ NoUser \notin Users
    /\ NoOrg \notin Orgs
    /\ NoNumber \notin Numbers
    /\ {MaxCodes, MaxSessions, MaxInvites, MaxRows, MaxOps} \subseteq Nat

Managers == {"owner", "admin"}
InvitedRoles == {"accountant", "staff", "admin"}
Roles == {"owner"} \cup InvitedRoles

VARIABLES
    codes,     \* otp_codes within an hour, by user: open, consumed or expired
    sessions,  \* live sessions of each user
    founder,   \* who created each organisation, and as what
    member,    \* memberships: the role, or none
    default,   \* memberships that are their user's default
    invites,   \* org_invites, in the order they were created
    rows,      \* mpesa_shortcodes, in the order they were created
    req,       \* where each request is, and what it has read
    mishap,    \* what has happened so far that the code does not defend against
    ops        \* requests so far

people == <<codes, sessions>>
team == <<founder, member, default, invites>>
vars == <<people, team, rows, req, mishap, ops>>

\* join: a user joined two organisations at the same time.
\* remove: a member was removed by someone who was no manager any more.
\* demote: a manager took up an older invite to a lesser role.
Mishaps == {"join", "remove", "demote"}

NoOne == [by |-> NoUser, role |-> "none"]
Idle == [pc |-> "idle", user |-> NoUser, org |-> NoOrg, arg |-> 0, role |-> "none",
         other |-> NoUser, number |-> NoNumber, first |-> FALSE, status |-> "none"]

\* A business that is up: its owner has signed in and created it.
Init ==
    /\ \E u \in Users, o \in Orgs :
          /\ founder = [x \in Orgs |-> IF x = o THEN [by |-> u, role |-> "owner"] ELSE NoOne]
          /\ member = [x \in Orgs |-> [v \in Users |->
                          IF x = o /\ v = u THEN "owner" ELSE "none"]]
          /\ default = {<<o, u>>}
          /\ sessions = [v \in Users |-> IF v = u THEN 1 ELSE 0]
          /\ codes = [v \in Users |-> IF v = u THEN <<"consumed">> ELSE <<>>]
    /\ invites = <<>>
    /\ rows = <<>>
    /\ req = [r \in Requests |-> Idle]
    /\ mishap = {}
    /\ ops = 0

Becomes(r, rec) == req' = [req EXCEPT ![r] = rec]

Ends(r) == Becomes(r, Idle)

Noted(kind, happened) == mishap' = IF happened THEN mishap \cup {kind} ELSE mishap

-----------------------------------------------------------------------------
(* Signing in.  A wrong code changes nothing: the transaction that counts  *)
(* the attempt is rolled back with the error it returns.                   *)

Exists(u) == sessions[u] > 0 \/ "consumed" \in {codes[u][k] : k \in DOMAIN codes[u]}

RequestOTP(u) ==
    /\ Len(codes[u]) < MaxCodes
    /\ codes' = [codes EXCEPT ![u] = Append(@, "open")]
    /\ UNCHANGED <<sessions, team, rows, req, mishap, ops>>

\* Five minutes pass.
CodeExpires(u) ==
    \E k \in DOMAIN codes[u] :
        /\ codes[u][k] = "open"
        /\ codes' = [codes EXCEPT ![u][k] = "expired"]
        /\ UNCHANGED <<sessions, team, rows, req, mishap, ops>>

\* The newest code that was not used and has not expired.
LatestOTP(u) ==
    LET open == {k \in DOMAIN codes[u] : codes[u][k] = "open"}
    IN {k \in open : \A l \in open : l =< k}

VerifyOTP(r, u) ==
    \E k \in LatestOTP(u) :
        /\ req[r] = Idle
        /\ Becomes(r, [Idle EXCEPT !.pc = "verify_otp", !.user = u, !.arg = k])
        /\ UNCHANGED <<people, team, rows, mishap, ops>>

\* ConsumeOTP updates by id: of two verifications both open a session.
ConsumeOTP(r) ==
    LET u == req[r].user
        k == req[r].arg
    IN /\ req[r].pc = "verify_otp"
       /\ sessions[u] < MaxSessions
       /\ codes' = [codes EXCEPT ![u][k] = "consumed"]
       /\ sessions' = [sessions EXCEPT ![u] = @ + 1]
       /\ Ends(r)
       /\ UNCHANGED <<team, rows, mishap, ops>>

Logout(u) ==
    /\ sessions[u] > 0
    /\ sessions' = [sessions EXCEPT ![u] = @ - 1]
    /\ UNCHANGED <<codes, team, rows, req, mishap, ops>>

\* A request of a user who has signed in begins.
Authenticate(r, u) ==
    /\ req[r] = Idle
    /\ sessions[u] > 0
    /\ ops < MaxOps
    /\ ops' = ops + 1

\* Principal with an X-Org-Id, RequireOrg and RequireRole.
RequireRole(r, u, o, allowed) ==
    /\ Authenticate(r, u)
    /\ member[o][u] \in allowed

-----------------------------------------------------------------------------
(* Organisations and memberships.                                          *)

MembershipsOf(u) == {o \in Orgs : member[o][u] # "none"}

\* Mutant: every membership that is new is the default.
AlwaysDefault(o, u, role, first) ==
    /\ member' = [member EXCEPT ![o][u] = role]
    /\ default' = IF member[o][u] = "none" THEN default \cup {<<o, u>>} ELSE default

\* INSERT ... ON CONFLICT (org_id, user_id) DO UPDATE SET role.
CreateMembership(o, u, role, first) ==
    /\ member' = [member EXCEPT ![o][u] = role]
    /\ default' = IF member[o][u] = "none" /\ first THEN default \cup {<<o, u>>} ELSE default

DeleteMembership(o, gone) ==
    /\ member' = [member EXCEPT ![o] = [v \in Users |-> IF v \in gone THEN "none" ELSE @[v]]]
    /\ default' = {d \in default : d[1] = o => d[2] \notin gone}

CreateOrg(r, u, o, role) ==
    /\ Authenticate(r, u)
    /\ founder[o] = NoOne
    /\ Becomes(r, [Idle EXCEPT !.pc = "create_org", !.user = u, !.org = o, !.role = role,
                               !.first = (MembershipsOf(u) = {})])
    /\ UNCHANGED <<people, team, rows, mishap>>

\* orgs.kra_pin_hash is UNIQUE: the second of two that crossed is refused.
CommitOrg(r) ==
    LET q == req[r] IN
    /\ q.pc = "create_org"
    /\ \/ /\ founder[q.org] = NoOne
          /\ founder' = [founder EXCEPT ![q.org] = [by |-> q.user, role |-> q.role]]
          /\ CreateMembership(q.org, q.user, q.role, q.first)
          /\ Noted("join", q.first # (MembershipsOf(q.user) = {}))
       \/ /\ founder[q.org] # NoOne
          /\ UNCHANGED <<founder, member, default, mishap>>
    /\ Ends(r)
    /\ UNCHANGED <<people, invites, rows, ops>>

\* Mutant: a manager may remove anyone, herself too.
RemoveAnyMember(r, u, o, target) ==
    /\ RequireRole(r, u, o, Managers)
    /\ Becomes(r, [Idle EXCEPT !.pc = "remove", !.user = u, !.org = o, !.other = target])
    /\ UNCHANGED <<people, team, rows, mishap>>

\* Anyone but herself, the owner included.
removeMember(r, u, o, target) ==
    /\ RequireRole(r, u, o, Managers)
    /\ target # u
    /\ Becomes(r, [Idle EXCEPT !.pc = "remove", !.user = u, !.org = o, !.other = target])
    /\ UNCHANGED <<people, team, rows, mishap>>

RemoveMember(r) ==
    LET q == req[r] IN
    /\ q.pc = "remove"
    /\ DeleteMembership(q.org, {q.other})
    /\ Noted("remove", member[q.org][q.user] \notin Managers)
    /\ Ends(r)
    /\ UNCHANGED <<people, founder, invites, rows, ops>>

-----------------------------------------------------------------------------
(* Invites.                                                                *)

Unscoped == "none"
AccountantScope == "accountant"

\* The policies org_invites_tenant and org_invites_accountant_*: all in the
\* accountants' scope, and none without a scope.
InvitesIn(scope) == IF scope = AccountantScope THEN DOMAIN invites ELSE {}

\* By phone; no code writes the e-mail address of a user.
InviteMember(r, u, o, to, role) ==
    /\ RequireRole(r, u, o, Managers)
    /\ Exists(to) => to # u /\ member[o][to] = "none"
    /\ Becomes(r, [Idle EXCEPT !.pc = "invite", !.user = u, !.org = o, !.other = to,
                               !.role = role])
    /\ UNCHANGED <<people, team, rows, mishap>>

CreateInvite(r) ==
    LET q == req[r] IN
    /\ q.pc = "invite"
    /\ Len(invites) < MaxInvites
    /\ invites' = Append(invites, [org |-> q.org, to |-> q.other, role |-> q.role,
                                   status |-> "pending", answers |-> 0])
    /\ Ends(r)
    /\ UNCHANGED <<people, founder, member, default, rows, mishap, ops>>

\* Cancels the invite and removes whoever joined by it, of the invites the
\* transaction sees: the service runs it without a scope, where it sees none.
RevokeInvite(r, u, o, i) ==
    LET seen == {x \in InvitesIn(Unscoped) : x = i /\ invites[x].org = o}
        gone == {invites[x].to : x \in {y \in seen : invites[y].status = "pending"}}
    IN /\ RequireRole(r, u, o, Managers)
       /\ DeleteMembership(o, {v \in gone : Exists(v)})
       /\ invites' = [x \in DOMAIN invites |->
                         IF x \in seen THEN [invites[x] EXCEPT !.status = "revoked"]
                         ELSE invites[x]]
       /\ UNCHANGED <<people, founder, rows, req, mishap>>

\* A pending invite to the caller, as read.
Answering(r, u, i, pc) ==
    /\ Authenticate(r, u)
    /\ i \in InvitesIn(AccountantScope)
    /\ invites[i].status = "pending"
    /\ invites[i].to = u
    /\ Becomes(r, [Idle EXCEPT !.pc = pc, !.user = u, !.org = invites[i].org, !.arg = i,
                               !.role = invites[i].role, !.first = (MembershipsOf(u) = {})])
    /\ UNCHANGED <<people, team, rows, mishap>>

acceptAccountantInvite(r, u, i) == Answering(r, u, i, "accept")
rejectAccountantInvite(r, u, i) == Answering(r, u, i, "refuse")

\* Mutant: the UPDATE goes by the id alone.
AnswerAnyway(i, status) ==
    invites' = [invites EXCEPT ![i].status = status, ![i].answers = @ + 1]

\* UPDATE ... WHERE id = $1 AND status = 'pending'; no row is an error, and
\* the request ends with nothing done.
Answer(i, status) ==
    /\ invites[i].status = "pending"
    /\ invites' = [invites EXCEPT ![i].status = status, ![i].answers = @ + 1]

AcceptInvite(r) ==
    LET q == req[r] IN
    /\ q.pc = "accept"
    /\ Answer(q.arg, "accepted")
    /\ CreateMembership(q.org, q.user, q.role, q.first)
    /\ mishap' = mishap
          \cup (IF q.first # (MembershipsOf(q.user) = {}) THEN {"join"} ELSE {})
          \cup (IF member[q.org][q.user] \in Managers /\ q.role \notin Managers
                THEN {"demote"} ELSE {})
    /\ Ends(r)
    /\ UNCHANGED <<people, founder, rows, ops>>

RejectInvite(r) ==
    /\ req[r].pc = "refuse"
    /\ Answer(req[r].arg, "rejected")
    /\ Ends(r)
    /\ UNCHANGED <<people, founder, member, default, rows, mishap, ops>>

AnsweredMeanwhile(r) ==
    /\ req[r].pc \in {"accept", "refuse"}
    /\ invites[req[r].arg].status # "pending"
    /\ Ends(r)
    /\ UNCHANGED <<people, team, rows, mishap, ops>>

-----------------------------------------------------------------------------
(* The Administrative Gate.  Operators come through the admin routes or    *)
(* ciftctl; accountants have read-only access to the merchant's routes.    *)

Verified(n) == {i \in DOMAIN rows : rows[i].number = n /\ rows[i].status = "verified"}

\* The organisations a payment to this number can reach.
ResolveShortcode(n) == {rows[i].org : i \in Verified(n)}

claimedElsewhere(n, o) == ResolveShortcode(n) \ {o} # {}

createShortcode(r, u, o, n) ==
    /\ RequireRole(r, u, o, Roles \ {"accountant"})
    /\ ~claimedElsewhere(n, o)
    /\ Becomes(r, [Idle EXCEPT !.pc = "shortcode", !.user = u, !.org = o, !.number = n])
    /\ UNCHANGED <<people, team, rows, mishap>>

\* Several claims of one number may wait, of one organisation too.
CreateShortcode(r) ==
    /\ req[r].pc = "shortcode"
    /\ Len(rows) < MaxRows
    /\ rows' = Append(rows, [org |-> req[r].org, number |-> req[r].number,
                             status |-> "pending_authorization", letter |-> FALSE,
                             auto |-> TRUE, registered |-> FALSE])
    /\ Ends(r)
    /\ UNCHANGED <<people, team, mishap, ops>>

\* Label and default item aside: auto_invoice, in whatever state the row is.
updateShortcode(r, u, i) ==
    /\ RequireRole(r, u, rows[i].org, Roles \ {"accountant"})
    /\ rows' = [rows EXCEPT ![i].auto = ~@]
    /\ UNCHANGED <<people, team, req, mishap>>

\* Mutant: a new letter sends every row back to the queue.
LetterReopens(row) == [row EXCEPT !.letter = TRUE, !.status = "pending_authorization"]

\* The CASE is decided when the row is written, not when it was read.
SetShortcodeAuthorizationLetter(row) ==
    [row EXCEPT !.letter = TRUE,
                !.status = IF @ = "verified" THEN @ ELSE "pending_authorization"]

SubmitAuthorization(r, u, i) ==
    /\ RequireRole(r, u, rows[i].org, Roles \ {"accountant"})
    /\ rows' = [rows EXCEPT ![i] = SetShortcodeAuthorizationLetter(@)]
    /\ UNCHANGED <<people, team, req, mishap>>

Decides(r, i, pc) ==
    /\ req[r] = Idle
    /\ ops < MaxOps
    /\ ops' = ops + 1
    /\ rows[i].status # "verified"
    /\ Becomes(r, [Idle EXCEPT !.pc = pc, !.arg = i, !.status = rows[i].status])
    /\ UNCHANGED <<people, team, rows, mishap>>

\* Of a verified row Verify is a replay and Reject a conflict: neither goes on.
adminVerifyShortcode(r, i) == Decides(r, i, "verify")
adminRejectShortcode(r, i) == Decides(r, i, "reject")

\* The index mpesa_shortcodes_verified_unique refuses a second verified row.
VerifyShortcode(r) ==
    LET i == req[r].arg IN
    /\ req[r].pc = "verify"
    /\ \/ /\ Verified(rows[i].number) \subseteq {i}
          /\ rows' = [rows EXCEPT ![i].status = "verified"]
          /\ Becomes(r, [req[r] EXCEPT !.pc = "register"])
       \/ /\ ~(Verified(rows[i].number) \subseteq {i})
          /\ Ends(r)
          /\ UNCHANGED rows
    /\ UNCHANGED <<people, team, mishap, ops>>

\* RegisterC2BURLs and MarkShortcodeC2BRegistered, or nothing when the call
\* fails or the request ends first.
RegisterC2BURLs(r) ==
    \E ok \in BOOLEAN :
        /\ req[r].pc = "register"
        /\ rows' = IF ok THEN [rows EXCEPT ![req[r].arg].registered = TRUE] ELSE rows
        /\ Ends(r)
        /\ UNCHANGED <<people, team, mishap, ops>>

\* UPDATE by id: the row may have been verified since it was read.
RejectShortcode(r) ==
    /\ req[r].pc = "reject"
    /\ rows' = [rows EXCEPT ![req[r].arg].status = "rejected"]
    /\ Ends(r)
    /\ UNCHANGED <<people, team, mishap, ops>>

-----------------------------------------------------------------------------
SignIn(r, u) ==
    \/ RequestOTP(u) \/ CodeExpires(u) \/ VerifyOTP(r, u) \/ Logout(u)

Ask(r, u) ==
    \/ \E o \in Orgs :
          \/ \E role \in {"owner", "accountant"} : CreateOrg(r, u, o, role)
          \/ \E v \in Users : removeMember(r, u, o, v)
          \/ \E v \in Users, role \in InvitedRoles : InviteMember(r, u, o, v, role)
          \/ \E i \in DOMAIN invites : RevokeInvite(r, u, o, i)
          \/ \E n \in Numbers : createShortcode(r, u, o, n)
    \/ \E i \in DOMAIN invites :
          acceptAccountantInvite(r, u, i) \/ rejectAccountantInvite(r, u, i)
    \/ \E i \in DOMAIN rows : updateShortcode(r, u, i) \/ SubmitAuthorization(r, u, i)

Operate(r) ==
    \E i \in DOMAIN rows : adminVerifyShortcode(r, i) \/ adminRejectShortcode(r, i)

Commit(r) ==
    \/ ConsumeOTP(r) \/ CommitOrg(r) \/ RemoveMember(r) \/ CreateInvite(r)
    \/ AcceptInvite(r) \/ RejectInvite(r) \/ AnsweredMeanwhile(r)
    \/ CreateShortcode(r) \/ VerifyShortcode(r) \/ RegisterC2BURLs(r) \/ RejectShortcode(r)

Next ==
    \E r \in Requests :
        \/ \E u \in Users : SignIn(r, u) \/ Ask(r, u)
        \/ Operate(r)
        \/ Commit(r)

Spec == Init /\ [][Next]_vars

-----------------------------------------------------------------------------
(* Properties.                                                             *)

Lifts(u, o, role) ==
    \/ founder[o] = [by |-> u, role |-> role]
    \/ \E i \in DOMAIN invites :
          /\ invites[i].org = o /\ invites[i].to = u /\ invites[i].role = role
          /\ invites[i].status = "accepted"

\* Nobody belongs to an organisation he did not create or was not invited to,
\* in that role, and an invite is answered once, however acceptances and
\* refusals of it cross.
JoinedByInvite ==
    /\ \A o \in Orgs, u \in Users : member[o][u] # "none" => Lifts(u, o, member[o][u])
    /\ \A i \in DOMAIN invites : invites[i].answers =< 1

\* A user has at most one default organisation, the one she acts for without
\* naming it, unless she joined two at the same time.
OneDefault ==
    "join" \notin mishap =>
        \A u \in Users, o, p \in Orgs : {<<o, u>>, <<p, u>>} \subseteq default => o = p

\* A business an owner created keeps someone who can manage its members, whoever
\* is removed, as nobody can remove himself: unless two managers removed each
\* other at the same time, or one took up an older invite to a lesser role.
Managed ==
    mishap \cap {"remove", "demote"} = {} =>
        \A o \in Orgs : founder[o].role = "owner" =>
            \E u \in Users : member[o][u] \in Managers

\* A reject that was under way before the row was verified.
LateReject(i) ==
    \E r \in Requests :
        /\ req[r].pc = "reject" /\ req[r].arg = i /\ req[r].status # "verified"
        /\ req'[r] = Idle

\* Money sent to a number reaches one organisation at most, the one an operator
\* verified, and goes on reaching it whatever the merchants upload and claim:
\* "revoke is not an API operation".  A rejection that was decided before the
\* verification and written after it is the exception.
RoutingStays ==
    [][\A n \in Numbers :
          /\ Cardinality(Verified(n)') =< 1
          /\ \A i \in Verified(n) : i \in Verified(n)' \/ LateReject(i)]_vars

-----------------------------------------------------------------------------
(* What makes them inductive: the shape of the tables, and what a request  *)
(* that has read and not yet written may rely on.                          *)

InviteRecords ==
    [org: Orgs, to: Users, role: InvitedRoles,
     status: {"pending", "accepted", "rejected", "revoked"}, answers: Nat]

ShortcodeRecords ==
    [org: Orgs, number: Numbers, status: {"pending_authorization", "verified", "rejected"},
     letter: BOOLEAN, auto: BOOLEAN, registered: BOOLEAN]

RequestRecords ==
    [pc: {"idle", "verify_otp", "create_org", "remove", "invite", "accept", "refuse",
          "shortcode", "verify", "register", "reject"},
     user: Users \cup {NoUser}, org: Orgs \cup {NoOrg}, arg: Nat, role: Roles \cup {"none"},
     other: Users \cup {NoUser}, number: Numbers \cup {NoNumber}, first: BOOLEAN,
     status: {"none", "pending_authorization", "verified", "rejected"}]

PeopleOK ==
    /\ codes \in [Users -> Seq({"open", "consumed", "expired"})]
    /\ sessions \in [Users -> Nat]

TeamOK ==
    /\ founder \in [Orgs -> [by: Users \cup {NoUser}, role: {"none", "owner", "accountant"}]]
    /\ member \in [Orgs -> [Users -> Roles \cup {"none"}]]
    /\ default \subseteq Orgs \X Users
    /\ invites \in Seq(InviteRecords)

RowsOK == rows \in Seq(ShortcodeRecords)

\* An invite being answered is the one that was read; only its status moves on.
RequestOK(r) ==
    LET q == req[r] IN
    /\ q.pc \in {"create_org", "remove", "invite", "accept", "refuse"} => q.user \in Users
    /\ q.pc \in {"create_org", "remove", "invite", "accept", "refuse", "shortcode"} => q.org \in Orgs
    /\ q.pc = "create_org" => q.role \in {"owner", "accountant"}
    /\ q.pc = "remove" => q.other # q.user
    /\ q.pc = "invite" => q.other \in Users /\ q.role \in InvitedRoles
    /\ q.pc \in {"accept", "refuse"} =>
          /\ q.arg \in DOMAIN invites
          /\ invites[q.arg].org = q.org /\ invites[q.arg].to = q.user /\ invites[q.arg].role = q.role
    /\ q.pc = "shortcode" => q.number \in Numbers
    /\ q.pc \in {"verify", "register", "reject"} => q.arg \in DOMAIN rows
    /\ q.pc = "reject" => q.status # "verified"

RequestsOK ==
    /\ req \in [Requests -> RequestRecords]
    /\ \A r \in Requests : RequestOK(r)

WellFormed == PeopleOK /\ TeamOK /\ RowsOK /\ RequestsOK

PendingUnanswered ==
    \A i \in DOMAIN invites : invites[i].status = "pending" => invites[i].answers = 0

DefaultsBelong == \A d \in default : member[d[1]][d[2]] # "none"

OneVerified == \A n \in Numbers : \A i, j \in Verified(n) : i = j
=============================================================================
