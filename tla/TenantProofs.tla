---------------------------- MODULE TenantProofs ----------------------------
(* Theorems about Tenant, for every value of its constants.                *)
EXTENDS Tenant, FiniteSetTheorems, SequenceTheorems, TLAPS

\* The tables of invites and numbers, as functions.
LEMMA Tables ==
  ASSUME WellFormed
  PROVE  /\ Len(invites) \in Nat /\ DOMAIN invites = 1 .. Len(invites)
         /\ \A i \in DOMAIN invites : invites[i] \in InviteRecords
         /\ Len(rows) \in Nat /\ DOMAIN rows = 1 .. Len(rows)
         /\ \A i \in DOMAIN rows : rows[i] \in ShortcodeRecords
BY LenProperties DEF WellFormed, TeamOK, RowsOK

\* Tables only grow, and an invite keeps who invites whom as what.
Grows ==
    /\ DOMAIN invites \subseteq DOMAIN invites' /\ DOMAIN rows \subseteq DOMAIN rows'
    /\ \A i \in DOMAIN invites : /\ invites'[i].org = invites[i].org
                                 /\ invites'[i].to = invites[i].to
                                 /\ invites'[i].role = invites[i].role

\* When a request moves on, the others may still rely on what they read.
LEMMA BecomesOK ==
  ASSUME WellFormed, NEW r \in Requests, NEW rec \in RequestRecords, Becomes(r, rec), Grows,
         RequestOK(r)'
  PROVE  RequestsOK'
<1>1. req' \in [Requests -> RequestRecords]
  BY DEF Becomes, WellFormed, RequestsOK
<1>2. ASSUME NEW s \in Requests PROVE RequestOK(s)'
  <2>1. CASE s = r
    BY <2>1
  <2>2. CASE s # r
    <3>1. req'[s] = req[s] /\ RequestOK(s)
      BY <2>2 DEF Becomes, WellFormed, RequestsOK
    <3> QED
      BY <3>1 DEF RequestOK, Grows
  <2> QED
    BY <2>1, <2>2
<1> QED
  BY <1>1, <1>2 DEF RequestsOK

\* A request that ends relies on nothing.
LEMMA EndsOK ==
  ASSUME WellFormed, NEW r \in Requests, Ends(r), Grows
  PROVE  RequestsOK'
<1>1. Idle \in RequestRecords
  BY DEF Idle, RequestRecords
<1>2. RequestOK(r)'
  BY DEF Ends, Becomes, Idle, RequestOK, WellFormed, RequestsOK
<1> QED
  BY <1>1, <1>2, BecomesOK DEF Ends

\* A step that no request notices.
LEMMA UnnoticedOK ==
  ASSUME WellFormed, UNCHANGED req, Grows
  PROVE  RequestsOK'
<1> SUFFICES ASSUME NEW s \in Requests PROVE RequestOK(s)'
  BY DEF WellFormed, RequestsOK
<1>1. RequestOK(s)
  BY DEF WellFormed, RequestsOK
<1> QED
  BY <1>1 DEF RequestOK, Grows

\* RevokeInvite runs without a scope, in which the policies of the table show
\* it no invite: it revokes nothing and removes nobody.
LEMMA RevokesNothing ==
  ASSUME WellFormed, NEW r, NEW u, NEW o \in Orgs, NEW i, RevokeInvite(r, u, o, i)
  PROVE  UNCHANGED <<team, rows, req, mishap>>
<1>1. InvitesIn(Unscoped) = {}
  BY DEF InvitesIn, Unscoped, AccountantScope
<1>2. invites' = [x \in DOMAIN invites |-> invites[x]]
  BY <1>1 DEF RevokeInvite
<1>3. invites' = invites
  BY <1>2, Tables DEF WellFormed, TeamOK
<1>4. DeleteMembership(o, {}) /\ UNCHANGED <<founder, rows, req, mishap>>
  BY <1>1 DEF RevokeInvite
<1>5. member' = [member EXCEPT ![o] = [v \in Users |-> member[o][v]]]
  BY <1>4 DEF DeleteMembership
<1>6. member' = member
  BY <1>5 DEF WellFormed, TeamOK
<1>7. default' = default
  BY <1>4 DEF DeleteMembership
<1> QED
  BY <1>3, <1>4, <1>6, <1>7 DEF team

\* A request that begins has read what it will rely on.
LEMMA AskingOK ==
  ASSUME WellFormed, NEW r \in Requests, NEW u \in Users,
         \/ VerifyOTP(r, u)
         \/ \E o \in Orgs :
              \/ \E role \in {"owner", "accountant"} : CreateOrg(r, u, o, role)
              \/ \E v \in Users : removeMember(r, u, o, v)
              \/ \E v \in Users, role \in InvitedRoles : InviteMember(r, u, o, v, role)
              \/ \E n \in Numbers : createShortcode(r, u, o, n)
         \/ \E i \in DOMAIN invites : acceptAccountantInvite(r, u, i) \/ rejectAccountantInvite(r, u, i)
  PROVE  RequestsOK' /\ UNCHANGED <<team, rows, mishap>>
<1> DEFINE Asks(rec) == /\ Becomes(r, rec) /\ rec \in RequestRecords
                        /\ UNCHANGED <<team, rows, mishap>>
<1>0. ASSUME NEW rec, Asks(rec) PROVE req'[r] = rec /\ Grows /\ UNCHANGED <<invites, rows>>
  BY <1>0 DEF Becomes, Grows, team, WellFormed, RequestsOK
<1>1. CASE VerifyOTP(r, u)
  <2>1. PICK k \in LatestOTP(u) :
          /\ Becomes(r, [Idle EXCEPT !.pc = "verify_otp", !.user = u, !.arg = k])
          /\ UNCHANGED <<people, team, rows, mishap>>
    BY <1>1 DEF VerifyOTP
  <2> DEFINE rec == [Idle EXCEPT !.pc = "verify_otp", !.user = u, !.arg = k]
  <2>3. codes[u] \in Seq({"open", "consumed", "expired"}) /\ k \in DOMAIN codes[u]
    BY DEF WellFormed, PeopleOK, LatestOTP
  <2>4. k \in Nat
    BY <2>3, LenProperties
  <2>2. Asks(rec) /\ rec.pc = "verify_otp"
    BY <2>1, <2>4 DEF Idle, RequestRecords
  <2> QED
    BY <1>0, <2>2, BecomesOK DEF RequestOK
<1>2. ASSUME NEW o \in Orgs, NEW role \in {"owner", "accountant"}, CreateOrg(r, u, o, role)
      PROVE  RequestsOK' /\ UNCHANGED <<team, rows, mishap>>
  <2> DEFINE first == (MembershipsOf(u) = {})
             rec == [Idle EXCEPT !.pc = "create_org", !.user = u, !.org = o, !.role = role, !.first = first]
  <2>0. first \in BOOLEAN
    OBVIOUS
  <2> HIDE DEF first
  <2>2. rec \in RequestRecords /\ rec.pc = "create_org" /\ rec.user = u /\ rec.org = o /\ rec.role = role
    BY <2>0 DEF Idle, RequestRecords, Roles, InvitedRoles
  <2>3. Becomes(r, rec) /\ UNCHANGED <<team, rows, mishap>>
    BY <1>2 DEF CreateOrg, first
  <2> HIDE DEF rec
  <2> QED
    BY <1>0, <2>2, <2>3, BecomesOK DEF RequestOK
<1>3. ASSUME NEW o \in Orgs, NEW v \in Users, removeMember(r, u, o, v)
      PROVE  RequestsOK' /\ UNCHANGED <<team, rows, mishap>>
  <2> DEFINE rec == [Idle EXCEPT !.pc = "remove", !.user = u, !.org = o, !.other = v]
  <2>2. rec \in RequestRecords /\ rec.pc = "remove" /\ rec.user = u /\ rec.org = o /\ rec.other = v
    BY DEF Idle, RequestRecords
  <2>3. Becomes(r, rec) /\ UNCHANGED <<team, rows, mishap>> /\ u # v
    BY <1>3 DEF removeMember
  <2> HIDE DEF rec
  <2> QED
    BY <1>0, <2>2, <2>3, BecomesOK DEF RequestOK
<1>4. ASSUME NEW o \in Orgs, NEW v \in Users, NEW role \in InvitedRoles, InviteMember(r, u, o, v, role)
      PROVE  RequestsOK' /\ UNCHANGED <<team, rows, mishap>>
  <2> DEFINE rec == [Idle EXCEPT !.pc = "invite", !.user = u, !.org = o, !.other = v, !.role = role]
  <2>2. /\ rec \in RequestRecords /\ rec.pc = "invite" /\ rec.user = u /\ rec.org = o
        /\ rec.other = v /\ rec.role = role
    BY DEF Idle, RequestRecords, Roles
  <2>3. Becomes(r, rec) /\ UNCHANGED <<team, rows, mishap>>
    BY <1>4 DEF InviteMember
  <2> HIDE DEF rec
  <2> QED
    BY <1>0, <2>2, <2>3, BecomesOK DEF RequestOK
<1>5. ASSUME NEW o \in Orgs, NEW n \in Numbers, createShortcode(r, u, o, n)
      PROVE  RequestsOK' /\ UNCHANGED <<team, rows, mishap>>
  <2> DEFINE rec == [Idle EXCEPT !.pc = "shortcode", !.user = u, !.org = o, !.number = n]
  <2>2. rec \in RequestRecords /\ rec.pc = "shortcode" /\ rec.org = o /\ rec.number = n
    BY DEF Idle, RequestRecords
  <2>3. Becomes(r, rec) /\ UNCHANGED <<team, rows, mishap>>
    BY <1>5 DEF createShortcode
  <2> HIDE DEF rec
  <2> QED
    BY <1>0, <2>2, <2>3, BecomesOK DEF RequestOK
<1>6. ASSUME NEW i \in DOMAIN invites, NEW pc \in {"accept", "refuse"}, Answering(r, u, i, pc)
      PROVE  RequestsOK' /\ UNCHANGED <<team, rows, mishap>>
  <2> DEFINE first == (MembershipsOf(u) = {})
             rec == [Idle EXCEPT !.pc = pc, !.user = u, !.org = invites[i].org, !.arg = i,
                                 !.role = invites[i].role, !.first = first]
  <2>0. /\ first \in BOOLEAN /\ i \in Nat /\ invites[i].org \in Orgs /\ invites[i].role \in InvitedRoles
    BY Tables DEF InviteRecords
  <2> HIDE DEF first
  <2>2. /\ rec \in RequestRecords /\ rec.pc = pc /\ rec.user = u /\ rec.org = invites[i].org
        /\ rec.arg = i /\ rec.role = invites[i].role
    BY <2>0 DEF Idle, RequestRecords, Roles
  <2>3. Becomes(r, rec) /\ UNCHANGED <<team, rows, mishap>> /\ invites[i].to = u
    BY <1>6 DEF Answering, first
  <2> HIDE DEF rec
  <2> QED
    BY <1>0, <2>0, <2>2, <2>3, BecomesOK DEF RequestOK
<1> QED
  BY <1>1, <1>2, <1>3, <1>4, <1>5, <1>6 DEF acceptAccountantInvite, rejectAccountantInvite

\* An invite or a number that is replaced in place leaves a table of the same shape.
LEMMA ReplacedInPlace ==
  ASSUME NEW S, NEW seq \in Seq(S), NEW i \in DOMAIN seq, NEW x \in S
  PROVE  /\ [seq EXCEPT ![i] = x] \in Seq(S)
         /\ DOMAIN [seq EXCEPT ![i] = x] = DOMAIN seq
BY ExceptSeq

\* What a request does to its user's codes and sessions.
LEMMA PeopleStay ==
  ASSUME PeopleOK,
         \/ \E u \in Users : RequestOTP(u) \/ CodeExpires(u) \/ Logout(u)
         \/ \E r \in Requests : ConsumeOTP(r)
  PROVE  PeopleOK'
<1> DEFINE S == {"open", "consumed", "expired"}
<1>0. ASSUME NEW v \in Users, NEW k \in DOMAIN codes[v], NEW x \in S, 
             codes' = [codes EXCEPT ![v][k] = x]
      PROVE  codes' \in [Users -> Seq(S)]
  <2>1. [codes[v] EXCEPT ![k] = x] \in Seq(S)
    BY ReplacedInPlace DEF PeopleOK
  <2> QED
    BY <2>1, <1>0 DEF PeopleOK
<1>1. ASSUME NEW u \in Users, RequestOTP(u) PROVE PeopleOK'
  <2>1. Append(codes[u], "open") \in Seq(S)
    BY AppendProperties DEF PeopleOK
  <2> QED
    BY <1>1, <2>1 DEF RequestOTP, PeopleOK
<1>2. ASSUME NEW u \in Users, CodeExpires(u) PROVE PeopleOK'
  BY <1>0, <1>2 DEF CodeExpires, PeopleOK
<1>3. ASSUME NEW u \in Users, Logout(u) PROVE PeopleOK'
  BY <1>3 DEF Logout, PeopleOK
<1>4. ASSUME NEW r \in Requests, ConsumeOTP(r) PROVE PeopleOK'
  <2> DEFINE v == req[r].user
             k == req[r].arg
  <2>1. codes' = [codes EXCEPT ![v][k] = "consumed"] /\ sessions' = [sessions EXCEPT ![v] = @ + 1]
    BY <1>4 DEF ConsumeOTP
  <2> HIDE DEF v, k
  <2>2. CASE v \in Users /\ k \in DOMAIN codes[v]
    BY <1>0, <2>1, <2>2 DEF PeopleOK
  <2>3. CASE v \in Users /\ k \notin DOMAIN codes[v]
    <3>1. codes[v] \in Seq(S)
      BY <2>3 DEF PeopleOK
    <3>2. [codes[v] EXCEPT ![k] = "consumed"] = codes[v]
      BY <2>3, <3>1, LenProperties
    <3>3. codes' = [codes EXCEPT ![v] = codes[v]]
      BY <2>1, <3>2
    <3>4. codes' = codes
      BY <3>3 DEF PeopleOK
    <3>5. sessions' \in [Users -> Nat]
      BY <2>1, <2>3 DEF PeopleOK
    <3> QED
      BY <3>4, <3>5 DEF PeopleOK
  <2>4. CASE v \notin Users
    BY <2>1, <2>4 DEF PeopleOK
  <2> QED
    BY <2>2, <2>3, <2>4
<1> QED
  BY <1>1, <1>2, <1>3, <1>4

\* The step of a request that the rest of the tables do not notice.
LEMMA RowsStay ==
  ASSUME WellFormed, NEW r \in Requests,
         \/ CreateShortcode(r) \/ VerifyShortcode(r) \/ RegisterC2BURLs(r) \/ RejectShortcode(r)
         \/ \E u \in Users, i \in DOMAIN rows : updateShortcode(r, u, i) \/ SubmitAuthorization(r, u, i)
  PROVE  RowsOK' /\ DOMAIN rows \subseteq DOMAIN rows'
<1>0. ASSUME NEW i \in DOMAIN rows, NEW row \in ShortcodeRecords, rows' = [rows EXCEPT ![i] = row]
      PROVE  RowsOK' /\ DOMAIN rows' = DOMAIN rows
  BY <1>0, ReplacedInPlace DEF WellFormed, RowsOK
<1>1. CASE CreateShortcode(r)
  <2> DEFINE row == [org |-> req[r].org, number |-> req[r].number,
                     status |-> "pending_authorization", letter |-> FALSE,
                     auto |-> TRUE, registered |-> FALSE]
  <2>1. req[r].org \in Orgs /\ req[r].number \in Numbers
    BY <1>1 DEF CreateShortcode, WellFormed, RequestsOK, RequestOK
  <2>2. row \in ShortcodeRecords
    BY <2>1 DEF ShortcodeRecords
  <2>3. rows' = Append(rows, row)
    BY <1>1 DEF CreateShortcode
  <2> HIDE DEF row
  <2>4. rows' \in Seq(ShortcodeRecords) /\ Len(rows') = Len(rows) + 1
    BY <2>2, <2>3, AppendProperties DEF WellFormed, RowsOK
  <2>5. DOMAIN rows' = 1 .. Len(rows')
    BY <2>4, LenProperties
  <2> QED
    BY <2>4, <2>5, Tables DEF RowsOK
<1>2. CASE VerifyShortcode(r)
  <2>1. req[r].arg \in DOMAIN rows
    BY <1>2 DEF VerifyShortcode, WellFormed, RequestsOK, RequestOK
  <2>2. [rows[req[r].arg] EXCEPT !.status = "verified"] \in ShortcodeRecords
    BY <2>1, Tables DEF ShortcodeRecords
  <2> QED
    BY <1>0, <1>2, <2>1, <2>2 DEF VerifyShortcode, WellFormed, RowsOK
<1>3. CASE RegisterC2BURLs(r)
  <2>1. req[r].arg \in DOMAIN rows
    BY <1>3 DEF RegisterC2BURLs, WellFormed, RequestsOK, RequestOK
  <2>2. [rows[req[r].arg] EXCEPT !.registered = TRUE] \in ShortcodeRecords
    BY <2>1, Tables DEF ShortcodeRecords
  <2> QED
    BY <1>0, <1>3, <2>1, <2>2 DEF RegisterC2BURLs, WellFormed, RowsOK
<1>4. CASE RejectShortcode(r)
  <2>1. req[r].arg \in DOMAIN rows
    BY <1>4 DEF RejectShortcode, WellFormed, RequestsOK, RequestOK
  <2>2. [rows[req[r].arg] EXCEPT !.status = "rejected"] \in ShortcodeRecords
    BY <2>1, Tables DEF ShortcodeRecords
  <2> QED
    BY <1>0, <1>4, <2>1, <2>2 DEF RejectShortcode
<1>5. ASSUME NEW u \in Users, NEW i \in DOMAIN rows, updateShortcode(r, u, i)
      PROVE  RowsOK' /\ DOMAIN rows \subseteq DOMAIN rows'
  <2>1. [rows[i] EXCEPT !.auto = ~@] \in ShortcodeRecords
    BY Tables DEF ShortcodeRecords
  <2> QED
    BY <1>0, <1>5, <2>1 DEF updateShortcode
<1>6. ASSUME NEW u \in Users, NEW i \in DOMAIN rows, SubmitAuthorization(r, u, i)
      PROVE  RowsOK' /\ DOMAIN rows \subseteq DOMAIN rows'
  <2>1. SetShortcodeAuthorizationLetter(rows[i]) \in ShortcodeRecords
    BY Tables DEF ShortcodeRecords, SetShortcodeAuthorizationLetter
  <2> QED
    BY <1>0, <1>6, <2>1 DEF SubmitAuthorization
<1> QED
  BY <1>1, <1>2, <1>3, <1>4, <1>5, <1>6

\* Memberships that are made and ended are memberships of known people.
LEMMA MembershipOK ==
  ASSUME TeamOK, NEW o \in Orgs
  PROVE  /\ \A u \in Users, role \in Roles, first \in BOOLEAN :
               CreateMembership(o, u, role, first) =>
                  /\ member' \in [Orgs -> [Users -> Roles \cup {"none"}]]
                  /\ default' \subseteq Orgs \X Users
         /\ \A gone : DeleteMembership(o, gone) =>
                  /\ member' \in [Orgs -> [Users -> Roles \cup {"none"}]]
                  /\ default' \subseteq Orgs \X Users
<1> DEFINE OK == /\ member' \in [Orgs -> [Users -> Roles \cup {"none"}]]
                 /\ default' \subseteq Orgs \X Users
<1>1. ASSUME NEW u \in Users, NEW role \in Roles, NEW first \in BOOLEAN,
             CreateMembership(o, u, role, first)
      PROVE  OK
  <2>1. member' \in [Orgs -> [Users -> Roles \cup {"none"}]]
    BY <1>1 DEF TeamOK, CreateMembership
  <2>2. default' = default \/ default' = default \cup {<<o, u>>}
    BY <1>1 DEF CreateMembership
  <2> QED
    BY <2>1, <2>2 DEF TeamOK
<1>2. ASSUME NEW gone, DeleteMembership(o, gone) PROVE OK
  <2>1. [v \in Users |-> IF v \in gone THEN "none" ELSE member[o][v]] \in [Users -> Roles \cup {"none"}]
    BY DEF TeamOK
  <2>2. member' = [member EXCEPT ![o] = [v \in Users |-> IF v \in gone THEN "none" ELSE member[o][v]]]
    BY <1>2 DEF DeleteMembership
  <2>3. member' \in [Orgs -> [Users -> Roles \cup {"none"}]]
    BY <2>1, <2>2 DEF TeamOK
  <2>4. default' \subseteq default
    BY <1>2 DEF DeleteMembership
  <2> QED
    BY <2>3, <2>4 DEF TeamOK
<1> QED
  BY <1>1, <1>2

\* An answer changes the status of one invite, and counts.
LEMMA AnswerOK ==
  ASSUME WellFormed, NEW i \in DOMAIN invites, NEW status \in {"accepted", "rejected"},
         Answer(i, status)
  PROVE  /\ invites' \in Seq(InviteRecords) /\ DOMAIN invites' = DOMAIN invites
         /\ \A j \in DOMAIN invites : 
               /\ invites'[j].org = invites[j].org /\ invites'[j].to = invites[j].to
               /\ invites'[j].role = invites[j].role
               /\ j # i => invites'[j] = invites[j]
         /\ invites[i].status = "pending"
         /\ invites'[i].status = status /\ invites'[i].answers = invites[i].answers + 1
<1> DEFINE inv == [invites[i] EXCEPT !.status = status, !.answers = @ + 1]
<1>1. invites[i] \in InviteRecords
  BY Tables
<1>6. invites[i].answers \in Nat /\ invites[i].answers + 1 \in Nat
  BY <1>1 DEF InviteRecords
<1>7. inv = [invites[i] EXCEPT !.status = status, !.answers = invites[i].answers + 1]
  BY <1>1 DEF InviteRecords
<1>2. /\ inv \in InviteRecords /\ inv.org = invites[i].org /\ inv.to = invites[i].to
      /\ inv.role = invites[i].role /\ inv.status = status /\ inv.answers = invites[i].answers + 1
  BY <1>1, <1>6, <1>7 DEF InviteRecords
<1>3. invites' = [invites EXCEPT ![i] = inv]
  BY <1>1 DEF Answer, InviteRecords
<1> HIDE DEF inv
<1>4. invites' \in Seq(InviteRecords) /\ DOMAIN invites' = DOMAIN invites
  BY <1>2, <1>3, ReplacedInPlace DEF WellFormed, TeamOK
<1>5. \A j \in DOMAIN invites : invites'[j] = IF j = i THEN inv ELSE invites[j]
  BY <1>3, Tables, ExceptSeq, <1>2 DEF WellFormed, TeamOK
<1> QED
  BY <1>2, <1>4, <1>5 DEF Answer

\* Every table starts well-formed.
LEMMA WellFormedInit ==
  ASSUME Init
  PROVE  WellFormed
<1>1. PICK u \in Users, o \in Orgs :
        /\ founder = [x \in Orgs |-> IF x = o THEN [by |-> u, role |-> "owner"] ELSE NoOne]
        /\ member = [x \in Orgs |-> [v \in Users |-> IF x = o /\ v = u THEN "owner" ELSE "none"]]
        /\ default = {<<o, u>>}
        /\ sessions = [v \in Users |-> IF v = u THEN 1 ELSE 0]
        /\ codes = [v \in Users |-> IF v = u THEN <<"consumed">> ELSE <<>>]
  BY DEF Init
<1>2. PeopleOK
  <2>1. <<"consumed">> \in Seq({"open", "consumed", "expired"}) /\ <<>> \in Seq({"open", "consumed", "expired"})
    OBVIOUS
  <2> QED
    BY <1>1, <2>1 DEF PeopleOK
<1>3. TeamOK
  BY <1>1 DEF Init, TeamOK, NoOne, Roles
<1>4. RowsOK
  BY DEF Init, RowsOK
<1>5. Idle \in RequestRecords
  BY DEF Idle, RequestRecords
<1>6. RequestsOK
  BY <1>5 DEF Init, RequestsOK, RequestOK, Idle
<1> QED
  BY <1>2, <1>3, <1>4, <1>6 DEF WellFormed

\* What a request writes, it writes of the people, the organisation and the
\* invite that it read.
LEMMA CommitOK ==
  ASSUME WellFormed, NEW r \in Requests, Commit(r)
  PROVE  WellFormed'
<1> DEFINE q == req[r]
<1>0. RequestOK(r) /\ q \in RequestRecords
  BY DEF WellFormed, RequestsOK
<1>a. UNCHANGED <<invites, rows>> => Grows
  BY DEF Grows
<1>1. CASE ConsumeOTP(r)
  <2>1. PeopleOK'
    BY <1>1, PeopleStay DEF WellFormed
  <2>2. Ends(r) /\ UNCHANGED <<founder, member, default, invites, rows>>
    BY <1>1 DEF ConsumeOTP, team
  <2> QED
    BY <1>a, <2>1, <2>2, EndsOK DEF WellFormed, TeamOK, RowsOK
<1>2. CASE CommitOrg(r)
  <2>1. q.org \in Orgs /\ q.user \in Users /\ q.role \in {"owner", "accountant"} /\ q.first \in BOOLEAN
    BY <1>0, <1>2 DEF CommitOrg, RequestOK, RequestRecords
  <2>2. q.role \in Roles
    BY <2>1 DEF Roles, InvitedRoles
  <2>3. TeamOK'
    <3>1. CASE founder[q.org] = NoOne
      <4>1. founder' = [founder EXCEPT ![q.org] = [by |-> q.user, role |-> q.role]]
        BY <1>2, <3>1 DEF CommitOrg
      <4>2. [by |-> q.user, role |-> q.role] \in [by: Users \cup {NoUser}, role: {"none", "owner", "accountant"}]
        BY <2>1
      <4>3. founder' \in [Orgs -> [by: Users \cup {NoUser}, role: {"none", "owner", "accountant"}]]
        BY <2>1, <4>1, <4>2 DEF WellFormed, TeamOK
      <4>4. CreateMembership(q.org, q.user, q.role, q.first) /\ UNCHANGED invites
        BY <1>2, <3>1 DEF CommitOrg
      <4> QED
        BY <2>1, <2>2, <4>3, <4>4, MembershipOK DEF WellFormed, TeamOK
    <3>2. CASE founder[q.org] # NoOne
      BY <1>2, <3>2 DEF CommitOrg, WellFormed, TeamOK
    <3> QED
      BY <3>1, <3>2
  <2>4. UNCHANGED <<codes, sessions, rows, invites>> /\ Ends(r)
    BY <1>2 DEF CommitOrg, people
  <2> QED
    BY <1>a, <2>3, <2>4, EndsOK DEF WellFormed, PeopleOK, RowsOK
<1>3. CASE RemoveMember(r)
  <2>1. q.org \in Orgs
    BY <1>0, <1>3 DEF RemoveMember, RequestOK
  <2>2. DeleteMembership(q.org, {q.other}) /\ UNCHANGED <<codes, sessions, founder, rows, invites>> /\ Ends(r)
    BY <1>3 DEF RemoveMember, people
  <2>3. TeamOK'
    BY <2>1, <2>2, MembershipOK DEF WellFormed, TeamOK
  <2> QED
    BY <1>a, <2>2, <2>3, EndsOK DEF WellFormed, PeopleOK, RowsOK
<1>4. CASE CreateInvite(r)
  <2> DEFINE inv == [org |-> q.org, to |-> q.other, role |-> q.role, status |-> "pending", answers |-> 0]
  <2>1. q.org \in Orgs /\ q.other \in Users /\ q.role \in InvitedRoles
    BY <1>0, <1>4 DEF CreateInvite, RequestOK
  <2>2. inv \in InviteRecords
    BY <2>1 DEF InviteRecords
  <2>3. /\ invites' = Append(invites, inv) /\ Ends(r)
        /\ UNCHANGED <<codes, sessions, founder, member, default, rows>>
    BY <1>4 DEF CreateInvite, people
  <2> HIDE DEF inv
  <2>4. /\ invites' \in Seq(InviteRecords) /\ Len(invites') = Len(invites) + 1
        /\ \A i \in 1 .. Len(invites) : invites'[i] = invites[i]
    BY <2>2, <2>3, AppendProperties DEF WellFormed, TeamOK
  <2>5. DOMAIN invites' = 1 .. Len(invites')
    BY <2>4, LenProperties
  <2>6. Grows
    BY <2>3, <2>4, <2>5, Tables DEF Grows
  <2>7. TeamOK'
    BY <2>3, <2>4 DEF WellFormed, TeamOK
  <2> QED
    BY <2>3, <2>6, <2>7, EndsOK DEF WellFormed, PeopleOK, RowsOK
<1>5. CASE AcceptInvite(r)
  <2>1. /\ q.org \in Orgs /\ q.user \in Users /\ q.arg \in DOMAIN invites
        /\ invites[q.arg].role = q.role /\ q.first \in BOOLEAN
    BY <1>0, <1>5 DEF AcceptInvite, RequestOK, RequestRecords
  <2>2. q.role \in Roles
    BY <2>1, Tables DEF InviteRecords, Roles
  <2>3. /\ Answer(q.arg, "accepted") /\ CreateMembership(q.org, q.user, q.role, q.first) /\ Ends(r)
        /\ UNCHANGED <<codes, sessions, founder, rows>>
    BY <1>5 DEF AcceptInvite, people
  <2>4. invites' \in Seq(InviteRecords) /\ Grows
    BY <2>1, <2>3, AnswerOK DEF Grows
  <2>5. TeamOK'
    BY <2>1, <2>2, <2>3, <2>4, MembershipOK DEF WellFormed, TeamOK
  <2> QED
    BY <2>3, <2>4, <2>5, EndsOK DEF WellFormed, PeopleOK, RowsOK
<1>6. CASE RejectInvite(r)
  <2>1. q.arg \in DOMAIN invites
    BY <1>0, <1>6 DEF RejectInvite, RequestOK
  <2>3. Answer(q.arg, "rejected") /\ Ends(r) /\ UNCHANGED <<codes, sessions, founder, member, default, rows>>
    BY <1>6 DEF RejectInvite, people
  <2>4. invites' \in Seq(InviteRecords) /\ Grows
    BY <2>1, <2>3, AnswerOK DEF Grows
  <2> QED
    BY <2>3, <2>4, EndsOK DEF WellFormed, PeopleOK, RowsOK, TeamOK
<1>7. CASE AnsweredMeanwhile(r)
  <2>1. Ends(r) /\ UNCHANGED <<codes, sessions, founder, member, default, invites, rows>>
    BY <1>7 DEF AnsweredMeanwhile, people, team
  <2> QED
    BY <1>a, <2>1, EndsOK DEF WellFormed, PeopleOK, RowsOK, TeamOK
<1>8. CASE CreateShortcode(r) \/ RegisterC2BURLs(r) \/ RejectShortcode(r)
  <2>1. Ends(r) /\ UNCHANGED <<codes, sessions, founder, member, default, invites>>
    BY <1>8 DEF CreateShortcode, RegisterC2BURLs, RejectShortcode, people, team
  <2>2. RowsOK' /\ DOMAIN rows \subseteq DOMAIN rows'
    BY <1>8, RowsStay
  <2>3. Grows
    BY <2>1, <2>2 DEF Grows
  <2> QED
    BY <2>1, <2>2, <2>3, EndsOK DEF WellFormed, PeopleOK, TeamOK
<1>9. CASE VerifyShortcode(r)
  <2>1. UNCHANGED <<codes, sessions, founder, member, default, invites>>
    BY <1>9 DEF VerifyShortcode, people, team
  <2>2. RowsOK' /\ DOMAIN rows \subseteq DOMAIN rows'
    BY <1>9, RowsStay
  <2>3. Grows
    BY <2>1, <2>2 DEF Grows
  <2>4. CASE Ends(r)
    BY <2>1, <2>2, <2>3, <2>4, EndsOK DEF WellFormed, PeopleOK, TeamOK
  <2>5. CASE Becomes(r, [req[r] EXCEPT !.pc = "register"])
    <3> DEFINE rec == [req[r] EXCEPT !.pc = "register"]
    <3>1. rec \in RequestRecords /\ rec.pc = "register" /\ rec.arg = req[r].arg
      BY <1>0 DEF RequestRecords
    <3>2. req[r].arg \in DOMAIN rows
      BY <1>0, <1>9 DEF VerifyShortcode, RequestOK
    <3> HIDE DEF rec
    <3>3. req'[r] = rec
      BY <2>5 DEF Becomes, WellFormed, RequestsOK, rec
    <3>4. RequestOK(r)'
      BY <2>2, <3>1, <3>2, <3>3 DEF RequestOK
    <3>5. RequestsOK'
      BY <2>3, <2>5, <3>1, <3>4, BecomesOK DEF rec
    <3> QED
      BY <2>1, <2>2, <3>5 DEF WellFormed, PeopleOK, TeamOK
  <2> QED
    BY <1>9, <2>4, <2>5 DEF VerifyShortcode
<1> QED
  BY <1>1, <1>2, <1>3, <1>4, <1>5, <1>6, <1>7, <1>8, <1>9 DEF Commit

\* The shape of the tables, and what every request relies on, is kept.
LEMMA WellFormedStep ==
  ASSUME WellFormed, [Next]_vars
  PROVE  WellFormed'
<1> USE DEF people, team
<1>1. CASE UNCHANGED vars
  BY <1>1 DEF vars, WellFormed, PeopleOK, TeamOK, RowsOK, RequestsOK, RequestOK
<1>2. ASSUME NEW r \in Requests, NEW u \in Users, RequestOTP(u) \/ CodeExpires(u) \/ Logout(u)
      PROVE  WellFormed'
  <2>1. PeopleOK'
    BY <1>2, PeopleStay DEF WellFormed
  <2>2. UNCHANGED <<founder, member, default, invites, rows, req>>
    BY <1>2 DEF RequestOTP, CodeExpires, Logout
  <2> QED
    BY <2>1, <2>2, UnnoticedOK DEF WellFormed, TeamOK, RowsOK, Grows
<1>3. ASSUME NEW r \in Requests, NEW u \in Users, VerifyOTP(r, u) \/ Ask(r, u)
      PROVE  WellFormed'
  <2>0. UNCHANGED <<codes, sessions>>
    BY <1>3 DEF VerifyOTP, Ask, CreateOrg, removeMember, InviteMember, RevokeInvite, createShortcode,
                acceptAccountantInvite, rejectAccountantInvite, Answering, updateShortcode, SubmitAuthorization
  <2>1. CASE RequestsOK' /\ UNCHANGED <<team, rows, mishap>>
    BY <2>0, <2>1 DEF WellFormed, PeopleOK, TeamOK, RowsOK
  <2>2. ASSUME NEW o \in Orgs, NEW i, RevokeInvite(r, u, o, i) PROVE WellFormed'
    BY <2>0, <2>2, RevokesNothing, UnnoticedOK DEF WellFormed, PeopleOK, TeamOK, RowsOK, Grows
  <2>3. ASSUME NEW i \in DOMAIN rows, updateShortcode(r, u, i) \/ SubmitAuthorization(r, u, i) PROVE WellFormed'
    <3>1. RowsOK' /\ DOMAIN rows \subseteq DOMAIN rows'
      BY <2>3, RowsStay
    <3>2. UNCHANGED <<founder, member, default, invites, req>>
      BY <2>3 DEF updateShortcode, SubmitAuthorization
    <3> QED
      BY <2>0, <3>1, <3>2, UnnoticedOK DEF WellFormed, PeopleOK, TeamOK, Grows
  <2> QED
    BY <1>3, <2>1, <2>2, <2>3, AskingOK DEF Ask
<1>4. ASSUME NEW r \in Requests, Operate(r) PROVE WellFormed'
  <2>1. PICK i \in DOMAIN rows, pc \in {"verify", "reject"} : Decides(r, i, pc)
    BY <1>4 DEF Operate, adminVerifyShortcode, adminRejectShortcode
  <2> DEFINE rec == [Idle EXCEPT !.pc = pc, !.arg = i, !.status = rows[i].status]
  <2>2. i \in Nat /\ rows[i].status \in {"pending_authorization", "rejected"}
    BY <2>1, Tables DEF Decides, ShortcodeRecords
  <2>3. rec \in RequestRecords /\ rec.pc = pc /\ rec.arg = i /\ rec.status # "verified"
    BY <2>2 DEF RequestRecords, Idle
  <2>4. Becomes(r, rec) /\ UNCHANGED <<codes, sessions, founder, member, default, invites, rows>>
    BY <2>1 DEF Decides
  <2> HIDE DEF rec
  <2>5. req'[r] = rec /\ Grows
    BY <2>4 DEF Becomes, WellFormed, RequestsOK, Grows
  <2>6. RequestOK(r)'
    BY <2>1, <2>3, <2>4, <2>5 DEF RequestOK
  <2>7. RequestsOK'
    BY <2>3, <2>4, <2>5, <2>6, BecomesOK
  <2> QED
    BY <2>4, <2>7 DEF WellFormed, PeopleOK, TeamOK, RowsOK
<1> QED
  BY <1>1, <1>2, <1>3, <1>4, CommitOK DEF Next, SignIn

\* The tables are well-formed in every behaviour.
LEMMA WellFormedHolds == Spec => []WellFormed
BY WellFormedInit, WellFormedStep, PTL DEF Spec

\* The steps that leave the organisations and their people alone.
LEMMA TeamStays ==
  ASSUME WellFormed, [Next]_vars,
         ~ \E r \in Requests : \/ CommitOrg(r) \/ RemoveMember(r) \/ CreateInvite(r)
                               \/ AcceptInvite(r) \/ RejectInvite(r)
  PROVE  UNCHANGED <<founder, member, default, invites, mishap>>
<1> USE DEF team
<1>1. CASE UNCHANGED vars
  BY <1>1 DEF vars
<1>2. ASSUME NEW r \in Requests, NEW u \in Users, SignIn(r, u)
      PROVE  UNCHANGED <<founder, member, default, invites, mishap>>
  BY <1>2 DEF SignIn, RequestOTP, CodeExpires, VerifyOTP, Logout
<1>3. ASSUME NEW r \in Requests, NEW u \in Users, Ask(r, u)
      PROVE  UNCHANGED <<founder, member, default, invites, mishap>>
  <2>1. ASSUME NEW o \in Orgs, NEW i, RevokeInvite(r, u, o, i)
        PROVE  UNCHANGED <<founder, member, default, invites, mishap>>
    BY <2>1, RevokesNothing
  <2>2. ASSUME NEW i \in DOMAIN rows, updateShortcode(r, u, i) \/ SubmitAuthorization(r, u, i)
        PROVE  UNCHANGED <<founder, member, default, invites, mishap>>
    BY <2>2 DEF updateShortcode, SubmitAuthorization
  <2> QED
    BY <1>3, <2>1, <2>2, AskingOK DEF Ask
<1>4. ASSUME NEW r \in Requests, Operate(r)
      PROVE  UNCHANGED <<founder, member, default, invites, mishap>>
  BY <1>4 DEF Operate, adminVerifyShortcode, adminRejectShortcode, Decides
<1>5. ASSUME NEW r \in Requests, Commit(r)
      PROVE  UNCHANGED <<founder, member, default, invites, mishap>>
  BY <1>5 DEF Commit, ConsumeOTP, AnsweredMeanwhile, CreateShortcode, VerifyShortcode, RegisterC2BURLs,
              RejectShortcode
<1> QED
  BY <1>1, <1>2, <1>3, <1>4, <1>5 DEF Next

\* What lifts a user into a role goes on lifting him: the founder of an
\* organisation never changes, and an accepted invite stays accepted.
LEMMA LiftsKept ==
  ASSUME WellFormed, NEW u \in Users, NEW o \in Orgs, NEW role, Lifts(u, o, role),
         founder'[o] = founder[o] \/ founder[o] = NoOne,
         Grows, \A i \in DOMAIN invites : invites[i].status = "accepted" => invites'[i].status = "accepted"
  PROVE  Lifts(u, o, role)'
<1>1. CASE founder[o] = [by |-> u, role |-> role]
  <2>1. founder[o].by = u
    BY <1>1
  <2>2. founder[o] # NoOne
    BY <2>1, TenantAssumption DEF NoOne
  <2> QED
    BY <1>1, <2>2 DEF Lifts
<1>2. ASSUME NEW i \in DOMAIN invites,
             invites[i].org = o, invites[i].to = u, invites[i].role = role, invites[i].status = "accepted"
      PROVE  Lifts(u, o, role)'
  BY <1>2 DEF Lifts, Grows
<1> QED
  BY <1>1, <1>2 DEF Lifts

\* Nobody belongs to an organisation he did not create or was not invited to,
\* and an invite is answered once: an answer is written where the invite is
\* still pending, in the transaction that makes the membership.
LEMMA JoinedByInviteStep ==
  ASSUME WellFormed, WellFormed', JoinedByInvite, PendingUnanswered, [Next]_vars
  PROVE  JoinedByInvite' /\ PendingUnanswered'
<1> DEFINE Members == \A o \in Orgs, u \in Users : member[o][u] # "none" => Lifts(u, o, member[o][u])
           Answers == \A i \in DOMAIN invites : invites[i].answers =< 1
           Accepted == \A i \in DOMAIN invites : invites[i].status = "accepted" => invites'[i].status = "accepted"
<1>0. Members /\ Answers
  BY DEF JoinedByInvite
<1>a. UNCHANGED <<founder, member, invites>> => Members' /\ Answers' /\ PendingUnanswered'
  BY <1>0 DEF PendingUnanswered, Lifts
<1>b. ASSUME NEW r \in Requests, CommitOrg(r) PROVE Members' /\ Answers' /\ PendingUnanswered'
  <2>0. PICK q : q = req[r]
    OBVIOUS
  <2>1. q.org \in Orgs /\ q.user \in Users /\ q.role \in {"owner", "accountant"}
    BY <1>b, <2>0 DEF CommitOrg, WellFormed, RequestsOK, RequestOK
  <2>2. invites' = invites
    BY <1>b DEF CommitOrg
  <2>3. Answers' /\ PendingUnanswered'
    BY <1>0, <2>2 DEF PendingUnanswered
  <2>4. CASE founder[q.org] # NoOne
    BY <1>a, <1>b, <2>0, <2>2, <2>4 DEF CommitOrg
  <2>5. CASE founder[q.org] = NoOne
    <3>1. /\ founder' = [founder EXCEPT ![q.org] = [by |-> q.user, role |-> q.role]]
          /\ member' = [member EXCEPT ![q.org][q.user] = q.role]
      BY <1>b, <2>0, <2>5 DEF CommitOrg, CreateMembership
    <3>2. ASSUME NEW o \in Orgs, NEW u \in Users, member'[o][u] # "none" PROVE Lifts(u, o, member[o][u])'
      <4>1. CASE o = q.org /\ u = q.user
        <5>1. founder'[o] = [by |-> u, role |-> q.role] /\ member'[o][u] = q.role
          BY <2>1, <3>1, <4>1 DEF WellFormed, TeamOK
        <5> QED
          BY <5>1 DEF Lifts
      <4>2. CASE ~(o = q.org /\ u = q.user)
        <5>1. member'[o][u] = member[o][u]
          BY <2>1, <3>1, <4>2 DEF WellFormed, TeamOK
        <5>2. founder'[o] = founder[o] \/ founder[o] = NoOne
          BY <2>1, <2>5, <3>1 DEF WellFormed, TeamOK
        <5>3. Lifts(u, o, member[o][u]) /\ Accepted
          BY <1>0, <2>2, <3>2, <5>1
        <5>4. rows' = rows /\ Grows
          BY <1>b, <2>2 DEF CommitOrg, Grows
        <5>5. Lifts(u, o, member[o][u])
          BY <5>3
        <5>6. PICK role : role = member[o][u]
          OBVIOUS
        <5>7. Lifts(u, o, role)'
          BY <5>2, <5>3, <5>4, <5>6, LiftsKept
        <5> QED
          BY <5>1, <5>6, <5>7
      <4> QED
        BY <4>1, <4>2
    <3> QED
      BY <2>3, <3>2
  <2> QED
    BY <2>4, <2>5
<1>c. ASSUME NEW r \in Requests, RemoveMember(r) PROVE Members' /\ Answers' /\ PendingUnanswered'
  <2>1. UNCHANGED <<founder, invites>>
    BY <1>c DEF RemoveMember
  <2>2. req[r].org \in Orgs
    BY <1>c DEF RemoveMember, WellFormed, RequestsOK, RequestOK
  <2>3. \A o \in Orgs, u \in Users : member'[o][u] = member[o][u] \/ member'[o][u] = "none"
    BY <1>c, <2>2 DEF RemoveMember, DeleteMembership, WellFormed, TeamOK
  <2> QED
    BY <1>0, <2>1, <2>3 DEF PendingUnanswered, Lifts
<1>d. ASSUME NEW r \in Requests, CreateInvite(r) PROVE Members' /\ Answers' /\ PendingUnanswered'
  <2> DEFINE inv == [org |-> req[r].org, to |-> req[r].other, role |-> req[r].role,
                     status |-> "pending", answers |-> 0]
  <2>1. invites' = Append(invites, inv) /\ inv.answers = 0 /\ UNCHANGED <<founder, member, rows>>
    BY <1>d DEF CreateInvite
  <2> HIDE DEF inv
  <2>2. /\ DOMAIN invites' = 1 .. Len(invites) + 1
        /\ \A i \in DOMAIN invites : invites'[i] = invites[i]
        /\ invites'[Len(invites) + 1] = inv
    BY <2>1, Tables DEF WellFormed, TeamOK
  <2>3. \A i \in DOMAIN invites' : i \in DOMAIN invites \/ i = Len(invites) + 1
    BY <2>2, Tables
  <2>4. Answers' /\ PendingUnanswered'
    BY <1>0, <2>1, <2>2, <2>3 DEF PendingUnanswered
  <2>5. DOMAIN invites \subseteq DOMAIN invites'
    BY <2>2, Tables
  <2>6. Members'
    BY <1>0, <2>1, <2>2, <2>5 DEF Lifts
  <2> QED
    BY <2>4, <2>6
<1>e. ASSUME NEW r \in Requests, AcceptInvite(r) PROVE Members' /\ Answers' /\ PendingUnanswered'
  <2>0. PICK q : q = req[r]
    OBVIOUS
  <2>1. /\ q.org \in Orgs /\ q.user \in Users /\ q.arg \in DOMAIN invites
        /\ invites[q.arg].org = q.org /\ invites[q.arg].to = q.user /\ invites[q.arg].role = q.role
    BY <1>e, <2>0 DEF AcceptInvite, WellFormed, RequestsOK, RequestOK
  <2>2. Answer(q.arg, "accepted") /\ member' = [member EXCEPT ![q.org][q.user] = q.role] /\ UNCHANGED <<founder, rows>>
    BY <1>e, <2>0 DEF AcceptInvite, CreateMembership
  <2>3. /\ DOMAIN invites' = DOMAIN invites
        /\ \A j \in DOMAIN invites :
               /\ invites'[j].org = invites[j].org /\ invites'[j].to = invites[j].to
               /\ invites'[j].role = invites[j].role
               /\ j # q.arg => invites'[j] = invites[j]
        /\ invites[q.arg].status = "pending"
        /\ invites'[q.arg].status = "accepted" /\ invites'[q.arg].answers = invites[q.arg].answers + 1
    BY <2>1, <2>2, AnswerOK
  <2>4. Accepted /\ Grows
    BY <2>2, <2>3 DEF Grows
  <2>5. Answers' /\ PendingUnanswered'
    BY <1>0, <2>1, <2>3 DEF PendingUnanswered
  <2>6. ASSUME NEW o \in Orgs, NEW u \in Users, member'[o][u] # "none" PROVE Lifts(u, o, member[o][u])'
    <3>1. CASE o = q.org /\ u = q.user
      <4>1. member'[o][u] = q.role
        BY <2>1, <2>2, <3>1 DEF WellFormed, TeamOK
      <4> QED
        BY <2>1, <2>3, <3>1, <4>1 DEF Lifts
    <3>2. CASE ~(o = q.org /\ u = q.user)
      <4>1. member'[o][u] = member[o][u]
        BY <2>1, <2>2, <3>2 DEF WellFormed, TeamOK
      <4>2. PICK role : role = member[o][u]
        OBVIOUS
      <4>3. Lifts(u, o, role)
        BY <1>0, <2>6, <4>1, <4>2
      <4>4. Lifts(u, o, role)'
        BY <2>2, <2>4, <4>3, LiftsKept
      <4> QED
        BY <4>1, <4>2, <4>4
    <3> QED
      BY <3>1, <3>2
  <2> QED
    BY <2>5, <2>6
<1>f. ASSUME NEW r \in Requests, RejectInvite(r) PROVE Members' /\ Answers' /\ PendingUnanswered'
  <2>0. PICK i : i = req[r].arg
    OBVIOUS
  <2>1. i \in DOMAIN invites
    BY <1>f, <2>0 DEF RejectInvite, WellFormed, RequestsOK, RequestOK
  <2>2. Answer(i, "rejected") /\ UNCHANGED <<founder, member, rows>>
    BY <1>f, <2>0 DEF RejectInvite
  <2>3. /\ DOMAIN invites' = DOMAIN invites
        /\ \A j \in DOMAIN invites :
               /\ invites'[j].org = invites[j].org /\ invites'[j].to = invites[j].to
               /\ invites'[j].role = invites[j].role
               /\ j # i => invites'[j] = invites[j]
        /\ invites[i].status = "pending"
        /\ invites'[i].status = "rejected" /\ invites'[i].answers = invites[i].answers + 1
    BY <2>1, <2>2, AnswerOK
  <2>5. Answers' /\ PendingUnanswered'
    BY <1>0, <2>1, <2>3 DEF PendingUnanswered
  <2>6. Members'
    BY <1>0, <2>1, <2>2, <2>3 DEF Lifts
  <2> QED
    BY <2>5, <2>6
<1>2. CASE \E r \in Requests : \/ CommitOrg(r) \/ RemoveMember(r) \/ CreateInvite(r)
                               \/ AcceptInvite(r) \/ RejectInvite(r)
  BY <1>2, <1>b, <1>c, <1>d, <1>e, <1>f DEF JoinedByInvite
<1> QED
  BY <1>2, <1>a, TeamStays DEF JoinedByInvite

\* JoinedByInvite holds whoever invites, accepts and refuses at the same time.
THEOREM JoinedByInviteHolds == Spec => []JoinedByInvite
<1>1. ASSUME Init PROVE JoinedByInvite /\ PendingUnanswered
  <2>1. PICK u \in Users, o \in Orgs :
          /\ founder = [x \in Orgs |-> IF x = o THEN [by |-> u, role |-> "owner"] ELSE NoOne]
          /\ member = [x \in Orgs |-> [v \in Users |-> IF x = o /\ v = u THEN "owner" ELSE "none"]]
    BY <1>1 DEF Init
  <2>2. invites = <<>>
    BY <1>1 DEF Init
  <2>3. \A p \in Orgs, v \in Users : member[p][v] # "none" => Lifts(v, p, member[p][v])
    BY <2>1 DEF Lifts
  <2> QED
    BY <2>2, <2>3 DEF JoinedByInvite, PendingUnanswered
<1> QED
  BY <1>1, JoinedByInviteStep, WellFormedHolds, PTL DEF Spec

\* A membership that is the first one of its user is her default, and her
\* only one: any other she had as a default would be one of her memberships.
LEMMA DefaultMade ==
  ASSUME WellFormed, DefaultsBelong, NEW o \in Orgs, NEW u \in Users, NEW role \in Roles,
         NEW first \in BOOLEAN, CreateMembership(o, u, role, first)
  PROVE  /\ DefaultsBelong'
         /\ default' # default => default' = default \cup {<<o, u>>} /\ first
<1>1. member' = [member EXCEPT ![o][u] = role] /\ role # "none"
  BY DEF CreateMembership, Roles, InvitedRoles
<1>2. default' = default \/ (default' = default \cup {<<o, u>>} /\ first)
  BY DEF CreateMembership
<1>3. \A p \in Orgs, v \in Users : member'[p][v] = member[p][v] \/ (p = o /\ v = u /\ member'[p][v] = role)
  BY <1>1 DEF WellFormed, TeamOK
<1>4. ASSUME NEW d \in default PROVE member'[d[1]][d[2]] # "none"
  <2>1. d[1] \in Orgs /\ d[2] \in Users /\ member[d[1]][d[2]] # "none"
    BY DEF WellFormed, TeamOK, DefaultsBelong
  <2> QED
    BY <1>1, <1>3, <2>1
<1>5. member'[o][u] = role
  BY <1>1 DEF WellFormed, TeamOK
<1>6. DefaultsBelong'
  BY <1>1, <1>2, <1>4, <1>5 DEF DefaultsBelong
<1> QED
  BY <1>2, <1>6

\* The same, as one step of the invariant: joining keeps a user at one default.
LEMMA OneDefaultMade ==
  ASSUME WellFormed, DefaultsBelong, OneDefault, NEW o \in Orgs, NEW u \in Users, NEW role \in Roles,
         NEW first \in BOOLEAN, CreateMembership(o, u, role, first),
         mishap \subseteq mishap', "join" \notin mishap' => first = (MembershipsOf(u) = {})
  PROVE  OneDefault'
<1> SUFFICES ASSUME "join" \notin mishap', NEW v \in Users, NEW p \in Orgs, NEW p2 \in Orgs,
                    <<p, v>> \in default', <<p2, v>> \in default'
             PROVE  p = p2
  BY DEF OneDefault
<1>1. \A w \in Users, x, y \in Orgs : {<<x, w>>, <<y, w>>} \subseteq default => x = y
  BY DEF OneDefault
<1>2. CASE default' = default
  BY <1>1, <1>2
<1>3. CASE default' = default \cup {<<o, u>>} /\ first
  <2>1. MembershipsOf(u) = {}
    BY <1>3
  <2>2. \A x \in Orgs : <<x, u>> \notin default
    BY <2>1 DEF MembershipsOf, DefaultsBelong
  <2> QED
    BY <1>1, <1>3, <2>2
<1>4. default' = default \/ (default' = default \cup {<<o, u>>} /\ first)
  BY DEF CreateMembership
<1> QED
  BY <1>2, <1>3, <1>4

\* What a request that joins an organisation has read, and notes when it writes.
LEMMA Joining ==
  ASSUME WellFormed, NEW r \in Requests,
         AcceptInvite(r) \/ (CommitOrg(r) /\ founder[req[r].org] = NoOne)
  PROVE  LET q == req[r] IN
         /\ q.org \in Orgs /\ q.user \in Users /\ q.role \in Roles /\ q.first \in BOOLEAN
         /\ CreateMembership(q.org, q.user, q.role, q.first)
         /\ mishap \subseteq mishap'
         /\ "join" \notin mishap' => q.first = (MembershipsOf(q.user) = {})
<1> DEFINE q == req[r]
<1>1. q \in RequestRecords /\ RequestOK(r)
  BY DEF WellFormed, RequestsOK
<1>2. q.first \in BOOLEAN
  BY <1>1 DEF RequestRecords
<1>3. (MembershipsOf(q.user) = {}) \in BOOLEAN
  OBVIOUS
<1>4. CASE AcceptInvite(r)
  <2>1. /\ q.org \in Orgs /\ q.user \in Users /\ q.arg \in DOMAIN invites
        /\ invites[q.arg].role = q.role
    BY <1>1, <1>4 DEF AcceptInvite, RequestOK
  <2>2. q.role \in Roles
    BY <2>1, Tables DEF InviteRecords, Roles
  <2>3. CreateMembership(q.org, q.user, q.role, q.first) /\ mishap \subseteq mishap'
    BY <1>4 DEF AcceptInvite
  <2>4. "join" \notin mishap' => q.first = (MembershipsOf(q.user) = {})
    BY <1>4 DEF AcceptInvite
  <2> QED
    BY <1>2, <2>1, <2>2, <2>3, <2>4
<1>5. CASE CommitOrg(r) /\ founder[q.org] = NoOne
  <2>1. q.org \in Orgs /\ q.user \in Users /\ q.role \in Roles
    BY <1>1, <1>5 DEF CommitOrg, RequestOK, Roles, InvitedRoles
  <2>2. CreateMembership(q.org, q.user, q.role, q.first) /\ Noted("join", q.first # (MembershipsOf(q.user) = {}))
    BY <1>5 DEF CommitOrg
  <2>3. mishap \subseteq mishap' /\ ("join" \notin mishap' => q.first = (MembershipsOf(q.user) = {}))
    BY <2>2 DEF Noted
  <2> QED
    BY <1>2, <2>1, <2>2, <2>3
<1> QED
  BY <1>4, <1>5

\* Steps that take memberships away, or leave them, keep a user at one default.
LEMMA OneDefaultStep ==
  ASSUME WellFormed, DefaultsBelong, OneDefault, [Next]_vars
  PROVE  DefaultsBelong' /\ OneDefault'
<1>1. CASE UNCHANGED <<member, default, mishap>>
  BY <1>1 DEF DefaultsBelong, OneDefault
<1>2. ASSUME NEW r \in Requests, AcceptInvite(r) \/ (CommitOrg(r) /\ founder[req[r].org] = NoOne)
      PROVE  DefaultsBelong' /\ OneDefault'
  <2>1. PICK q : q = req[r]
    OBVIOUS
  <2>2. /\ q.org \in Orgs /\ q.user \in Users /\ q.role \in Roles /\ q.first \in BOOLEAN
        /\ CreateMembership(q.org, q.user, q.role, q.first)
        /\ mishap \subseteq mishap'
        /\ "join" \notin mishap' => q.first = (MembershipsOf(q.user) = {})
    BY <1>2, <2>1, Joining
  <2> QED
    BY <2>2, DefaultMade, OneDefaultMade
<1>3. ASSUME NEW r \in Requests, RemoveMember(r) PROVE DefaultsBelong' /\ OneDefault'
  <2>1. PICK q : q = req[r]
    OBVIOUS
  <2>2. q.org \in Orgs
    BY <1>3, <2>1 DEF RemoveMember, WellFormed, RequestsOK, RequestOK
  <2>3. /\ member' = [member EXCEPT ![q.org] = [v \in Users |-> IF v \in {q.other} THEN "none" ELSE member[q.org][v]]]
        /\ default' = {d \in default : d[1] = q.org => d[2] \notin {q.other}}
        /\ mishap \subseteq mishap'
    BY <1>3, <2>1 DEF RemoveMember, DeleteMembership, Noted
  <2>4. ASSUME NEW d \in default' PROVE member'[d[1]][d[2]] # "none"
    <3>1. d \in default /\ d[1] \in Orgs /\ d[2] \in Users /\ member[d[1]][d[2]] # "none"
      BY <2>3 DEF WellFormed, TeamOK, DefaultsBelong
    <3>2. ~(d[1] = q.org /\ d[2] = q.other)
      BY <2>3
    <3> QED
      BY <2>2, <2>3, <3>1, <3>2 DEF WellFormed, TeamOK
  <2>5. default' \subseteq default
    BY <2>3
  <2> QED
    BY <2>3, <2>4, <2>5 DEF DefaultsBelong, OneDefault
<1>4. ASSUME NEW r \in Requests, \/ CreateInvite(r) \/ RejectInvite(r)
                                 \/ CommitOrg(r) /\ founder[req[r].org] # NoOne
      PROVE  UNCHANGED <<member, default, mishap>>
  BY <1>4 DEF CreateInvite, RejectInvite, CommitOrg
<1> QED
  BY <1>1, <1>2, <1>3, <1>4, TeamStays

\* OneDefault holds of any number of requests that cross.
THEOREM OneDefaultHolds == Spec => []OneDefault
<1>1. ASSUME Init PROVE DefaultsBelong /\ OneDefault
  <2>1. PICK u \in Users, o \in Orgs :
          /\ member = [x \in Orgs |-> [v \in Users |-> IF x = o /\ v = u THEN "owner" ELSE "none"]]
          /\ default = {<<o, u>>}
    BY <1>1 DEF Init
  <2> QED
    BY <2>1 DEF DefaultsBelong, OneDefault
<1> QED
  BY <1>1, OneDefaultStep, WellFormedHolds, PTL DEF Spec

\* A manager who acts is not the one who goes, and no other step takes a
\* manager from a business, but the mishaps that are noted.
LEMMA ManagedStep ==
  ASSUME WellFormed, Managed, [Next]_vars
  PROVE  Managed'
<1>1. CASE UNCHANGED <<member, founder, mishap>>
  BY <1>1 DEF Managed
<1> SUFFICES ASSUME ~ UNCHANGED <<member, founder, mishap>>, mishap' \cap {"remove", "demote"} = {},
                    NEW o \in Orgs, founder'[o].role = "owner"
             PROVE  \E u \in Users : member'[o][u] \in Managers
  BY <1>1 DEF Managed
<1>2. ASSUME NEW r \in Requests, CommitOrg(r) PROVE \E u \in Users : member'[o][u] \in Managers
  <2>1. PICK q : q = req[r]
    OBVIOUS
  <2>2. founder[q.org] = NoOne
    BY <1>2, <2>1 DEF CommitOrg
  <2>3. q.org \in Orgs /\ q.user \in Users
    BY <1>2, <2>1 DEF CommitOrg, WellFormed, RequestsOK, RequestOK
  <2>4. /\ founder' = [founder EXCEPT ![q.org] = [by |-> q.user, role |-> q.role]]
        /\ member' = [member EXCEPT ![q.org][q.user] = q.role]
        /\ mishap \subseteq mishap'
    BY <1>2, <2>1, <2>2 DEF CommitOrg, CreateMembership, Noted
  <2>5. CASE o = q.org
    <3>1. founder'[o] = [by |-> q.user, role |-> q.role] /\ member'[o][q.user] = q.role
      BY <2>3, <2>4, <2>5 DEF WellFormed, TeamOK
    <3>2. q.role = "owner"
      BY <3>1
    <3> QED
      BY <2>3, <3>1, <3>2 DEF Managers
  <2>6. CASE o # q.org
    <3>1. founder'[o] = founder[o] /\ member'[o] = member[o]
      BY <2>3, <2>4, <2>6 DEF WellFormed, TeamOK
    <3>2. mishap \cap {"remove", "demote"} = {}
      BY <2>4
    <3> QED
      BY <3>1, <3>2 DEF Managed
  <2> QED
    BY <2>5, <2>6
<1>3. ASSUME NEW r \in Requests, RemoveMember(r) PROVE \E u \in Users : member'[o][u] \in Managers
  <2>1. PICK q : q = req[r]
    OBVIOUS
  <2>2. q.org \in Orgs /\ q.user \in Users /\ q.other # q.user
    BY <1>3, <2>1 DEF RemoveMember, WellFormed, RequestsOK, RequestOK
  <2>3. /\ member' = [member EXCEPT ![q.org] = [v \in Users |-> IF v \in {q.other} THEN "none" ELSE member[q.org][v]]]
        /\ Noted("remove", member[q.org][q.user] \notin Managers) /\ founder' = founder
    BY <1>3, <2>1 DEF RemoveMember, DeleteMembership
  <2>4. member[q.org][q.user] \in Managers /\ mishap' = mishap
    BY <2>3 DEF Noted
  <2>5. CASE o = q.org
    <3>1. member'[o][q.user] = member[q.org][q.user]
      BY <2>2, <2>3, <2>5 DEF WellFormed, TeamOK
    <3> QED
      BY <2>2, <2>4, <3>1
  <2>6. CASE o # q.org
    <3>1. member'[o] = member[o]
      BY <2>2, <2>3, <2>6 DEF WellFormed, TeamOK
    <3> QED
      BY <2>3, <2>4, <3>1 DEF Managed
  <2> QED
    BY <2>5, <2>6
<1>4. ASSUME NEW r \in Requests, AcceptInvite(r) PROVE \E u \in Users : member'[o][u] \in Managers
  <2>1. PICK q : q = req[r]
    OBVIOUS
  <2>2. q.org \in Orgs /\ q.user \in Users
    BY <1>4, <2>1 DEF AcceptInvite, WellFormed, RequestsOK, RequestOK
  <2>3. /\ member' = [member EXCEPT ![q.org][q.user] = q.role] /\ founder' = founder
        /\ mishap \subseteq mishap'
        /\ member[q.org][q.user] \in Managers /\ q.role \notin Managers => "demote" \in mishap'
    BY <1>4, <2>1 DEF AcceptInvite, CreateMembership
  <2>4. PICK u \in Users : member[o][u] \in Managers
    BY <2>3 DEF Managed
  <2>5. CASE o = q.org /\ u = q.user
    <3>1. member'[o][u] = q.role
      BY <2>2, <2>3, <2>5 DEF WellFormed, TeamOK
    <3>2. q.role \in Managers
      BY <2>3, <2>4, <2>5
    <3> QED
      BY <3>1, <3>2
  <2>6. CASE ~(o = q.org /\ u = q.user)
    <3>1. member'[o][u] = member[o][u]
      BY <2>2, <2>3, <2>6 DEF WellFormed, TeamOK
    <3> QED
      BY <2>4, <3>1
  <2> QED
    BY <2>5, <2>6
<1>5. ASSUME NEW r \in Requests, CreateInvite(r) \/ RejectInvite(r) PROVE UNCHANGED <<member, founder, mishap>>
  BY <1>5 DEF CreateInvite, RejectInvite
<1> QED
  BY <1>2, <1>3, <1>4, <1>5, TeamStays

\* Managed holds however removals and acceptances cross, but for the two noted.
THEOREM ManagedHolds == Spec => []Managed
<1>1. ASSUME Init PROVE Managed
  <2>1. PICK u \in Users, o \in Orgs :
          /\ founder = [x \in Orgs |-> IF x = o THEN [by |-> u, role |-> "owner"] ELSE NoOne]
          /\ member = [x \in Orgs |-> [v \in Users |-> IF x = o /\ v = u THEN "owner" ELSE "none"]]
    BY <1>1 DEF Init
  <2>2. \A p \in Orgs : founder[p].role = "owner" => p = o
    BY <2>1 DEF NoOne
  <2>3. member[o][u] \in Managers
    BY <2>1 DEF Managers
  <2> QED
    BY <2>2, <2>3 DEF Managed
<1> QED
  BY <1>1, ManagedStep, WellFormedHolds, PTL DEF Spec

\* How one step changes the table of numbers: a claim keeps its number, is
\* verified only where no other claim of the number is, and once verified
\* stays so but for a rejection decided before.
RowsMove ==
    /\ DOMAIN rows \subseteq DOMAIN rows'
    /\ \A i \in DOMAIN rows :
          /\ rows'[i].number = rows[i].number
          /\ rows[i].status = "verified" => rows'[i].status = "verified" \/ LateReject(i)
    /\ \A i \in DOMAIN rows' : rows'[i].status = "verified" =>
          /\ i \in DOMAIN rows
          /\ rows[i].status = "verified" \/ Verified(rows[i].number) \subseteq {i}
    /\ \A i, j \in DOMAIN rows :
          {rows'[i].status, rows'[j].status} = {"verified"} /\ "verified" \notin {rows[i].status, rows[j].status}
             => i = j

\* A claim that is replaced in place.
LEMMA RowReplaced ==
  ASSUME WellFormed, NEW i \in DOMAIN rows, NEW row \in ShortcodeRecords,
         rows' = [rows EXCEPT ![i] = row], row.number = rows[i].number,
         row.status = "verified" => rows[i].status = "verified" \/ Verified(rows[i].number) \subseteq {i},
         rows[i].status = "verified" => row.status = "verified" \/ LateReject(i)
  PROVE  RowsMove
<1>1. DOMAIN rows' = DOMAIN rows
  BY ReplacedInPlace DEF WellFormed, RowsOK
<1>2. \A j \in DOMAIN rows : rows'[j] = IF j = i THEN row ELSE rows[j]
  BY Tables, ExceptSeq DEF WellFormed, RowsOK
<1> QED
  BY <1>1, <1>2 DEF RowsMove

\* Every step moves the table of numbers in this way.
LEMMA RowsMoveStep ==
  ASSUME WellFormed, [Next]_vars
  PROVE  RowsMove
<1>0. CASE UNCHANGED rows
  BY <1>0 DEF RowsMove
<1>1. ASSUME NEW r \in Requests, CreateShortcode(r) PROVE RowsMove
  <2> DEFINE row == [org |-> req[r].org, number |-> req[r].number,
                     status |-> "pending_authorization", letter |-> FALSE,
                     auto |-> TRUE, registered |-> FALSE]
  <2>1. rows' = Append(rows, row) /\ row.status = "pending_authorization"
    BY <1>1 DEF CreateShortcode
  <2> HIDE DEF row
  <2>2. /\ DOMAIN rows' = 1 .. Len(rows) + 1
        /\ \A i \in DOMAIN rows : rows'[i] = rows[i]
        /\ rows'[Len(rows) + 1] = row
    BY <2>1, Tables DEF WellFormed, RowsOK
  <2>3. /\ DOMAIN rows \subseteq DOMAIN rows'
        /\ \A i \in DOMAIN rows' : i \in DOMAIN rows \/ i = Len(rows) + 1
    BY <2>2, Tables
  <2> QED
    BY <2>1, <2>2, <2>3 DEF RowsMove
<1>2. ASSUME NEW r \in Requests, VerifyShortcode(r), rows' # rows PROVE RowsMove
  <2>1. PICK i \in DOMAIN rows : i = req[r].arg
    BY <1>2 DEF VerifyShortcode, WellFormed, RequestsOK, RequestOK
  <2> DEFINE row == [rows[i] EXCEPT !.status = "verified"]
  <2>2. row \in ShortcodeRecords /\ row.number = rows[i].number /\ row.status = "verified"
    BY Tables DEF ShortcodeRecords
  <2>3. rows' = [rows EXCEPT ![i] = row] /\ Verified(rows[i].number) \subseteq {i}
    BY <1>2, <2>1 DEF VerifyShortcode
  <2> HIDE DEF row
  <2> QED
    BY <2>2, <2>3, RowReplaced
<1>3. ASSUME NEW r \in Requests, RegisterC2BURLs(r), rows' # rows PROVE RowsMove
  <2>1. PICK i \in DOMAIN rows : i = req[r].arg
    BY <1>3 DEF RegisterC2BURLs, WellFormed, RequestsOK, RequestOK
  <2> DEFINE row == [rows[i] EXCEPT !.registered = TRUE]
  <2>2. row \in ShortcodeRecords /\ row.number = rows[i].number /\ row.status = rows[i].status
    BY Tables DEF ShortcodeRecords
  <2>3. rows' = [rows EXCEPT ![i] = row]
    BY <1>3, <2>1 DEF RegisterC2BURLs
  <2> HIDE DEF row
  <2> QED
    BY <2>2, <2>3, RowReplaced
<1>4. ASSUME NEW r \in Requests, RejectShortcode(r) PROVE RowsMove
  <2>1. PICK i \in DOMAIN rows : i = req[r].arg
    BY <1>4 DEF RejectShortcode, WellFormed, RequestsOK, RequestOK
  <2> DEFINE row == [rows[i] EXCEPT !.status = "rejected"]
  <2>2. row \in ShortcodeRecords /\ row.number = rows[i].number /\ row.status = "rejected"
    BY Tables DEF ShortcodeRecords
  <2>3. rows' = [rows EXCEPT ![i] = row] /\ Ends(r) /\ req[r].pc = "reject"
    BY <1>4, <2>1 DEF RejectShortcode
  <2>4. req[r].status # "verified" /\ req'[r] = Idle
    BY <2>3 DEF Ends, Becomes, WellFormed, RequestsOK, RequestOK
  <2>5. LateReject(i)
    BY <2>1, <2>3, <2>4 DEF LateReject
  <2> HIDE DEF row
  <2> QED
    BY <2>2, <2>3, <2>5, RowReplaced
<1>5. ASSUME NEW r \in Requests, NEW u \in Users, NEW i \in DOMAIN rows, updateShortcode(r, u, i) PROVE RowsMove
  <2> DEFINE row == [rows[i] EXCEPT !.auto = ~@]
  <2>2. row \in ShortcodeRecords /\ row.number = rows[i].number /\ row.status = rows[i].status
    BY Tables DEF ShortcodeRecords
  <2>3. rows' = [rows EXCEPT ![i] = row]
    BY <1>5 DEF updateShortcode
  <2> HIDE DEF row
  <2> QED
    BY <2>2, <2>3, RowReplaced
<1>6. ASSUME NEW r \in Requests, NEW u \in Users, NEW i \in DOMAIN rows, SubmitAuthorization(r, u, i) PROVE RowsMove
  <2> DEFINE row == SetShortcodeAuthorizationLetter(rows[i])
  <2>2. row \in ShortcodeRecords /\ row.number = rows[i].number /\ (row.status = "verified" <=> rows[i].status = "verified")
    BY Tables DEF ShortcodeRecords, SetShortcodeAuthorizationLetter
  <2>3. rows' = [rows EXCEPT ![i] = row]
    BY <1>6 DEF SubmitAuthorization
  <2> HIDE DEF row
  <2> QED
    BY <2>2, <2>3, RowReplaced
<1>7. ASSUME NEW r \in Requests, NEW u \in Users, Ask(r, u) PROVE RowsMove
  <2>1. ASSUME NEW o \in Orgs, NEW i, RevokeInvite(r, u, o, i) PROVE rows' = rows
    BY <2>1, RevokesNothing
  <2> QED
    BY <1>0, <1>5, <1>6, <1>7, <2>1, AskingOK DEF Ask
<1>8. ASSUME NEW r \in Requests, Commit(r) PROVE RowsMove
  <2>1. CASE ConsumeOTP(r) \/ CommitOrg(r) \/ RemoveMember(r) \/ CreateInvite(r)
             \/ AcceptInvite(r) \/ RejectInvite(r) \/ AnsweredMeanwhile(r)
    BY <1>0, <2>1 DEF ConsumeOTP, CommitOrg, RemoveMember, CreateInvite, AcceptInvite, RejectInvite, AnsweredMeanwhile
  <2> QED
    BY <1>0, <1>1, <1>2, <1>3, <1>4, <1>8, <2>1 DEF Commit
<1>9. ASSUME NEW r \in Requests, NEW u \in Users, SignIn(r, u) PROVE RowsMove
  BY <1>0, <1>9 DEF SignIn, RequestOTP, CodeExpires, VerifyOTP, Logout
<1>10. ASSUME NEW r \in Requests, Operate(r) PROVE RowsMove
  BY <1>0, <1>10 DEF Operate, adminVerifyShortcode, adminRejectShortcode, Decides
<1>11. CASE UNCHANGED vars
  BY <1>0, <1>11 DEF vars
<1> QED
  BY <1>7, <1>8, <1>9, <1>10, <1>11 DEF Next

\* One claim of a number at most is verified, before and after a step.
LEMMA OneVerifiedStep ==
  ASSUME OneVerified, RowsMove
  PROVE  OneVerified'
<1> SUFFICES ASSUME NEW n \in Numbers, NEW i \in Verified(n)', NEW j \in Verified(n)'
             PROVE  i = j
  BY DEF OneVerified
<1>1. /\ i \in DOMAIN rows /\ j \in DOMAIN rows
      /\ rows[i].number = n /\ rows[j].number = n
      /\ rows'[i].status = "verified" /\ rows'[j].status = "verified"
      /\ rows[i].status = "verified" \/ Verified(n) \subseteq {i}
      /\ rows[j].status = "verified" \/ Verified(n) \subseteq {j}
  BY DEF RowsMove, Verified
<1>2. CASE rows[i].status = "verified" /\ rows[j].status = "verified"
  BY <1>1, <1>2 DEF OneVerified, Verified
<1>3. CASE rows[i].status = "verified" /\ rows[j].status # "verified"
  BY <1>1, <1>3 DEF Verified
<1>4. CASE rows[i].status # "verified" /\ rows[j].status = "verified"
  BY <1>1, <1>4 DEF Verified
<1>5. CASE rows[i].status # "verified" /\ rows[j].status # "verified"
  BY <1>1, <1>5 DEF RowsMove
<1> QED
  BY <1>2, <1>3, <1>4, <1>5

\* RoutingStays holds of every step: money that reaches a business goes on
\* reaching it, and no other, but for a rejection that was under way.
THEOREM RoutingStaysHolds == Spec => RoutingStays
<1>1. ASSUME Init PROVE OneVerified
  BY <1>1 DEF Init, OneVerified, Verified
<1>2. ASSUME WellFormed, OneVerified, [Next]_vars PROVE OneVerified'
  BY <1>2, RowsMoveStep, OneVerifiedStep
<1>3. ASSUME WellFormed, OneVerified, OneVerified', [Next]_vars
      PROVE  [\A n \in Numbers :
                 /\ Cardinality(Verified(n)') =< 1
                 /\ \A i \in Verified(n) : i \in Verified(n)' \/ LateReject(i)]_vars
  <2> SUFFICES ASSUME NEW n \in Numbers
               PROVE  /\ Cardinality(Verified(n)') =< 1
                      /\ \A i \in Verified(n) : i \in Verified(n)' \/ LateReject(i)
    OBVIOUS
  <2>1. Cardinality(Verified(n)') =< 1
    <3>0. PICK S : S = Verified(n)'
      OBVIOUS
    <3>1. CASE S = {}
      BY <3>0, <3>1, FS_EmptySet
    <3>2. CASE S # {}
      <4>1. PICK i : i \in S
        BY <3>2
      <4>2. S = {i}
        BY <1>3, <3>0, <4>1 DEF OneVerified
      <4>3. Cardinality(S) = 1
        BY <4>2, FS_Singleton
      <4> QED
        BY <3>0, <4>3
    <3> QED
      BY <3>1, <3>2
  <2>2. ASSUME NEW i \in Verified(n) PROVE i \in Verified(n)' \/ LateReject(i)
    <3>1. RowsMove
      BY <1>3, RowsMoveStep
    <3> QED
      BY <3>1 DEF RowsMove, Verified
  <2> QED
    BY <2>1, <2>2
<1>4. Spec => []OneVerified
  BY <1>1, <1>2, WellFormedHolds, PTL DEF Spec
<1> QED
  BY <1>3, <1>4, WellFormedHolds, PTL DEF Spec, RoutingStays
=============================================================================
