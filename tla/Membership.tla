------------------------------ MODULE Membership ------------------------------
(***************************************************************************)
(* api/rbac_routes.py and attach_user_to_tenant() of api/auth.py: members  *)
(* of a tenant are invited, given another role and removed by requests     *)
(* that run at the same time, each in one or two transactions that read    *)
(* first and write later (READ COMMITTED).                                 *)
(*                                                                         *)
(* A user is known by the mail address, of which the id is a function.     *)
(***************************************************************************)
EXTENDS Naturals, FiniteSets, Functions

CONSTANTS
  Email,        \* the addresses
  Roles,        \* the seeded roles
  Asked,        \* the requests that are tried: op, email and role
  MaxAsked      \* bound: how many requests are sent

\* Assumed by the module that instantiates this one.
MembershipAssumption ==
  /\ MaxAsked \in Nat
  /\ Asked \subseteq [op : {"invite", "role", "remove"}, email : Email, role : STRING]

VARIABLES
  password,     \* users: the request whose temporary password is stored
  member,       \* user_tenant_roles: the row and the role of the members
  rowsMade,     \* the rows that were ever inserted
  request,      \* the requests that were sent
  before        \* history: the member rows when a request was sent


Init ==
  /\ password = [e \in {} |-> 0]
  /\ member = [e \in {} |-> 0]
  /\ rowsMade = 0
  /\ request = [n \in {} |-> 0]
  /\ before = [n \in {} |-> 0]

\* The row and role of an address, as a set of at most one.
RowsOf(e) == {member[x] : x \in {e} \cap DOMAIN member}

With(f, x, y) == [z \in DOMAIN f \cup {x} |-> IF z = x THEN y ELSE f[z]]

\* A request is sent; one that overlaps another of the same address is marked, and
\* so is the other.
Send(a) ==
  LET n == Cardinality(DOMAIN request) + 1
      others == {m \in DOMAIN request : request[m].email = a.email /\ request[m].at # "end"}
  IN  /\ n <= MaxAsked
      /\ request' = With([m \in DOMAIN request |-> [request[m] EXCEPT !.alone = @ /\ m \notin others]], n,
                         [op |-> a.op, email |-> a.email, role |-> a.role, found |-> {}, answer |-> "none",
                          at |-> IF a.op = "invite" THEN "user" ELSE "look", alone |-> others = {}])
      /\ before' = With(before, n, RowsOf(a.email))
      /\ UNCHANGED <<password, member, rowsMade>>

At(n, at) == n \in DOMAIN request /\ request[n].at = at

Goto(n, at) == request' = [request EXCEPT ![n].at = at]

Answer(n, a) == request' = [request EXCEPT ![n].at = "end", ![n].answer = a]

-----------------------------------------------------------------------------
(* invite_member(), its first transaction *)

FindUser(n) ==
  /\ At(n, "user")
  /\ Goto(n, IF request[n].email \in DOMAIN password THEN "look" ELSE "create")
  /\ UNCHANGED <<password, member, rowsMade, before>>

\* users.email is unique: the second INSERT raises.
CreateUser(n) ==
  /\ At(n, "create")
  /\ IF request[n].email \in DOMAIN password THEN Answer(n, "error") /\ UNCHANGED password
     ELSE Goto(n, "look") /\ password' = With(password, request[n].email, n)
  /\ UNCHANGED <<member, rowsMade, before>>

-----------------------------------------------------------------------------
(* attach_user_to_tenant(), and the SELECT of remove_member() *)

Look(n) ==
  /\ At(n, "look")
  /\ IF request[n].op # "remove" /\ request[n].role \notin Roles THEN Answer(n, "error")
     ELSE IF request[n].op = "remove" /\ RowsOf(request[n].email) = {} THEN Answer(n, "404")
     ELSE request' = [request EXCEPT ![n].at = "write", ![n].found = RowsOf(request[n].email)]
  /\ UNCHANGED <<password, member, rowsMade, before>>

\* The rows that the request found and that are still there.
Kept(n) == {x.row : x \in request[n].found} \cap {x.row : x \in RowsOf(request[n].email)}

\* INSERT: the user must exist, and the pair of user and tenant is unique.
Insert(n) ==
  LET e == request[n].email
  IN  /\ At(n, "write")
      /\ request[n].op # "remove" /\ request[n].found = {}
      /\ IF e \in DOMAIN password /\ e \notin DOMAIN member
         THEN /\ member' = With(member, e, [row |-> rowsMade + 1, role |-> request[n].role])
              /\ rowsMade' = rowsMade + 1
              /\ IF request[n].op = "invite" THEN Answer(n, "ok") ELSE Goto(n, "reread")
         ELSE Answer(n, "error") /\ UNCHANGED <<member, rowsMade>>
      /\ UNCHANGED <<password, before>>

\* Mutant of Update: the role of an existing member is kept.
UpdateNothing(n) ==
  /\ At(n, "write")
  /\ request[n].op # "remove" /\ request[n].found # {}
  /\ IF request[n].op = "invite" THEN Answer(n, "ok") ELSE Goto(n, "reread")
  /\ UNCHANGED <<password, member, rowsMade, before>>

\* UPDATE: a role that does not change is not written; a row that is gone raises.
Update(n) ==
  LET e == request[n].email
      same == \A x \in request[n].found : x.role = request[n].role
  IN  /\ At(n, "write")
      /\ request[n].op # "remove" /\ request[n].found # {}
      /\ IF ~same /\ Kept(n) = {} THEN Answer(n, "error") /\ UNCHANGED member
         ELSE /\ member' = IF same THEN member ELSE [member EXCEPT ![e].role = request[n].role]
              /\ IF request[n].op = "invite" THEN Answer(n, "ok") ELSE Goto(n, "reread")
      /\ UNCHANGED <<password, rowsMade, before>>

\* DELETE, of a row that may be gone.
Delete(n) ==
  /\ At(n, "write")
  /\ request[n].op = "remove"
  /\ member' = IF Kept(n) = {} THEN member ELSE Restrict(member, DOMAIN member \ {request[n].email})
  /\ Answer(n, "ok")
  /\ UNCHANGED <<password, rowsMade, before>>

\* update_member_role() reads the membership that it returns.
Reread(n) ==
  /\ At(n, "reread")
  /\ Answer(n, IF RowsOf(request[n].email) = {} THEN "404" ELSE "ok")
  /\ UNCHANGED <<password, member, rowsMade, before>>

\* The process ends between two transactions.
Crash(n) ==
  /\ n \in DOMAIN request /\ request[n].at # "end"
  /\ Answer(n, "crash")
  /\ UNCHANGED <<password, member, rowsMade, before>>

Next ==
  \/ \E a \in Asked : Send(a)
  \/ \E n \in 1..MaxAsked :
       \/ FindUser(n) \/ CreateUser(n) \/ Look(n) \/ Insert(n) \/ Update(n) \/ Delete(n)
       \/ Reread(n) \/ Crash(n)

-----------------------------------------------------------------------------
Roled(e) == {x.role : x \in RowsOf(e)}

\* What the latest request for an address says is so when it is answered and ran
\* alone: an acknowledged role is held, a removed member is none, and a refused
\* request has changed no membership.  The password that is given out with the
\* first invitation of an address is the stored one, and not that of a later one.
LatestAnswerHolds ==
  \A n \in DOMAIN request :
    LET r == request[n]
        same == {m \in DOMAIN request : request[m].email = r.email}
    IN  r.alone =>
          /\ r.at = "end" /\ (\A m \in same : m <= n) =>
               CASE r.answer = "ok" -> Roled(r.email) = IF r.op = "remove" THEN {} ELSE {r.role}
                 [] r.answer \in {"error", "404"} -> RowsOf(r.email) = before[n]
                 [] OTHER -> TRUE
          /\ r.op = "invite" /\ r.answer = "ok" /\ (\A m \in same : request[m].answer # "crash") =>
               (password[r.email] = n <=> \A m \in same : request[m].op = "invite" => m >= n)

=============================================================================
