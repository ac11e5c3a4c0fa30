------------------------------ MODULE Identity ------------------------------
(***************************************************************************)
(* The members of one workspace and their sessions: modules/identity of the *)
(* Control plane.  (A user belongs to one workspace, so that workspaces do  *)
(* not meet.)                                                               *)
(*                                                                         *)
(* A request is authenticated first and acts later: its principal carries   *)
(* the role its user had then.  Changing members locks the workspace and    *)
(* looks again; a login reads the user and stores the session apart.        *)
(***************************************************************************)
EXTENDS Naturals, FiniteSets

CONSTANTS
  Users, Founder,      \* Founder registers the workspace
  Tokens,              \* bound: sessions that are ever created
  Requests,            \* bound: requests in flight
  NoUser

VARIABLES
  user,       \* users: [role, disabled], role "none" without a row
  session,    \* identity_sessions: the user of each token
  spent,      \* the tokens that have been given out
  request     \* what each request in flight has read

vars == <<user, session, spent, request>>

Roles == {"owner", "editor", "viewer"}
Enabled(u) == user[u].role # "none" /\ ~user[u].disabled
Owners == {u \in Users : user[u].role = "owner" /\ ~user[u].disabled}
Idle == [op |-> "none"]

TypeOK ==
  /\ user \in [Users -> [role : {"none"} \cup Roles, disabled : BOOLEAN]]
  /\ session \in [Tokens -> Users \cup {NoUser}]
  /\ spent \subseteq Tokens
  /\ \A r \in Requests : request[r].op \in {"none", "login", "create", "change"}

Init ==
  /\ user = [u \in Users |-> [role |-> "none", disabled |-> FALSE]]
  /\ session = [t \in Tokens |-> NoUser]
  /\ spent = {}
  /\ request = [r \in Requests |-> Idle]

\* saveSession: a token that nobody has seen before.
Opens(u) ==
  \E t \in Tokens \ spent : session' = [session EXCEPT ![t] = u] /\ spent' = spent \cup {t}
Sends(r, what) == request[r] = Idle /\ request' = [request EXCEPT ![r] = what]
Leaves(r) == request' = [request EXCEPT ![r] = Idle]

-----------------------------------------------------------------------------
\* The workspace, its owner and the owner's session in one transaction.
Register ==
  /\ user[Founder].role = "none"
  /\ user' = [user EXCEPT ![Founder].role = "owner"]
  /\ Opens(Founder)
  /\ UNCHANGED request

FindLogin(r, u) ==
  /\ Enabled(u)
  /\ Sends(r, [op |-> "login", by |-> u])
  /\ UNCHANGED <<user, session, spent>>
CreateSession(r) ==
  /\ request[r].op = "login"
  /\ Opens(request[r].by)
  /\ Leaves(r)
  /\ UNCHANGED user

\* Session: the user a token stands for now, joined with the user's row.
Authenticated(t, u) == session[t] = u /\ u # NoUser /\ ~user[u].disabled
Expires(t) ==
  /\ session[t] # NoUser
  /\ session' = [session EXCEPT ![t] = NoUser]
  /\ UNCHANGED <<user, spent, request>>
Logout(t) == \E u \in Users : Authenticated(t, u) /\ Expires(t)

\* The service's own checks, by the role the principal had when the request
\* was authenticated.
AskMember(r, t) ==
  /\ \E u \in Owners : Authenticated(t, u) /\
       \/ \E m \in Users \ {Founder}, role \in Roles :
            Sends(r, [op |-> "create", by |-> u, member |-> m, role |-> role])
       \/ \E m \in Users, role \in Roles \cup {"remove"} :
            /\ role = "remove" => m # u
            /\ Sends(r, [op |-> "change", by |-> u, member |-> m, role |-> role])
  /\ UNCHANGED <<user, session, spent>>

OwnerThen(u) == TRUE                  \* mutant: the principal's role is trusted
\* lockIdentityOwner: with the workspace locked, the role is read again.
OwnerNow(u) == u \in Owners

CreateMember(r) ==
  /\ request[r].op = "create"
  /\ LET q == request[r]
     IN user' = IF OwnerNow(q.by) /\ user[q.member].role = "none"
                THEN [user EXCEPT ![q.member].role = q.role] ELSE user
  /\ Leaves(r)
  /\ UNCHANGED <<session, spent>>

\* The last owner neither leaves nor steps down.
RetainsOwner(m, role) == user[m].role = "owner" /\ role # "owner" => Cardinality(Owners) > 1
Changed(m, role) ==
  IF role = "remove" THEN [user EXCEPT ![m].disabled = TRUE] ELSE [user EXCEPT ![m].role = role]
ChangeMember(r) ==
  /\ request[r].op = "change"
  /\ LET q == request[r]
     IN IF OwnerNow(q.by) /\ Enabled(q.member) /\ RetainsOwner(q.member, q.role)
        THEN /\ user' = Changed(q.member, q.role)
             /\ session' = [t \in Tokens |-> IF session[t] = q.member THEN NoUser ELSE session[t]]
        ELSE UNCHANGED <<user, session>>
  /\ Leaves(r)
  /\ UNCHANGED spent

Next ==
  \/ Register
  \/ \E r \in Requests : \/ \E u \in Users : FindLogin(r, u)
                         \/ \E t \in Tokens : AskMember(r, t)
                         \/ CreateSession(r) \/ CreateMember(r) \/ ChangeMember(r)
  \/ \E t \in Tokens : Expires(t) \/ Logout(t)

Spec == Init /\ [][Next]_vars

-----------------------------------------------------------------------------
(* What must hold.                                                         *)

\* Who changes the members is an owner when the change is made, not only when
\* the request came in, and the workspace is left with one: two owners who
\* demote or remove each other at the same time do not both succeed.
OwnersRule ==
  [][user' # user /\ Owners # {} =>
       /\ Owners' # {}
       /\ \E r \in Requests : request'[r] # request[r] /\ request[r].by \in Owners]_vars
=============================================================================
