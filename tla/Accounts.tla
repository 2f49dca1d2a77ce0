------------------------------ MODULE Accounts ------------------------------
(***************************************************************************)
(* Users and sessions: src/internal/auth and the handlers that call it.    *)
(*                                                                         *)
(* The state is two tables without a foreign key.  Every operation is a    *)
(* few SQL statements, one step each, in a goroutine of its own; between   *)
(* them are bcrypt, a directory or an identity provider, and other         *)
(* requests.  updateUser writes all columns of the row it read earlier.    *)
(*                                                                         *)
(* Passwords, e-mail addresses and tokens' values are left out: a password *)
(* is right or the call ends.  Time passes in ticks of a quarter of the    *)
(* session TTL or so, which no call of ResolveSession spans.               *)
(***************************************************************************)
EXTENDS Naturals

CONSTANTS
    Ids,            \* user ids: each is drawn at most once
    Names,          \* user names
    Tokens,         \* session tokens: each is drawn at most once
    Calls,          \* bound: requests in progress at one time
    TTL             \* session TTL in ticks

Roles == {"vphone-admin", "vphone-user"}

ASSUME TTLAssumption == TTL \in Nat /\ TTL > 0 /\ TTL % 2 = 0

NoRow == [name |-> "none", role |-> "none", provider |-> "none", disabled |-> FALSE]
Row == [name : Names, role : Roles, provider : {"local", "external"}, disabled : BOOLEAN]

ASSUME NamesAssumption == "none" \notin Names

(***************************************************************************)
(* A request.  resolve: its session has been read, then user, touch or     *)
(* revoke; gate: the middleware has attached the user, with the role as    *)
(* it was read.  role, password, disabled: what updateUser comes to next;  *)
(* write: the second half of SetRole, SetPassword or SetDisabled, then on  *)
(* to `after`.  insert, purge: the second halves of CreateLocalUser and    *)
(* DeleteUser.  extwrite, extinsert, session: a login by an external       *)
(* identity; a local login has session only.                               *)
(***************************************************************************)
CallPc == {"idle", "user", "revoke", "touch", "gate", "role", "password", "disabled",
           "write", "insert", "purge", "extwrite", "extinsert", "session"}
NoId == "noid"
NoToken == "notoken"
ASSUME DrawnAssumption == NoId \notin Ids /\ NoToken \notin Tokens

Call == [pc : CallPc, id : Ids \cup {NoId}, token : Tokens \cup {NoToken},
         copy : Row \cup {NoRow}, low : BOOLEAN, after : {"idle", "password", "disabled"}]
NoCall == [pc |-> "idle", id |-> NoId, token |-> NoToken, copy |-> NoRow, low |-> FALSE,
           after |-> "idle"]

VARIABLES
    drawn,      \* ids that have been used
    users,      \* the table: NoRow where there is none
    issued,     \* tokens that have been used
    sessions,   \* tokens in the table
    owner,      \* user_id of a session
    left,       \* ticks until expires_at; 0: expired
    unused,     \* history: ticks since the session was last accepted (where the expiry was
                \* to be moved: since it was)
    call        \* the requests, see above

tokens == <<issued, sessions, owner, left, unused>>
vars == <<drawn, users, tokens, call>>

Exists(i) == users[i] # NoRow
ByName(n) == {i \in Ids : users[i].name = n}

\* BootstrapAdmin, before the server listens.
Bootstrapped(n) == [name |-> n, role |-> "vphone-admin", provider |-> "local", disabled |-> FALSE]

Init ==
    /\ \E i \in Ids, n \in Names :
         /\ drawn = {i}
         /\ users = [k \in Ids |-> IF k = i THEN Bootstrapped(n) ELSE NoRow]
    /\ issued = {} /\ sessions = {}
    /\ owner = [t \in Tokens |-> NoId]
    /\ left = [t \in Tokens |-> 0] /\ unused = [t \in Tokens |-> 0]
    /\ call = [c \in Calls |-> NoCall]

-----------------------------------------------------------------------------
CallBecomes(c, r) == call' = [call EXCEPT ![c] = r]
CallEnds(c) == CallBecomes(c, NoCall)

\* Mutant: INSERT OR REPLACE in the place of UPDATE ... WHERE id.
UpsertUser(i, r) == users' = [users EXCEPT ![i] = r]

\* updateUser: all columns; a row that is gone is not brought back.
UpdateUser(i, r) == users' = IF Exists(i) THEN [users EXCEPT ![i] = r] ELSE users

\* insertUser: the name is UNIQUE.
InsertUser(i, r) ==
    /\ i \notin drawn /\ ByName(r.name) = {}
    /\ drawn' = drawn \cup {i}
    /\ users' = [users EXCEPT ![i] = r]

-----------------------------------------------------------------------------
(* ResolveSession, called by the middleware for the cookie of a request    *)

\* Mutant: the expiry slides in the last quarter only.
LastQuarter(t) == 4 * left[t] < TTL

\* time.Until(ExpiresAt) < SessionTTL/2, of the expiry as it was read.
Low(t) == 2 * left[t] < TTL

ReadSession(c, t) ==
    /\ call[c] = NoCall
    /\ t \in sessions
    /\ CallBecomes(c, [NoCall EXCEPT !.pc = IF left[t] = 0 THEN "revoke" ELSE "user",
                         !.token = t, !.id = owner[t], !.low = Low(t)])
    /\ UNCHANGED <<drawn, users, tokens>>

\* The user is gone: no more than an error, the session stays.
UserGone(c) ==
    /\ call[c].pc = "user" /\ ~Exists(call[c].id)
    /\ CallEnds(c)
    /\ UNCHANGED <<drawn, users, tokens>>

UserDisabled(c) ==
    /\ call[c].pc = "user" /\ users[call[c].id].disabled
    /\ CallBecomes(c, [call[c] EXCEPT !.pc = "revoke"])
    /\ UNCHANGED <<drawn, users, tokens>>

UserAccepted(c) ==
    /\ call[c].pc = "user" /\ Exists(call[c].id) /\ ~users[call[c].id].disabled
    /\ CallBecomes(c, [call[c] EXCEPT !.pc = IF call[c].low THEN "touch" ELSE "gate",
                                      !.copy = users[call[c].id]])
    /\ unused' = [unused EXCEPT ![call[c].token] = IF call[c].low THEN @ ELSE 0]
    /\ UNCHANGED <<drawn, users, issued, sessions, owner, left>>

Revoke(c) ==
    /\ call[c].pc = "revoke"
    /\ sessions' = sessions \ {call[c].token}
    /\ CallEnds(c)
    /\ UNCHANGED <<drawn, users, issued, owner, left, unused>>

\* Mutant: the TTL is added to the old expiry.
SlideOn(t) ==
    IF t \in sessions
    THEN left' = [left EXCEPT ![t] = @ + TTL] /\ unused' = [unused EXCEPT ![t] = 0]
    ELSE UNCHANGED <<left, unused>>

\* touchSession: UPDATE ... WHERE token, which may have been revoked by now.
Slide(t) ==
    IF t \in sessions
    THEN left' = [left EXCEPT ![t] = TTL] /\ unused' = [unused EXCEPT ![t] = 0]
    ELSE UNCHANGED <<left, unused>>

Touch(c) ==
    /\ call[c].pc = "touch"
    /\ Slide(call[c].token)
    /\ CallBecomes(c, [call[c] EXCEPT !.pc = "gate"])
    /\ UNCHANGED <<drawn, users, issued, sessions, owner>>

\* deleteSession or touchSession fails: nobody looks at the error, and the request is
\* refused or accepted all the same.
StatementFails(c) ==
    /\ call[c].pc \in {"revoke", "touch"}
    /\ CallBecomes(c, IF call[c].pc = "revoke" THEN NoCall ELSE [call[c] EXCEPT !.pc = "gate"])
    /\ UNCHANGED <<drawn, users, tokens>>

Resolve(c) ==
    \/ UserGone(c) \/ UserDisabled(c) \/ UserAccepted(c)
    \/ Revoke(c) \/ Touch(c) \/ StatementFails(c)

-----------------------------------------------------------------------------
(* Behind the gates RequireAuth and RequireRole                            *)

\* The request does something that is not modelled here, or is refused.
Leave(c) ==
    /\ call[c].pc = "gate"
    /\ CallEnds(c)
    /\ UNCHANGED <<drawn, users, tokens>>

MayAdminister(c) == call[c].pc = "gate" /\ call[c].copy.role = "vphone-admin"

\* PATCH of a user: role, password and disabled in turn, each of them optional.
PatchUser(c, i) ==
    /\ MayAdminister(c)
    /\ CallBecomes(c, [NoCall EXCEPT !.pc = "role", !.id = i])
    /\ UNCHANGED <<drawn, users, tokens>>

AfterField == [role |-> "password", password |-> "disabled", disabled |-> "idle"]

\* A field that the body does not have.
SkipField(c) ==
    /\ call[c].pc \in DOMAIN AfterField
    /\ LET to == AfterField[call[c].pc] IN
       CallBecomes(c, IF to = "idle" THEN NoCall ELSE [call[c] EXCEPT !.pc = to])
    /\ UNCHANGED <<drawn, users, tokens>>

\* The row is read, and will be written back as r: with one column changed.
ReadRow(c, field, r) ==
    /\ call[c].pc = field /\ Exists(call[c].id)
    /\ CallBecomes(c, [call[c] EXCEPT !.pc = "write", !.copy = r, !.after = AfterField[field]])
    /\ UNCHANGED <<drawn, users, tokens>>

SetRole(c, r) == ReadRow(c, "role", [users[call[c].id] EXCEPT !.role = r])

SetPassword(c) ==
    /\ call[c].pc = "password" /\ users[call[c].id].provider = "local"
    /\ ReadRow(c, "password", users[call[c].id])

SetDisabled(c, d) == ReadRow(c, "disabled", [users[call[c].id] EXCEPT !.disabled = d])

\* No such user, or a password for an external one: the rest of the PATCH is not done.
PatchFails(c) ==
    /\ call[c].pc \in DOMAIN AfterField
    /\ \/ ~Exists(call[c].id)
       \/ call[c].pc = "password" /\ users[call[c].id].provider = "external"
    /\ CallEnds(c)
    /\ UNCHANGED <<drawn, users, tokens>>

WriteUser(c) ==
    /\ call[c].pc = "write"
    /\ UpdateUser(call[c].id, call[c].copy)
    /\ CallBecomes(c, IF call[c].after = "idle" THEN NoCall
                      ELSE [NoCall EXCEPT !.pc = call[c].after, !.id = call[c].id])
    /\ UNCHANGED <<drawn, tokens>>

\* CreateLocalUser: no user of that name; then bcrypt.
CreateLocalUser(c, n, r) ==
    /\ MayAdminister(c) /\ ByName(n) = {}
    /\ CallBecomes(c, [NoCall EXCEPT !.pc = "insert",
         !.copy = [name |-> n, role |-> r, provider |-> "local", disabled |-> FALSE]])
    /\ UNCHANGED <<drawn, users, tokens>>

Insert(c, i) ==
    /\ call[c].pc = "insert"
    /\ InsertUser(i, call[c].copy)
    /\ CallEnds(c)
    /\ UNCHANGED tokens

\* UNIQUE is violated: another request was faster.
InsertFails(c) ==
    /\ call[c].pc \in {"insert", "extinsert"}
    /\ ByName(call[c].copy.name) # {}
    /\ CallEnds(c)
    /\ UNCHANGED <<drawn, users, tokens>>

DeleteUser(c, i) ==
    /\ MayAdminister(c) /\ Exists(i)
    /\ users' = [users EXCEPT ![i] = NoRow]
    /\ CallBecomes(c, [NoCall EXCEPT !.pc = "purge", !.id = i])
    /\ UNCHANGED <<drawn, tokens>>

\* The sessions of the user, in a statement of its own.
Purge(c) ==
    /\ call[c].pc = "purge"
    /\ sessions' = {t \in sessions : owner[t] # call[c].id}
    /\ CallEnds(c)
    /\ UNCHANGED <<drawn, users, issued, owner, left, unused>>

Administer(c) ==
    \/ Leave(c) \/ SkipField(c) \/ PatchFails(c) \/ SetPassword(c) \/ WriteUser(c)
    \/ InsertFails(c) \/ Purge(c)
    \/ \E r \in Roles : SetRole(c, r)
    \/ \E d \in BOOLEAN : SetDisabled(c, d)
    \/ \E i \in Ids : PatchUser(c, i) \/ DeleteUser(c, i) \/ Insert(c, i)
    \/ \E n \in Names, r \in Roles : CreateLocalUser(c, n, r)

-----------------------------------------------------------------------------
(* Login and logout                                                        *)

\* A local user with the right password.
Login(c, i) ==
    /\ call[c] = NoCall
    /\ users[i].provider = "local" /\ ~users[i].disabled
    /\ CallBecomes(c, [NoCall EXCEPT !.pc = "session", !.id = i])
    /\ UNCHANGED <<drawn, users, tokens>>

\* provisionExternal, for an identity that a directory or an identity provider has
\* verified and whose groups map to the role r: the row of that name, whoever made it.
ProvisionKnown(c, i, r) ==
    /\ call[c] = NoCall /\ Exists(i)
    /\ CallBecomes(c, [NoCall EXCEPT !.pc = "extwrite", !.id = i,
         !.copy = [users[i] EXCEPT !.role = r, !.provider = "external"]])
    /\ UNCHANGED <<drawn, users, tokens>>

ProvisionNew(c, n, r) ==
    /\ call[c] = NoCall /\ ByName(n) = {}
    /\ CallBecomes(c, [NoCall EXCEPT !.pc = "extinsert",
         !.copy = [name |-> n, role |-> r, provider |-> "external", disabled |-> FALSE]])
    /\ UNCHANGED <<drawn, users, tokens>>

ExternalWrite(c) ==
    /\ call[c].pc = "extwrite"
    /\ UpdateUser(call[c].id, call[c].copy)
    /\ CallBecomes(c, IF call[c].copy.disabled THEN NoCall
                      ELSE [NoCall EXCEPT !.pc = "session", !.id = call[c].id])
    /\ UNCHANGED <<drawn, tokens>>

ExternalInsert(c, i) ==
    /\ call[c].pc = "extinsert"
    /\ InsertUser(i, call[c].copy)
    /\ CallBecomes(c, [NoCall EXCEPT !.pc = "session", !.id = i])
    /\ UNCHANGED tokens

\* startSession, whatever has become of the user.
StartSession(c, t) ==
    /\ call[c].pc = "session" /\ t \notin issued
    /\ issued' = issued \cup {t} /\ sessions' = sessions \cup {t}
    /\ owner' = [owner EXCEPT ![t] = call[c].id]
    /\ left' = [left EXCEPT ![t] = TTL] /\ unused' = [unused EXCEPT ![t] = 0]
    /\ CallEnds(c)
    /\ UNCHANGED <<drawn, users>>

\* The token stands in the cookie of any request.
Logout(t) ==
    /\ t \in sessions
    /\ sessions' = sessions \ {t}
    /\ UNCHANGED <<drawn, users, issued, owner, left, unused, call>>

SignOn(c) ==
    \/ ExternalWrite(c)
    \/ \E i \in Ids : Login(c, i) \/ ExternalInsert(c, i)
    \/ \E i \in Ids, r \in Roles : ProvisionKnown(c, i, r)
    \/ \E n \in Names, r \in Roles : ProvisionNew(c, n, r)
    \/ \E t \in Tokens : StartSession(c, t)

-----------------------------------------------------------------------------
Resolving(c) == call[c].pc \in {"user", "touch"}

Tick ==
    /\ \A c \in Calls : ~Resolving(c)
    /\ left' = [t \in Tokens |-> IF left[t] = 0 THEN 0 ELSE left[t] - 1]
    /\ unused' = [t \in Tokens |-> IF unused[t] < TTL THEN unused[t] + 1 ELSE unused[t]]
    /\ UNCHANGED <<drawn, users, issued, sessions, owner, call>>

\* The process dies and starts again; without users it makes an administrator.
Restart ==
    /\ call' = [c \in Calls |-> NoCall]
    /\ \/ /\ \E i \in Ids : Exists(i)
          /\ UNCHANGED <<drawn, users>>
       \/ /\ \A i \in Ids : ~Exists(i)
          /\ \E i \in Ids, n \in Names : InsertUser(i, Bootstrapped(n))
    /\ UNCHANGED tokens

Next ==
    \/ \E c \in Calls, t \in Tokens : ReadSession(c, t)
    \/ \E c \in Calls : Resolve(c) \/ Administer(c) \/ SignOn(c)
    \/ \E t \in Tokens : Logout(t)
    \/ Tick
    \/ Restart

Spec == Init /\ [][Next]_vars

-----------------------------------------------------------------------------
(* Properties                                                              *)

TypeOK ==
    /\ drawn \in SUBSET Ids /\ users \in [Ids -> Row \cup {NoRow}]
    /\ issued \in SUBSET Tokens /\ sessions \in SUBSET issued
    /\ owner \in [Tokens -> Ids \cup {NoId}]
    /\ left \in [Tokens -> 0 .. TTL] /\ unused \in [Tokens -> 0 .. TTL]
    /\ call \in [Calls -> Call]

\* The sliding expiry, for requests that race: a session used within the last half of
\* the TTL has not expired, unless its expiry could not be written, and one that was not
\* used for the whole TTL has.
SlidingExpiry ==
    \A t \in sessions :
        /\ 2 * unused[t] < TTL => left[t] > 0
        /\ unused[t] = TTL => left[t] = 0

\* What was deleted does not come back: no late write of a request that read the row
\* before makes a deleted user or a revoked session again.
NoneReturns ==
    [][/\ \A i \in drawn : ~Exists(i) => users'[i] = NoRow
       /\ \A t \in issued \ sessions : t \notin sessions']_vars
=============================================================================
