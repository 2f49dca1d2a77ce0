--------------------------- MODULE AccountsProofs ---------------------------
(***************************************************************************)
(* Proofs about Accounts for any number of users, names, tokens and        *)
(* requests, and any TTL.                                                  *)
(*                                                                         *)
(* The invariant says what a request knows at each of its steps (Well),    *)
(* that the two clocks of a session add up to at least half of the TTL and *)
(* at most all of it (Clocks), and that a request which has found nothing  *)
(* to slide is still right when it accepts its user (Fresh).               *)
(***************************************************************************)
EXTENDS Accounts, TLAPS

\* What a request has at each step.
Well(r) ==
    /\ r \in Call
    /\ r.pc \in {"user", "revoke", "touch"} => r.id \in Ids /\ r.token \in Tokens
    /\ r.pc \in {"role", "password", "disabled", "write", "purge", "extwrite", "session"} =>
          r.id \in Ids
    /\ r.pc \in {"touch", "gate", "write", "insert", "extwrite", "extinsert"} => r.copy \in Row

\* A request that will accept its user without touching the session.
Fresh(r) == r.pc = "user" /\ r.low = FALSE /\ r.token \in sessions => 2 * left[r.token] >= TTL

Tables ==
    /\ drawn \in SUBSET Ids /\ users \in [Ids -> Row \cup {NoRow}]
    /\ issued \in SUBSET Tokens /\ sessions \in SUBSET issued
    /\ owner \in [Tokens -> Ids \cup {NoId}]
    /\ \A t \in sessions : owner[t] \in Ids

Clocks ==
    /\ left \in [Tokens -> 0 .. TTL] /\ unused \in [Tokens -> 0 .. TTL]
    /\ \A t \in sessions : left[t] + unused[t] <= TTL /\ 2 * (left[t] + unused[t]) >= TTL

Requests ==
    /\ call \in [Calls -> Call]
    /\ \A c \in Calls : Well(call[c]) /\ Fresh(call[c])

IInv == Tables /\ Clocks /\ Requests

-----------------------------------------------------------------------------
(* Rows and requests                                                       *)

\* A missing row is told apart from every row.
LEMMA NoRowIsNone == NoRow \notin Row
  BY NamesAssumption DEF NoRow, Row

\* A row that exists has its columns.
LEMMA ExistingRow ==
    ASSUME Tables, NEW i \in Ids, Exists(i)
    PROVE  users[i] \in Row
  BY DEF Tables, Exists

\* An idle request needs nothing.
LEMMA NoCallWell == Well(NoCall)
  BY DEF Well, NoCall, Call, CallPc

\* One request moves; the others know what they knew, for a session keeps its expiry
\* or has the whole TTL before it.
LEMMA RequestStep ==
    ASSUME IInv, NEW c \in Calls, NEW r, CallBecomes(c, r), Well(r),
           r.pc = "user" /\ r.low = FALSE /\ r.token \in sessions' =>
               2 * left'[r.token] >= TTL,
           \A t \in sessions' : left'[t] = TTL \/ (t \in sessions /\ left'[t] = left[t])
    PROVE  Requests'
  <1>1. call' \in [Calls -> Call]
    BY DEF IInv, Requests, CallBecomes, Well
  <1>2. \A d \in Calls : call'[d] = IF d = c THEN r ELSE call[d]
    BY DEF IInv, Requests, CallBecomes
  <1>3. ASSUME NEW d \in Calls
        PROVE  Well(call'[d])
    BY <1>2 DEF IInv, Requests
  <1>4. ASSUME NEW d \in Calls, call'[d].pc = "user", call'[d].low = FALSE,
               call'[d].token \in sessions'
        PROVE  2 * left'[call'[d].token] >= TTL
    <2>1. CASE d = c
      BY <2>1, <1>2, <1>4
    <2>2. CASE d # c
      BY <2>2, <1>2, <1>4, TTLAssumption DEF IInv, Requests, Fresh
    <2> QED
      BY <2>1, <2>2
  <1> QED
    BY <1>1, <1>3, <1>4 DEF Requests, Well, Fresh

\* A step of a request that changes nothing else.
LEMMA RequestOnly ==
    ASSUME IInv, NEW c \in Calls, NEW r, CallBecomes(c, r), Well(r), r.pc # "user",
           UNCHANGED <<drawn, users, tokens>>
    PROVE  IInv'
  <1>1. UNCHANGED <<drawn, users, issued, sessions, owner, left, unused>>
    BY DEF tokens
  <1>2. Requests'
    BY <1>1, RequestStep DEF IInv
  <1>3. Tables' /\ Clocks'
    BY <1>1 DEF IInv, Tables, Clocks
  <1> QED
    BY <1>2, <1>3 DEF IInv

\* A request ends, and only sessions go.
LEMMA SessionsGo ==
    ASSUME IInv, sessions' \in SUBSET sessions,
           UNCHANGED <<drawn, users, issued, owner, left, unused>>
    PROVE  Tables' /\ Clocks' /\ \A t \in sessions' : t \in sessions /\ left'[t] = left[t]
  BY DEF IInv, Tables, Clocks

-----------------------------------------------------------------------------
(* ResolveSession                                                          *)

\* ResolveSession reads the session and notes whether its expiry is to be moved.
LEMMA ReadSessionStep ==
    ASSUME IInv, NEW c \in Calls, NEW t \in Tokens, ReadSession(c, t)
    PROVE  IInv'
  <1> DEFINE p == IF left[t] = 0 THEN "revoke" ELSE "user"
  <1> DEFINE r == [NoCall EXCEPT !.pc = p, !.token = t, !.id = owner[t], !.low = Low(t)]
  <1>1. /\ t \in sessions /\ CallBecomes(c, r)
        /\ UNCHANGED <<drawn, users, issued, sessions, owner, left, unused>>
    BY DEF ReadSession, tokens
  <1>2. Low(t) \in BOOLEAN /\ (Low(t) = FALSE => 2 * left[t] >= TTL)
    BY TTLAssumption DEF Low, IInv, Clocks
  <1>3. owner[t] \in Ids
    BY <1>1 DEF IInv, Tables
  <1>4. p \in {"revoke", "user"}
    OBVIOUS
  <1> HIDE DEF p
  <1>5. /\ r.pc = p /\ r.token = t /\ r.id = owner[t] /\ r.copy = NoRow
        /\ r.low = Low(t) /\ r.after = "idle"
    BY DEF NoCall
  <1>6. r \in Call
    BY <1>2, <1>3, <1>4 DEF NoCall, Call, CallPc
  <1> HIDE DEF r
  <1>7. Well(r)
    BY <1>3, <1>4, <1>5, <1>6 DEF Well
  <1>8. Requests'
    BY <1>1, <1>2, <1>5, <1>7, RequestStep
  <1>9. Tables' /\ Clocks'
    BY <1>1 DEF IInv, Tables, Clocks
  <1> QED
    BY <1>8, <1>9 DEF IInv

\* It finds the user disabled.
LEMMA UserDisabledStep ==
    ASSUME IInv, NEW c \in Calls, UserDisabled(c)
    PROVE  IInv'
  <1> DEFINE r == [call[c] EXCEPT !.pc = "revoke"]
  <1>1. Well(call[c]) /\ call[c].pc = "user"
    BY DEF IInv, Requests, UserDisabled
  <1>2. Well(r) /\ r.pc = "revoke"
    BY <1>1 DEF Well, Call, CallPc
  <1> QED
    BY <1>2, RequestOnly DEF UserDisabled

\* It accepts the user; a session that is not to be moved has half its TTL left.
LEMMA UserAcceptedStep ==
    ASSUME IInv, NEW c \in Calls, UserAccepted(c)
    PROVE  IInv'
  <1> DEFINE i == call[c].id
  <1> DEFINE t == call[c].token
  <1> DEFINE p == IF call[c].low THEN "touch" ELSE "gate"
  <1> DEFINE r == [call[c] EXCEPT !.pc = p, !.copy = users[i]]
  <1>1. /\ call[c].pc = "user" /\ Exists(i) /\ CallBecomes(c, r)
        /\ unused' = [unused EXCEPT ![t] = IF call[c].low THEN @ ELSE 0]
        /\ UNCHANGED <<drawn, users, issued, sessions, owner, left>>
    BY DEF UserAccepted
  <1>2. Well(call[c]) /\ Fresh(call[c])
    BY DEF IInv, Requests
  <1>3. i \in Ids /\ t \in Tokens /\ call[c].low \in BOOLEAN
    BY <1>1, <1>2 DEF Well, Call
  <1>4. users[i] \in Row
    BY <1>1, <1>3, ExistingRow DEF IInv
  <1>5. p \in {"touch", "gate"}
    OBVIOUS
  <1>6. Requests'
    <2> HIDE DEF p
    <2>1. Well(r) /\ r.pc = p
      BY <1>2, <1>3, <1>4, <1>5 DEF Well, Call, CallPc
    <2> HIDE DEF r
    <2> QED
      BY <1>1, <1>5, <2>1, RequestStep
  <1>7. Clocks'
    <2>1. CASE call[c].low = TRUE
      <3>1. unused' = [unused EXCEPT ![t] = @]
        BY <1>1, <2>1
      <3>2. unused' = unused
        BY <3>1 DEF IInv, Clocks
      <3> QED
        BY <1>1, <3>2 DEF IInv, Clocks
    <2>2. CASE call[c].low = FALSE
      <3>1. unused' = [unused EXCEPT ![t] = 0]
        BY <1>1, <2>2
      <3>2. t \in sessions => 2 * left[t] >= TTL
        BY <1>1, <1>2, <2>2 DEF Fresh
      <3> QED
        BY <1>1, <1>3, <3>1, <3>2, TTLAssumption DEF IInv, Clocks, Tables
    <2> QED
      BY <1>3, <2>1, <2>2
  <1>8. Tables'
    BY <1>1 DEF IInv, Tables
  <1> QED
    BY <1>6, <1>7, <1>8 DEF IInv

\* It deletes a session that has run out or whose user is disabled.
LEMMA RevokeStep ==
    ASSUME IInv, NEW c \in Calls, Revoke(c)
    PROVE  IInv'
  <1>1. /\ CallBecomes(c, NoCall) /\ sessions' \in SUBSET sessions
        /\ UNCHANGED <<drawn, users, issued, owner, left, unused>>
    BY DEF Revoke, CallEnds
  <1>2. NoCall.pc # "user"
    BY DEF NoCall
  <1> QED
    BY <1>1, <1>2, SessionsGo, NoCallWell, RequestStep DEF IInv

\* Slide gives a session that is still there all of the TTL.
LEMMA SlideClocks ==
    ASSUME IInv, NEW t \in Tokens, Slide(t), sessions' = sessions
    PROVE  /\ Clocks'
           /\ \A s \in sessions' : left'[s] = TTL \/ (s \in sessions /\ left'[s] = left[s])
  <1>1. CASE t \in sessions
    <2>1. left' = [left EXCEPT ![t] = TTL] /\ unused' = [unused EXCEPT ![t] = 0]
      BY <1>1 DEF Slide
    <2>2. /\ left \in [Tokens -> 0 .. TTL] /\ unused \in [Tokens -> 0 .. TTL]
          /\ sessions \in SUBSET Tokens
      BY DEF IInv, Clocks, Tables
    <2>3. TTL \in 0 .. TTL /\ 0 \in 0 .. TTL /\ TTL + 0 <= TTL /\ 2 * (TTL + 0) >= TTL
      BY TTLAssumption
    <2>4. left' \in [Tokens -> 0 .. TTL] /\ unused' \in [Tokens -> 0 .. TTL]
      BY <2>1, <2>2, <2>3
    <2>5. \A s \in Tokens : /\ left'[s] = IF s = t THEN TTL ELSE left[s]
                            /\ unused'[s] = IF s = t THEN 0 ELSE unused[s]
      BY <2>1, <2>2
    <2>6. \A s \in sessions : left'[s] + unused'[s] <= TTL /\ 2 * (left'[s] + unused'[s]) >= TTL
      BY <2>2, <2>3, <2>5 DEF IInv, Clocks
    <2>7. Clocks'
      BY <2>4, <2>6 DEF Clocks
    <2> QED
      BY <2>2, <2>5, <2>7
  <1>2. CASE t \notin sessions
    <2>1. UNCHANGED <<left, unused>>
      BY <1>2 DEF Slide
    <2> QED
      BY <2>1 DEF IInv, Clocks
  <1> QED
    BY <1>1, <1>2

\* It moves the expiry.
LEMMA TouchStep ==
    ASSUME IInv, NEW c \in Calls, Touch(c)
    PROVE  IInv'
  <1> DEFINE r == [call[c] EXCEPT !.pc = "gate"]
  <1>1. /\ call[c].pc = "touch" /\ Slide(call[c].token) /\ CallBecomes(c, r)
        /\ UNCHANGED <<drawn, users, issued, sessions, owner>>
    BY DEF Touch
  <1>2. Well(call[c])
    BY DEF IInv, Requests
  <1>3. call[c].token \in Tokens
    BY <1>1, <1>2 DEF Well
  <1>4. Well(r) /\ r.pc = "gate"
    BY <1>1, <1>2 DEF Well, Call, CallPc
  <1> HIDE DEF r
  <1>5. Clocks' /\ Requests'
    BY <1>1, <1>3, <1>4, SlideClocks, RequestStep
  <1>6. Tables'
    BY <1>1 DEF IInv, Tables
  <1> QED
    BY <1>5, <1>6 DEF IInv

\* It fails to write: the request goes on or ends.
LEMMA StatementFailsStep ==
    ASSUME IInv, NEW c \in Calls, StatementFails(c)
    PROVE  IInv'
  <1> DEFINE r == [call[c] EXCEPT !.pc = "gate"]
  <1>1. Well(call[c])
    BY DEF IInv, Requests
  <1>2. CASE call[c].pc = "revoke"
    <2>1. NoCall.pc # "user"
      BY DEF NoCall
    <2> QED
      BY <1>2, <2>1, NoCallWell, RequestOnly DEF StatementFails
  <1>3. CASE call[c].pc = "touch"
    <2>1. CallBecomes(c, r) /\ UNCHANGED <<drawn, users, tokens>>
      BY <1>3 DEF StatementFails
    <2>2. Well(r) /\ r.pc = "gate"
      BY <1>1, <1>3 DEF Well, Call, CallPc
    <2> HIDE DEF r
    <2> QED
      BY <2>1, <2>2, RequestOnly
  <1> QED
    BY <1>2, <1>3 DEF StatementFails

\* ResolveSession, whichever step it is at.
LEMMA ResolveStep ==
    ASSUME IInv, NEW c \in Calls, Resolve(c)
    PROVE  IInv'
  <1>1. NoCall.pc # "user"
    BY DEF NoCall
  <1>2. CASE UserGone(c)
    BY <1>1, <1>2, NoCallWell, RequestOnly DEF UserGone, CallEnds
  <1> QED
    BY <1>2, UserDisabledStep, UserAcceptedStep, RevokeStep, TouchStep, StatementFailsStep
       DEF Resolve

-----------------------------------------------------------------------------
(* Administration                                                          *)

\* A request that goes on with an id of the table and no row.
LEMMA IdCallWell ==
    ASSUME NEW q \in {"role", "password", "disabled", "purge", "session"}, NEW i \in Ids
    PROVE  Well([NoCall EXCEPT !.pc = q, !.id = i])
  BY DEF Well, NoCall, Call, CallPc

\* A request that is about to insert a row.
LEMMA RowCallWell ==
    ASSUME NEW q \in {"insert", "extinsert"}, NEW w \in Row
    PROVE  Well([NoCall EXCEPT !.pc = q, !.copy = w])
  BY DEF Well, NoCall, Call, CallPc

\* A PATCH begins.
LEMMA PatchUserStep ==
    ASSUME IInv, NEW c \in Calls, NEW i \in Ids, PatchUser(c, i)
    PROVE  IInv'
  <1> DEFINE r == [NoCall EXCEPT !.pc = "role", !.id = i]
  <1>1. Well(r)
    BY IdCallWell
  <1>2. r.pc # "user"
    BY DEF NoCall
  <1> QED
    BY <1>1, <1>2, RequestOnly DEF PatchUser

\* A field that the PATCH leaves out.
LEMMA SkipFieldStep ==
    ASSUME IInv, NEW c \in Calls, SkipField(c)
    PROVE  IInv'
  <1> DEFINE to == AfterField[call[c].pc]
  <1> DEFINE r == IF to = "idle" THEN NoCall ELSE [call[c] EXCEPT !.pc = to]
  <1>1. /\ call[c].pc \in {"role", "password", "disabled"} /\ CallBecomes(c, r)
        /\ UNCHANGED <<drawn, users, tokens>>
    BY DEF SkipField, AfterField
  <1>2. to \in {"password", "disabled", "idle"}
    BY <1>1 DEF AfterField
  <1>3. Well(call[c])
    BY DEF IInv, Requests
  <1>4. Well(r) /\ r.pc # "user"
    <2> HIDE DEF to
    <2>1. CASE to = "idle"
      BY <2>1, NoCallWell DEF NoCall
    <2>2. CASE to # "idle"
      BY <2>2, <1>1, <1>2, <1>3 DEF Well, Call, CallPc
    <2> QED
      BY <2>1, <2>2
  <1> HIDE DEF r
  <1> QED
    BY <1>1, <1>4, RequestOnly

\* SetRole, SetPassword and SetDisabled: what is written back is a row.
LEMMA ReadRowStep ==
    ASSUME IInv, NEW c \in Calls, NEW f \in {"role", "password", "disabled"}, NEW w,
           Exists(call[c].id) => w \in Row, ReadRow(c, f, w)
    PROVE  IInv'
  <1> DEFINE r == [call[c] EXCEPT !.pc = "write", !.copy = w, !.after = AfterField[f]]
  <1>1. /\ call[c].pc = f /\ w \in Row /\ CallBecomes(c, r)
        /\ UNCHANGED <<drawn, users, tokens>>
    BY DEF ReadRow
  <1>2. AfterField[f] \in {"idle", "password", "disabled"}
    BY DEF AfterField
  <1>3. Well(call[c])
    BY DEF IInv, Requests
  <1>4. Well(r) /\ r.pc # "user"
    BY <1>1, <1>2, <1>3 DEF Well, Call, CallPc
  <1> HIDE DEF r
  <1> QED
    BY <1>1, <1>4, RequestOnly

\* SetRole, SetPassword and SetDisabled read the row they will write back.
LEMMA SetStep ==
    ASSUME IInv, NEW c \in Calls,
           \/ \E r \in Roles : SetRole(c, r)
           \/ SetPassword(c)
           \/ \E d \in BOOLEAN : SetDisabled(c, d)
    PROVE  IInv'
  <1> DEFINE u == users[call[c].id]
  <1>1. ASSUME call[c].pc \in {"role", "password", "disabled"}, Exists(call[c].id)
        PROVE  u \in Row
    <2>1. call[c].id \in Ids
      BY <1>1 DEF IInv, Requests, Well
    <2> QED
      BY <1>1, <2>1, ExistingRow DEF IInv
  <1>2. ASSUME NEW r \in Roles, SetRole(c, r)
        PROVE  IInv'
    <2>1. call[c].pc = "role" /\ Exists(call[c].id) /\ ReadRow(c, "role", [u EXCEPT !.role = r])
      BY <1>2 DEF SetRole, ReadRow
    <2>2. [u EXCEPT !.role = r] \in Row
      BY <1>1, <2>1 DEF Row
    <2> QED
      BY <2>1, <2>2, ReadRowStep
  <1>3. CASE SetPassword(c)
    <2>1. call[c].pc = "password" /\ Exists(call[c].id) /\ ReadRow(c, "password", u)
      BY <1>3 DEF SetPassword, ReadRow
    <2> QED
      BY <1>1, <2>1, ReadRowStep
  <1>4. ASSUME NEW d \in BOOLEAN, SetDisabled(c, d)
        PROVE  IInv'
    <2>1. /\ call[c].pc = "disabled" /\ Exists(call[c].id)
          /\ ReadRow(c, "disabled", [u EXCEPT !.disabled = d])
      BY <1>4 DEF SetDisabled, ReadRow
    <2>2. [u EXCEPT !.disabled = d] \in Row
      BY <1>1, <2>1 DEF Row
    <2> QED
      BY <2>1, <2>2, ReadRowStep
  <1> QED
    BY <1>2, <1>3, <1>4

\* updateUser keeps the table a table of rows.
LEMMA UpdateUserTables ==
    ASSUME Tables, NEW i \in Ids, NEW w \in Row, UpdateUser(i, w), UNCHANGED <<drawn, tokens>>
    PROVE  Tables'
  <1>1. users' \in [Ids -> Row \cup {NoRow}]
    BY DEF Tables, UpdateUser
  <1> QED
    BY <1>1 DEF Tables, tokens

\* An INSERT of a user leaves the tables typed.
LEMMA InsertUserTables ==
    ASSUME Tables, NEW i \in Ids, NEW w \in Row, InsertUser(i, w), UNCHANGED tokens
    PROVE  Tables'
  <1>1. users' \in [Ids -> Row \cup {NoRow}] /\ drawn' \in SUBSET Ids
    BY DEF Tables, InsertUser
  <1> QED
    BY <1>1 DEF Tables, tokens

\* A request moves and writes users, and no session is touched.
LEMMA UsersOnly ==
    ASSUME IInv, NEW c \in Calls, NEW r, CallBecomes(c, r), Well(r), r.pc # "user",
           Tables', UNCHANGED tokens
    PROVE  IInv'
  <1>1. UNCHANGED <<sessions, left, unused>>
    BY DEF tokens
  <1>2. Requests'
    BY <1>1, RequestStep
  <1>3. Clocks'
    BY <1>1 DEF IInv, Clocks
  <1> QED
    BY <1>2, <1>3 DEF IInv

\* updateUser writes all columns back.
LEMMA WriteUserStep ==
    ASSUME IInv, NEW c \in Calls, WriteUser(c)
    PROVE  IInv'
  <1> DEFINE i == call[c].id
  <1> DEFINE q == call[c].after
  <1> DEFINE r == IF q = "idle" THEN NoCall ELSE [NoCall EXCEPT !.pc = q, !.id = i]
  <1>1. /\ call[c].pc = "write" /\ UpdateUser(i, call[c].copy) /\ CallBecomes(c, r)
        /\ UNCHANGED <<drawn, tokens>>
    BY DEF WriteUser
  <1>2. Well(call[c])
    BY DEF IInv, Requests
  <1>3. i \in Ids /\ call[c].copy \in Row /\ q \in {"idle", "password", "disabled"}
    BY <1>1, <1>2 DEF Well, Call
  <1>4. Tables'
    BY <1>1, <1>3, UpdateUserTables DEF IInv
  <1>5. Well(r) /\ r.pc # "user"
    <2> HIDE DEF i, q
    <2>1. CASE q = "idle"
      BY <2>1, NoCallWell DEF NoCall
    <2>2. CASE q # "idle"
      <3>1. q \in {"password", "disabled"} /\ r = [NoCall EXCEPT !.pc = q, !.id = i]
        BY <2>2, <1>3
      <3> QED
        BY <3>1, <1>3, IdCallWell DEF NoCall
    <2> QED
      BY <2>1, <2>2
  <1> HIDE DEF r
  <1> QED
    BY <1>1, <1>4, <1>5, UsersOnly

\* CreateLocalUser has seen that the name is free.
LEMMA CreateLocalUserStep ==
    ASSUME IInv, NEW c \in Calls, NEW n \in Names, NEW o \in Roles, CreateLocalUser(c, n, o)
    PROVE  IInv'
  <1> DEFINE w == [name |-> n, role |-> o, provider |-> "local", disabled |-> FALSE]
  <1> DEFINE r == [NoCall EXCEPT !.pc = "insert", !.copy = w]
  <1>1. w \in Row
    BY DEF Row
  <1> HIDE DEF w
  <1>2. Well(r)
    BY <1>1, RowCallWell
  <1>3. r.pc # "user"
    BY DEF NoCall
  <1> QED
    BY <1>2, <1>3, RequestOnly DEF CreateLocalUser, w

\* Its INSERT.
LEMMA InsertStep ==
    ASSUME IInv, NEW c \in Calls, NEW i \in Ids, Insert(c, i)
    PROVE  IInv'
  <1>1. call[c].copy \in Row
    BY DEF IInv, Requests, Well, Insert
  <1>2. Tables'
    BY <1>1, InsertUserTables DEF IInv, Insert
  <1>3. NoCall.pc # "user"
    BY DEF NoCall
  <1> QED
    BY <1>2, <1>3, NoCallWell, UsersOnly DEF Insert, CallEnds

\* DeleteUser deletes the row.
LEMMA DeleteUserStep ==
    ASSUME IInv, NEW c \in Calls, NEW i \in Ids, DeleteUser(c, i)
    PROVE  IInv'
  <1> DEFINE r == [NoCall EXCEPT !.pc = "purge", !.id = i]
  <1>1. Well(r)
    BY IdCallWell
  <1>2. r.pc # "user"
    BY DEF NoCall
  <1>3. users' \in [Ids -> Row \cup {NoRow}] /\ UNCHANGED <<drawn, tokens>>
    BY DEF IInv, Tables, DeleteUser
  <1>4. Tables'
    BY <1>3 DEF IInv, Tables, tokens
  <1> QED
    BY <1>1, <1>2, <1>4, UsersOnly DEF DeleteUser

\* DeleteUser deletes the sessions.
LEMMA PurgeStep ==
    ASSUME IInv, NEW c \in Calls, Purge(c)
    PROVE  IInv'
  <1>1. /\ CallBecomes(c, NoCall) /\ sessions' \in SUBSET sessions
        /\ UNCHANGED <<drawn, users, issued, owner, left, unused>>
    BY DEF Purge, CallEnds
  <1>2. NoCall.pc # "user"
    BY DEF NoCall
  <1> QED
    BY <1>1, <1>2, SessionsGo, NoCallWell, RequestStep DEF IInv

\* The requests of administrators, whichever step they are at.
LEMMA AdministerStep ==
    ASSUME IInv, NEW c \in Calls, Administer(c)
    PROVE  IInv'
  <1>1. NoCall.pc # "user"
    BY DEF NoCall
  <1>2. CASE Leave(c) \/ PatchFails(c) \/ InsertFails(c)
    BY <1>1, <1>2, NoCallWell, RequestOnly DEF Leave, PatchFails, InsertFails, CallEnds
  <1> QED
    BY <1>2, SkipFieldStep, SetStep, WriteUserStep, PurgeStep, PatchUserStep, DeleteUserStep,
       InsertStep, CreateLocalUserStep DEF Administer

-----------------------------------------------------------------------------
(* Login and logout                                                        *)

\* Login has checked the password.
LEMMA LoginStep ==
    ASSUME IInv, NEW c \in Calls, NEW i \in Ids, Login(c, i)
    PROVE  IInv'
  <1> DEFINE r == [NoCall EXCEPT !.pc = "session", !.id = i]
  <1>1. Well(r)
    BY IdCallWell
  <1>2. r.pc # "user"
    BY DEF NoCall
  <1> QED
    BY <1>1, <1>2, RequestOnly DEF Login

\* provisionExternal finds the user.
LEMMA ProvisionKnownStep ==
    ASSUME IInv, NEW c \in Calls, NEW i \in Ids, NEW o \in Roles, ProvisionKnown(c, i, o)
    PROVE  IInv'
  <1> DEFINE w == [users[i] EXCEPT !.role = o, !.provider = "external"]
  <1> DEFINE r == [NoCall EXCEPT !.pc = "extwrite", !.id = i, !.copy = w]
  <1>1. users[i] \in Row
    BY ExistingRow DEF IInv, ProvisionKnown
  <1>2. w \in Row
    BY <1>1 DEF Row
  <1>3. CallBecomes(c, r) /\ UNCHANGED <<drawn, users, tokens>>
    BY DEF ProvisionKnown
  <1> HIDE DEF w
  <1>4. Well(r) /\ r.pc # "user"
    BY <1>2 DEF Well, NoCall, Call, CallPc
  <1> HIDE DEF r
  <1> QED
    BY <1>3, <1>4, RequestOnly

\* provisionExternal does not find the user.
LEMMA ProvisionNewStep ==
    ASSUME IInv, NEW c \in Calls, NEW n \in Names, NEW o \in Roles, ProvisionNew(c, n, o)
    PROVE  IInv'
  <1> DEFINE w == [name |-> n, role |-> o, provider |-> "external", disabled |-> FALSE]
  <1> DEFINE r == [NoCall EXCEPT !.pc = "extinsert", !.copy = w]
  <1>1. w \in Row
    BY DEF Row
  <1> HIDE DEF w
  <1>2. Well(r)
    BY <1>1, RowCallWell
  <1>3. r.pc # "user"
    BY DEF NoCall
  <1> QED
    BY <1>2, <1>3, RequestOnly DEF ProvisionNew, w

\* It updates the row that it has found.
LEMMA ExternalWriteStep ==
    ASSUME IInv, NEW c \in Calls, ExternalWrite(c)
    PROVE  IInv'
  <1> DEFINE i == call[c].id
  <1> DEFINE off == call[c].copy.disabled
  <1> DEFINE r == IF off THEN NoCall ELSE [NoCall EXCEPT !.pc = "session", !.id = i]
  <1>1. /\ call[c].pc = "extwrite" /\ UpdateUser(i, call[c].copy) /\ CallBecomes(c, r)
        /\ UNCHANGED <<drawn, tokens>>
    BY DEF ExternalWrite
  <1>2. i \in Ids /\ call[c].copy \in Row
    BY <1>1 DEF IInv, Requests, Well
  <1>3. Tables'
    BY <1>1, <1>2, UpdateUserTables DEF IInv
  <1>4. Well(r) /\ r.pc # "user"
    <2> HIDE DEF i, off
    <2>1. r \in {NoCall, [NoCall EXCEPT !.pc = "session", !.id = i]}
      OBVIOUS
    <2>2. Well([NoCall EXCEPT !.pc = "session", !.id = i])
      BY <1>2, IdCallWell
    <2>3. Well(r)
      BY <2>1, <2>2, NoCallWell
    <2>4. r.pc # "user"
      BY <2>1 DEF NoCall
    <2> HIDE DEF r
    <2> QED
      BY <2>3, <2>4
  <1> HIDE DEF r
  <1> QED
    BY <1>1, <1>3, <1>4, UsersOnly

\* It inserts the new user.
LEMMA ExternalInsertStep ==
    ASSUME IInv, NEW c \in Calls, NEW i \in Ids, ExternalInsert(c, i)
    PROVE  IInv'
  <1> DEFINE r == [NoCall EXCEPT !.pc = "session", !.id = i]
  <1>1. call[c].copy \in Row
    BY DEF IInv, Requests, Well, ExternalInsert
  <1>2. Tables'
    BY <1>1, InsertUserTables DEF IInv, ExternalInsert
  <1>3. Well(r)
    BY IdCallWell
  <1>4. r.pc # "user"
    BY DEF NoCall
  <1> QED
    BY <1>2, <1>3, <1>4, UsersOnly DEF ExternalInsert

\* A session begins, with a token nobody had and the whole TTL.
LEMMA StartSessionStep ==
    ASSUME IInv, NEW c \in Calls, NEW t \in Tokens, StartSession(c, t)
    PROVE  IInv'
  <1>1. /\ call[c].pc = "session" /\ t \notin issued /\ CallBecomes(c, NoCall)
        /\ issued' = issued \cup {t} /\ sessions' = sessions \cup {t}
        /\ owner' = [owner EXCEPT ![t] = call[c].id]
        /\ left' = [left EXCEPT ![t] = TTL] /\ unused' = [unused EXCEPT ![t] = 0]
        /\ UNCHANGED <<drawn, users>>
    BY DEF StartSession, CallEnds
  <1>2. call[c].id \in Ids
    BY <1>1 DEF IInv, Requests, Well
  <1>3. Tables'
    BY <1>1, <1>2 DEF IInv, Tables
  <1>4. /\ TTL \in 0 .. TTL /\ 0 \in 0 .. TTL /\ TTL + 0 <= TTL /\ 2 * (TTL + 0) >= TTL
    BY TTLAssumption
  <1>5. left' \in [Tokens -> 0 .. TTL] /\ unused' \in [Tokens -> 0 .. TTL]
    BY <1>1, <1>4 DEF IInv, Clocks
  <1>6. \A s \in Tokens : /\ left'[s] = IF s = t THEN TTL ELSE left[s]
                          /\ unused'[s] = IF s = t THEN 0 ELSE unused[s]
    BY <1>1 DEF IInv, Clocks
  <1>7. sessions' \in SUBSET Tokens
    BY <1>1 DEF IInv, Tables
  <1>8. Clocks'
    BY <1>1, <1>4, <1>5, <1>6, <1>7 DEF IInv, Clocks
  <1>9. \A s \in sessions' : left'[s] = TTL \/ (s \in sessions /\ left'[s] = left[s])
    BY <1>1, <1>6, <1>7
  <1>10. NoCall.pc # "user"
    BY DEF NoCall
  <1>11. Requests'
    BY <1>1, <1>9, <1>10, NoCallWell, RequestStep
  <1> QED
    BY <1>3, <1>8, <1>11 DEF IInv

\* The requests that sign on, whichever step they are at.
LEMMA SignOnStep ==
    ASSUME IInv, NEW c \in Calls, SignOn(c)
    PROVE  IInv'
  BY ExternalWriteStep, LoginStep, ExternalInsertStep, ProvisionKnownStep, ProvisionNewStep,
     StartSessionStep DEF SignOn

\* Requests keep what they know when none of them moves and no expiry does.
LEMMA LogoutStep ==
    ASSUME IInv, NEW t \in Tokens, Logout(t)
    PROVE  IInv'
  <1>1. /\ sessions' \in SUBSET sessions /\ call' = call
        /\ UNCHANGED <<drawn, users, issued, owner, left, unused>>
    BY DEF Logout
  <1>2. Requests'
    BY <1>1 DEF IInv, Requests, Well, Fresh
  <1> QED
    BY <1>1, <1>2, SessionsGo DEF IInv

-----------------------------------------------------------------------------
(* Time and restarts                                                       *)

\* The sum of the clocks stays, or grows when the session has expired.
LEMMA TickStep ==
    ASSUME IInv, Tick
    PROVE  IInv'
  <1>1. /\ \A c \in Calls : call[c].pc # "user"
        /\ left' = [t \in Tokens |-> IF left[t] = 0 THEN 0 ELSE left[t] - 1]
        /\ unused' = [t \in Tokens |-> IF unused[t] < TTL THEN unused[t] + 1 ELSE unused[t]]
        /\ UNCHANGED <<drawn, users, issued, sessions, owner, call>>
    BY DEF Tick, Resolving
  <1>2. Tables'
    BY <1>1 DEF IInv, Tables
  <1>3. Requests'
    BY <1>1 DEF IInv, Requests, Well, Fresh
  <1>4. sessions \in SUBSET Tokens
    BY DEF IInv, Tables
  <1>5. ASSUME NEW t \in Tokens
        PROVE  left'[t] \in 0 .. TTL /\ unused'[t] \in 0 .. TTL
    BY <1>1, TTLAssumption DEF IInv, Clocks
  <1>6. left' \in [Tokens -> 0 .. TTL] /\ unused' \in [Tokens -> 0 .. TTL]
    BY <1>1, <1>5
  <1>7. ASSUME NEW t \in sessions
        PROVE  left'[t] + unused'[t] <= TTL /\ 2 * (left'[t] + unused'[t]) >= TTL
    BY <1>1, <1>4, TTLAssumption DEF IInv, Clocks
  <1>8. Clocks'
    BY <1>1, <1>6, <1>7 DEF Clocks
  <1> QED
    BY <1>2, <1>3, <1>8 DEF IInv

\* A restart forgets the requests and keeps the tables.
LEMMA RestartStep ==
    ASSUME IInv, Restart
    PROVE  IInv'
  <1>1. call' = [c \in Calls |-> NoCall] /\ UNCHANGED tokens
    BY DEF Restart
  <1>2. Requests'
    BY <1>1, NoCallWell DEF Requests, Fresh, Well, NoCall
  <1>3. Clocks'
    BY <1>1 DEF IInv, Clocks, tokens
  <1>4. Tables'
    <2>1. CASE UNCHANGED <<drawn, users>>
      BY <1>1, <2>1 DEF IInv, Tables, tokens
    <2>2. CASE \E i \in Ids, n \in Names : InsertUser(i, Bootstrapped(n))
      <3>1. PICK i \in Ids, n \in Names : InsertUser(i, Bootstrapped(n))
        BY <2>2
      <3>2. Bootstrapped(n) \in Row
        BY DEF Bootstrapped, Row, Roles
      <3> QED
        BY <1>1, <3>1, <3>2, InsertUserTables DEF IInv
    <2> QED
      BY <2>1, <2>2 DEF Restart
  <1> QED
    BY <1>2, <1>3, <1>4 DEF IInv

-----------------------------------------------------------------------------
(* The invariant                                                           *)

\* The invariant holds of the first administrator alone.
LEMMA InitIInv == Init => IInv
  <1> SUFFICES ASSUME Init
               PROVE  IInv
    OBVIOUS
  <1>1. Tables
    <2>1. PICK i \in Ids, n \in Names :
            /\ drawn = {i}
            /\ users = [k \in Ids |-> IF k = i THEN Bootstrapped(n) ELSE NoRow]
      BY DEF Init
    <2>2. Bootstrapped(n) \in Row
      BY DEF Bootstrapped, Row, Roles
    <2> QED
      BY <2>1, <2>2 DEF Init, Tables
  <1>2. Clocks
    BY TTLAssumption DEF Init, Clocks
  <1>3. Requests
    BY NoCallWell DEF Init, Requests, Fresh, Well, NoCall
  <1> QED
    BY <1>1, <1>2, <1>3 DEF IInv

\* Every step keeps the invariant.
LEMMA NextIInv ==
    ASSUME IInv, [Next]_vars
    PROVE  IInv'
  <1>1. CASE UNCHANGED vars
    <2>1. UNCHANGED <<drawn, users, issued, sessions, owner, left, unused, call>>
      BY <1>1 DEF vars, tokens
    <2> QED
      BY <2>1 DEF IInv, Tables, Clocks, Requests, Well, Fresh
  <1> QED
    BY <1>1, ReadSessionStep, ResolveStep, AdministerStep, SignOnStep, LogoutStep, TickStep,
       RestartStep DEF Next

\* The invariant always holds.
LEMMA Invariance == Spec => []IInv
  BY InitIInv, NextIInv, PTL DEF Spec

-----------------------------------------------------------------------------
(* The theorems                                                            *)

\* The two tables and the requests keep their types: no request goes on with a row or an
\* id that it has not got.
THEOREM TypeCorrect == Spec => []TypeOK
  <1>1. IInv => TypeOK
    BY DEF IInv, TypeOK, Tables, Clocks, Requests
  <1> QED
    BY <1>1, Invariance, PTL

\* The expiry that requests read, and set again, slides as promised: a session that has
\* been used within the last half of the TTL is valid, one that was not used for the
\* TTL is not.
THEOREM ExpirySlides == Spec => []SlidingExpiry
  <1>1. ASSUME IInv, NEW t \in sessions
        PROVE  (2 * unused[t] < TTL => left[t] > 0) /\ (unused[t] = TTL => left[t] = 0)
    <2>1. /\ left[t] \in 0 .. TTL /\ unused[t] \in 0 .. TTL
          /\ left[t] + unused[t] <= TTL /\ 2 * (left[t] + unused[t]) >= TTL
      BY <1>1 DEF IInv, Clocks, Tables
    <2> QED
      BY <2>1, TTLAssumption
  <1>2. IInv => SlidingExpiry
    BY <1>1 DEF SlidingExpiry
  <1> QED
    BY <1>2, Invariance, PTL

\* The two halves of NoneReturns.
UsersStayGone == \A i \in drawn : ~Exists(i) => users'[i] = NoRow
SessionsStayGone == \A t \in issued \ sessions : t \notin sessions'

\* updateUser brings no row back, and insertUser takes an id that was never used.
LEMMA WritesKeepGone ==
    ASSUME Tables, NEW i \in Ids, NEW w, UpdateUser(i, w) \/ InsertUser(i, w)
    PROVE  UsersStayGone
  <1>1. ASSUME NEW k \in drawn, ~Exists(k)
        PROVE  users'[k] = NoRow
    <2>1. k \in Ids /\ users[k] = NoRow /\ users \in [Ids -> Row \cup {NoRow}]
      BY <1>1 DEF Tables, Exists
    <2>2. CASE UpdateUser(i, w)
      <3>1. CASE Exists(i)
        <4>1. users' = [users EXCEPT ![i] = w] /\ k # i
          BY <1>1, <2>2, <3>1 DEF UpdateUser
        <4> QED
          BY <2>1, <4>1
      <3>2. CASE ~Exists(i)
        BY <2>1, <2>2, <3>2 DEF UpdateUser
      <3> QED
        BY <3>1, <3>2
    <2>3. CASE InsertUser(i, w)
      <3>1. users' = [users EXCEPT ![i] = w] /\ k # i
        BY <1>1, <2>3 DEF InsertUser
      <3> QED
        BY <2>1, <3>1
    <2> QED
      BY <2>2, <2>3
  <1> QED
    BY <1>1 DEF UsersStayGone

\* No step brings back what was deleted.
LEMMA NextKeepsGone ==
    ASSUME IInv, Next
    PROVE  UsersStayGone /\ SessionsStayGone
  <1>1. /\ drawn \in SUBSET Ids /\ users \in [Ids -> Row \cup {NoRow}]
        /\ sessions \in SUBSET issued
    BY DEF IInv, Tables
  <1>2. ASSUME users' = users
        PROVE  UsersStayGone
    BY <1>2 DEF UsersStayGone, Exists
  <1>3. ASSUME sessions' \in SUBSET sessions
        PROVE  SessionsStayGone
    BY <1>3 DEF SessionsStayGone
  <1>4. ASSUME NEW c \in Calls, NEW t \in Tokens, ReadSession(c, t)
        PROVE  UsersStayGone /\ SessionsStayGone
    BY <1>2, <1>3, <1>4 DEF ReadSession, tokens
  <1>5. ASSUME NEW c \in Calls, Resolve(c)
        PROVE  UsersStayGone /\ SessionsStayGone
    BY <1>2, <1>3, <1>5
       DEF Resolve, UserGone, UserDisabled, UserAccepted, Revoke, Touch, StatementFails,
           tokens
  <1>6. ASSUME NEW c \in Calls, Administer(c)
        PROVE  UsersStayGone /\ SessionsStayGone
    <2>1. CASE WriteUser(c)
      <3>1. call[c].id \in Ids
        BY <2>1 DEF IInv, Requests, Well, WriteUser
      <3>2. UsersStayGone
        BY <2>1, <3>1, WritesKeepGone DEF IInv, WriteUser
      <3> QED
        BY <1>3, <2>1, <3>2 DEF WriteUser, tokens
    <2>2. ASSUME NEW i \in Ids, Insert(c, i)
          PROVE  UsersStayGone /\ SessionsStayGone
      <3>1. UsersStayGone
        BY <2>2, WritesKeepGone DEF IInv, Insert
      <3> QED
        BY <1>3, <2>2, <3>1 DEF Insert, tokens
    <2>3. ASSUME NEW i \in Ids, DeleteUser(c, i)
          PROVE  UsersStayGone /\ SessionsStayGone
      <3>1. UsersStayGone
        BY <1>1, <2>3 DEF DeleteUser, UsersStayGone, Exists
      <3> QED
        BY <1>3, <2>3, <3>1 DEF DeleteUser, tokens
    <2>4. CASE Purge(c)
      BY <1>2, <1>3, <2>4 DEF Purge
    <2>5. CASE Leave(c) \/ SkipField(c) \/ PatchFails(c) \/ InsertFails(c)
      BY <1>2, <1>3, <2>5 DEF Leave, SkipField, PatchFails, InsertFails, tokens
    <2>6. CASE \/ SetPassword(c) \/ \E r \in Roles : SetRole(c, r)
               \/ \E d \in BOOLEAN : SetDisabled(c, d)
      BY <1>2, <1>3, <2>6 DEF SetPassword, SetRole, SetDisabled, ReadRow, tokens
    <2>7. ASSUME \/ \E i \in Ids : PatchUser(c, i)
                 \/ \E n \in Names, r \in Roles : CreateLocalUser(c, n, r)
          PROVE  UsersStayGone /\ SessionsStayGone
      BY <1>2, <1>3, <2>7 DEF PatchUser, CreateLocalUser, tokens
    <2> QED
      BY <1>6, <2>1, <2>2, <2>3, <2>4, <2>5, <2>6, <2>7 DEF Administer
  <1>7. ASSUME NEW c \in Calls, SignOn(c)
        PROVE  UsersStayGone /\ SessionsStayGone
    <2>1. CASE ExternalWrite(c)
      <3>1. call[c].id \in Ids
        BY <2>1 DEF IInv, Requests, Well, ExternalWrite
      <3>2. UsersStayGone
        BY <2>1, <3>1, WritesKeepGone DEF IInv, ExternalWrite
      <3> QED
        BY <1>3, <2>1, <3>2 DEF ExternalWrite, tokens
    <2>2. ASSUME NEW i \in Ids, ExternalInsert(c, i)
          PROVE  UsersStayGone /\ SessionsStayGone
      <3>1. UsersStayGone
        BY <2>2, WritesKeepGone DEF IInv, ExternalInsert
      <3> QED
        BY <1>3, <2>2, <3>1 DEF ExternalInsert, tokens
    <2>3. ASSUME NEW t \in Tokens, StartSession(c, t)
          PROVE  UsersStayGone /\ SessionsStayGone
      <3>1. SessionsStayGone
        BY <2>3 DEF StartSession, SessionsStayGone
      <3> QED
        BY <1>2, <2>3, <3>1 DEF StartSession
    <2>4. ASSUME \/ \E i \in Ids : Login(c, i)
                 \/ \E i \in Ids, r \in Roles : ProvisionKnown(c, i, r)
                 \/ \E n \in Names, r \in Roles : ProvisionNew(c, n, r)
          PROVE  UsersStayGone /\ SessionsStayGone
      BY <1>2, <1>3, <2>4 DEF Login, ProvisionKnown, ProvisionNew, tokens
    <2> QED
      BY <1>7, <2>1, <2>2, <2>3, <2>4 DEF SignOn
  <1>8. ASSUME NEW t \in Tokens, Logout(t)
        PROVE  UsersStayGone /\ SessionsStayGone
    BY <1>2, <1>3, <1>8 DEF Logout
  <1>9. CASE Tick
    BY <1>2, <1>3, <1>9 DEF Tick
  <1>10. CASE Restart
    <2>1. SessionsStayGone
      BY <1>3, <1>10 DEF Restart, tokens
    <2>2. CASE UNCHANGED <<drawn, users>>
      BY <1>2, <2>1, <2>2
    <2>3. CASE \E i \in Ids, n \in Names : InsertUser(i, Bootstrapped(n))
      BY <2>1, <2>3, WritesKeepGone DEF IInv
    <2> QED
      BY <1>10, <2>2, <2>3 DEF Restart
  <1> QED
    BY <1>4, <1>5, <1>6, <1>7, <1>8, <1>9, <1>10 DEF Next

\* No late write of a request that has read a row or a session before brings back a user
\* that was deleted meanwhile, or a session that was revoked.
THEOREM DeletedStayDeleted == Spec => NoneReturns
  <1>1. IInv /\ [Next]_vars =>
          [/\ \A i \in drawn : ~Exists(i) => users'[i] = NoRow
           /\ \A t \in issued \ sessions : t \notin sessions']_vars
    BY NextKeepsGone DEF UsersStayGone, SessionsStayGone
  <1> QED
    BY <1>1, Invariance, PTL DEF Spec, NoneReturns
=============================================================================
