----------------------------- MODULE UserProofs -----------------------------
(***************************************************************************)
(* What UserController guarantees for any number of browsers, users and    *)
(* versions: no update is lost and every password is encoded once.  Both   *)
(* rest on one fact: a page or a request that has seen a row of some       *)
(* version either has the row of the table, or the table has moved on to a *)
(* higher version.                                                         *)
(***************************************************************************)
EXTENDS UserController, TLAPS

Steps == {"idle", "check", "flush", "delete", "insert"}

TypeOK ==
  /\ rows \in [User -> Row \cup {None}]
  /\ used \in SUBSET User
  /\ shown \in [Client -> Row \cup {None}]
  /\ id \in [Client -> User \cup {None}]
  /\ pc \in [Client -> Steps]
  /\ params \in [Client -> (Name \X Password) \cup {None}]
  /\ loaded \in [Client -> Row \cup {None}]
  /\ authors \in [User -> Seq(Client)]

\* An id is handed out before its row exists.
IdsHandedOut == \A u \in User : rows[u] # None => u \in used

\* The table still has this row of u, or a newer one, or none.
Behind(row, u) ==
  \/ rows[u] = None
  \/ rows[u] = row
  \/ row.version < rows[u].version

\* A page shows a row that the table had.
Page(c) ==
  shown[c] # None =>
    /\ id[c] \in used
    /\ shown[c].password.encodings = 1
    /\ Behind(shown[c], id[c])

\* A request has loaded a row that the table had, not before its page's.
Request(c) ==
  /\ pc[c] \in {"check", "flush", "delete"} =>
       /\ shown[c] # None
       /\ loaded[c] # None
       /\ loaded[c].password.encodings = 1
       /\ Behind(loaded[c], id[c])
       /\ shown[c] = loaded[c] \/ shown[c].version < loaded[c].version
  /\ pc[c] = "flush" => loaded[c] = shown[c]

\* A form submits the password it shows or one that was typed.
Fields(c) ==
  /\ pc[c] \in {"check", "flush"} =>
       /\ params[c] # None
       /\ params[c][2] \in Typed \cup {shown[c].password}
  /\ pc[c] = "insert" =>
       /\ params[c] # None
       /\ params[c][2] \in Typed

IInv ==
  /\ TypeOK
  /\ IdsHandedOut
  /\ PasswordEncodedOnce
  /\ \A c \in Client : id[c] # None => shown[c] # None
  /\ \A c \in Client : Page(c) /\ Request(c) /\ Fields(c)

---------------------------------------------------------------------------
(* One step.                                                               *)

Own(c) == <<shown[c], id[c], pc[c], params[c], loaded[c]>>

\* A row that somebody may have seen stays, gets a higher version, or goes.
Moves(u) ==
  \/ rows'[u] = rows[u]
  \/ rows'[u] = None
  \/ rows[u] # None /\ rows[u].version < rows'[u].version

\* The step is one of c's request or page: the others keep theirs, whatever
\* it does to the table.
LocalTo(c) == \A d \in Client \ {c} : Own(d)' = Own(d)

\* Every step is local to a browser.
LEMMA LocalSteps ==
  ASSUME TypeOK, NEW c \in Client,
         Update(c) \/ Save(c) \/ Delete(c) \/ \E u \in User : Edit(c, u)
  PROVE  LocalTo(c)
BY Zenon DEF TypeOK, Update, Save, Delete, Edit, UpdateGet, UpdateStale, UpdateInvalid,
  UpdateValid, UpdateFlush, UpdateNothing, DeleteGet, DeleteFlush, SaveValid, SaveInsert,
  Begin, Finish, Goto, Render, LocalTo, Own, tableVars, pageVars

\* The shape of a row after an update.
LEMMA UpdatedRow ==
  ASSUME TypeOK, NEW c \in Client, loaded[c] # None, params[c] # None
  PROVE  /\ Updated(c) \in Row
         /\ Updated(c).version = loaded[c].version + 1
         /\ Updated(c).password = IF params[c][2] # loaded[c].password
                                    THEN Encoded(params[c][2]) ELSE params[c][2]
<1>1. loaded[c] \in Row /\ params[c] \in Name \X Password
  BY DEF TypeOK
<1>2. params[c][1] \in Name /\ params[c][2] \in Password /\ loaded[c].version \in Nat
  BY <1>1 DEF Row
<1>3. Encoded(params[c][2]) \in Password
  BY <1>2 DEF Encoded, Password
<1> QED
  BY <1>2, <1>3 DEF Updated, Row

\* Types are preserved, given the shape of the requests under way.
LEMMA TypeStep ==
  ASSUME IInv, [Next]_vars
  PROVE  TypeOK'
<1> USE DEF TypeOK, Steps
<1>0. None \notin Row /\ None \notin Name \X Password /\ Seeded \subseteq User /\ None \notin User
  BY UserAssumption
<1>1. ASSUME NEW c \in Client, NEW name \in Name, NEW password \in Entered(c),
             UpdateGet(c, name, password)
      PROVE  TypeOK'
  <2>1. password \in Password
    BY <1>1, <1>0 DEF IInv, Entered, Typed, Password, Row
  <2>2. rows[id[c]] \in Row
    BY <1>1 DEF IInv, UpdateGet, Exists
  <2> QED
    BY <1>1, <2>1, <2>2 DEF IInv, UpdateGet, Begin, Goto, tableVars, pageVars
<1>2. ASSUME NEW c \in Client, UpdateStale(c) \/ UpdateInvalid(c)
      PROVE  TypeOK'
  <2>1. rows' = rows /\ used' = used /\ id' = id /\ authors' = authors
    BY <1>2 DEF UpdateStale, UpdateInvalid, Render, tableVars
  <2>2. /\ shown' = [shown EXCEPT ![c] = loaded[c]]
        /\ pc' = [pc EXCEPT ![c] = "idle"]
        /\ params' = [params EXCEPT ![c] = None]
        /\ loaded' = [loaded EXCEPT ![c] = None]
    BY <1>2 DEF UpdateStale, UpdateInvalid, Render, Finish, Goto
  <2> QED
    BY <2>1, <2>2 DEF IInv
<1>3. ASSUME NEW c \in Client, UpdateValid(c)
      PROVE  TypeOK'
  BY <1>3 DEF IInv, UpdateValid, Goto, tableVars, pageVars
<1>4. ASSUME NEW c \in Client, UpdateFlush(c)
      PROVE  TypeOK'
  <2>1. Updated(c) \in Row
    BY <1>4, UpdatedRow DEF IInv, Request, Fields, UpdateFlush
  <2>2. /\ rows' = [rows EXCEPT ![id[c]] = Updated(c)]
        /\ authors' = [authors EXCEPT ![id[c]] = Append(@, c)]
        /\ pc' = [pc EXCEPT ![c] = "idle"]
        /\ params' = [params EXCEPT ![c] = None]
        /\ loaded' = [loaded EXCEPT ![c] = None]
        /\ used' = used /\ shown' = shown /\ id' = id
    BY <1>4 DEF UpdateFlush, Finish, Goto, pageVars
  <2>3. id[c] \in User
    BY <1>4 DEF UpdateFlush, Current, Exists
  <2>4. authors[id[c]] \in Seq(Client)
    BY <2>3 DEF IInv
  <2>5. Append(authors[id[c]], c) \in Seq(Client)
    BY <2>4
  <2>6. authors' = [authors EXCEPT ![id[c]] = Append(authors[id[c]], c)]
    BY <2>2
  <2>7. authors' \in [User -> Seq(Client)]
    BY <2>5, <2>6 DEF IInv
  <2> QED
    BY <2>1, <2>2, <2>7 DEF IInv
<1>5. ASSUME NEW c \in Client, UpdateNothing(c)
      PROVE  TypeOK'
  BY <1>5 DEF IInv, UpdateNothing, Finish, Goto, tableVars, pageVars
<1>6. ASSUME NEW c \in Client, DeleteGet(c)
      PROVE  TypeOK'
  <2>1. rows[id[c]] \in Row
    BY <1>6 DEF IInv, DeleteGet, Exists
  <2> QED
    BY <1>6, <2>1 DEF IInv, DeleteGet, Begin, Goto, tableVars, pageVars
<1>7. ASSUME NEW c \in Client, DeleteFlush(c)
      PROVE  TypeOK'
  BY <1>7 DEF IInv, DeleteFlush, Finish, Goto, pageVars
<1>8. ASSUME NEW c \in Client, NEW name \in Name, NEW password \in Typed,
             SaveValid(c, name, password)
      PROVE  TypeOK'
  <2>1. password \in Password
    BY <1>8 DEF Typed, Password
  <2> QED
    BY <1>8, <2>1 DEF IInv, SaveValid, Begin, Goto, tableVars, pageVars
<1>9. ASSUME NEW c \in Client, NEW u \in User, SaveInsert(c, u)
      PROVE  TypeOK'
  <2>1. params[c] \in Name \X Password
    BY <1>9 DEF IInv, Fields, SaveInsert
  <2>2. Encoded(params[c][2]) \in Password
    BY <2>1 DEF Encoded, Password
  <2>3. [version |-> 0, username |-> params[c][1],
         password |-> Encoded(params[c][2])] \in Row
    BY <2>1, <2>2 DEF Row
  <2>4. /\ pc' = [pc EXCEPT ![c] = "idle"]
        /\ params' = [params EXCEPT ![c] = None]
        /\ loaded' = [loaded EXCEPT ![c] = None]
        /\ authors' = authors /\ shown' = shown /\ id' = id
    BY <1>9 DEF SaveInsert, Finish, Goto, pageVars
  <2>5. rows' \in [User -> Row \cup {None}] /\ used' \in SUBSET User
    BY <1>9, <2>3 DEF IInv, SaveInsert
  <2> QED
    BY <2>4, <2>5 DEF IInv
<1>10. ASSUME NEW c \in Client, NEW u \in User, Edit(c, u)
       PROVE  TypeOK'
  BY <1>10 DEF IInv, Edit, tableVars
<1>11. CASE UNCHANGED vars
  BY <1>11 DEF IInv, vars
<1> QED
  BY <1>1, <1>2, <1>3, <1>4, <1>5, <1>6, <1>7, <1>8, <1>9, <1>10, <1>11
  DEF Next, Update, Save, Delete

---------------------------------------------------------------------------
(* What a step does to the table.                                          *)

\* Nothing that anybody can have seen goes back to an older version, and what
\* is written is encoded once.
Advances ==
  /\ used \subseteq used'
  /\ \A u \in used : Moves(u)
  /\ \A u \in User : rows'[u] # None => u \in used' /\ rows'[u].password.encodings = 1

\* Encoding a typed password encodes it once.
LEMMA EncodedTyped ==
  ASSUME NEW password \in Typed
  PROVE  Encoded(password).encodings = 1
BY DEF Typed, Encoded

LEMMA TableStep ==
  ASSUME IInv, [Next]_vars
  PROVE  Advances
<1>1. ASSUME UNCHANGED <<rows, used>>
      PROVE  Advances
  BY <1>1 DEF IInv, IdsHandedOut, PasswordEncodedOnce, Exists, Advances, Moves
<1>2. ASSUME NEW c \in Client, UpdateFlush(c)
      PROVE  Advances
  <2>1. /\ id[c] \in User /\ rows[id[c]] # None
        /\ rows[id[c]].version = loaded[c].version
        /\ rows' = [rows EXCEPT ![id[c]] = Updated(c)] /\ used' = used
        /\ pc[c] = "flush"
    BY <1>2 DEF UpdateFlush, Current, Exists
  <2>2. /\ loaded[c] # None /\ loaded[c].password.encodings = 1 /\ loaded[c] = shown[c]
        /\ params[c] # None /\ params[c][2] \in Typed \cup {shown[c].password}
    BY <2>1 DEF IInv, Request, Fields
  <2>3. /\ Updated(c) \in Row
        /\ Updated(c).version = loaded[c].version + 1
        /\ Updated(c).password = IF params[c][2] # loaded[c].password
                                   THEN Encoded(params[c][2]) ELSE params[c][2]
    BY <2>2, UpdatedRow DEF IInv
  <2>4. Updated(c).password.encodings = 1
    <3>1. CASE params[c][2] = loaded[c].password
      BY <3>1, <2>2, <2>3
    <3>2. CASE params[c][2] # loaded[c].password
      BY <3>2, <2>2, <2>3, EncodedTyped
    <3> QED
      BY <3>1, <3>2
  <2>5. loaded[c].version \in Nat /\ rows'[id[c]] = Updated(c)
    BY <2>1, <2>2 DEF IInv, TypeOK, Row
  <2>6. Moves(id[c])
    BY <2>1, <2>3, <2>5 DEF Moves
  <2>7. \A u \in User \ {id[c]} : rows'[u] = rows[u]
    BY <2>1 DEF IInv, TypeOK
  <2> QED
    BY <2>1, <2>4, <2>5, <2>6, <2>7
    DEF IInv, TypeOK, IdsHandedOut, PasswordEncodedOnce, Exists, Advances, Moves
<1>3. ASSUME NEW c \in Client, DeleteFlush(c)
      PROVE  Advances
  <2>1. used' = used /\ \A u \in User : rows'[u] \in {rows[u], None}
    BY <1>3 DEF DeleteFlush, IInv, TypeOK
  <2> QED
    BY <2>1 DEF IInv, TypeOK, IdsHandedOut, PasswordEncodedOnce, Exists, Advances, Moves
<1>4. ASSUME NEW c \in Client, NEW v \in User, SaveInsert(c, v),
             ~UNCHANGED <<rows, used>>
      PROVE  Advances
  <2>1. /\ v \notin used /\ used' = used \cup {v} /\ params[c][2] \in Typed
        /\ rows' = [rows EXCEPT ![v] = [version |-> 0, username |-> params[c][1],
                                        password |-> Encoded(params[c][2])]]
    BY <1>4 DEF SaveInsert, IInv, Fields
  <2>2. rows'[v].password.encodings = 1
    BY <2>1, EncodedTyped DEF IInv, TypeOK
  <2>3. \A u \in User \ {v} : rows'[u] = rows[u]
    BY <2>1 DEF IInv, TypeOK
  <2> QED
    BY <2>1, <2>2, <2>3
    DEF IInv, TypeOK, IdsHandedOut, PasswordEncodedOnce, Exists, Advances, Moves
<1> QED
  BY <1>1, <1>2, <1>3, <1>4
  DEF Next, Update, Save, Delete, UpdateGet, UpdateStale, UpdateInvalid, UpdateValid,
      UpdateNothing, DeleteGet, SaveValid, Edit, tableVars, vars

\* A row that a page or a request has seen stays behind the table.
LEMMA StaysBehind ==
  ASSUME IInv, TypeOK', Advances, NEW u \in used, NEW row \in Row, Behind(row, u)
  PROVE  \/ rows'[u] = None
         \/ rows'[u] = row
         \/ row.version < rows'[u].version
<1>1. Moves(u) /\ row.version \in Nat
  BY DEF Advances, Row
<1>2. rows[u] # None => rows[u].version \in Nat
  BY DEF IInv, TypeOK, Row
<1>3. rows'[u] # None => rows'[u].version \in Nat
  BY DEF IInv, TypeOK, Row
<1>4. CASE rows[u] = None
  BY <1>1, <1>4 DEF Moves
<1>5. CASE rows[u] # None
  BY <1>1, <1>2, <1>3, <1>5 DEF Moves, Behind
<1> QED
  BY <1>4, <1>5

---------------------------------------------------------------------------
(* The inductive invariant.                                                *)

\* A browser that keeps its page and request keeps what is known of them.
LEMMA OthersKeep ==
  ASSUME IInv, TypeOK', Advances, NEW d \in Client, Own(d)' = Own(d)
  PROVE  (Page(d) /\ Request(d) /\ Fields(d))'
<1>0. /\ shown'[d] = shown[d] /\ id'[d] = id[d] /\ pc'[d] = pc[d]
      /\ params'[d] = params[d] /\ loaded'[d] = loaded[d]
  BY DEF Own
<1>1. Page(d) /\ Request(d) /\ Fields(d) /\ used \subseteq used'
  BY DEF IInv, Advances
<1>2. shown[d] \in Row \cup {None} /\ loaded[d] \in Row \cup {None}
  BY DEF IInv, TypeOK
<1>3. ASSUME shown[d] # None
      PROVE  Behind(shown[d], id[d])' /\ id[d] \in used
  BY <1>0, <1>1, <1>2, <1>3, StaysBehind DEF Page, Behind
<1>4. ASSUME shown[d] # None, loaded[d] # None, Behind(loaded[d], id[d])
      PROVE  Behind(loaded[d], id[d])'
  BY <1>0, <1>1, <1>2, <1>3, <1>4, StaysBehind DEF Behind
<1>5. Page(d)'
  BY <1>0, <1>1, <1>3 DEF Page
<1>6. Request(d)'
  BY <1>0, <1>1, <1>4 DEF Request
<1>7. Fields(d)'
  BY <1>0, <1>1 DEF Fields, Typed
<1> QED
  BY <1>5, <1>6, <1>7

\* The browser whose step it is: a page or a request that starts sees the
\* table, one that goes on compares it with what it has loaded.
LEMMA OwnStep ==
  ASSUME IInv, TypeOK', Advances, NEW c \in Client,
         Update(c) \/ Save(c) \/ Delete(c) \/ \E u \in User : Edit(c, u)
  PROVE  /\ (Page(c) /\ Request(c) /\ Fields(c))'
         /\ id'[c] # None => shown'[c] # None
<1>0. /\ Page(c) /\ Request(c) /\ Fields(c) /\ TypeOK
      /\ used \subseteq used'
      /\ id[c] # None => shown[c] # None
  BY DEF IInv, Advances
<1>1. ASSUME NEW row \in Row, NEW u \in used, Behind(row, u)
      PROVE  Behind(row, u)'
  BY <1>1, StaysBehind DEF Behind
<1>2. ASSUME NEW name \in Name, NEW password \in Entered(c), UpdateGet(c, name, password)
      PROVE  /\ (Page(c) /\ Request(c) /\ Fields(c))'
             /\ id'[c] # None => shown'[c] # None
  <2>1. /\ id[c] \in User /\ rows[id[c]] # None /\ rows' = rows /\ used' = used
        /\ pc'[c] = "check" /\ params'[c] = <<name, password>>
        /\ loaded'[c] = rows[id[c]] /\ shown' = shown /\ id' = id
    BY <1>2, <1>0 DEF UpdateGet, Exists, Begin, Goto, TypeOK, tableVars, pageVars
  <2>2. id[c] # None
    BY <2>1, UserAssumption
  <2>3. shown[c] # None /\ rows[id[c]].password.encodings = 1
    BY <2>1, <2>2, <1>0 DEF IInv, PasswordEncodedOnce, Exists
  <2>4. <<name, password>> # None /\ password \in Typed \cup {shown[c].password}
    <3>1. password \in Password
      BY <2>3 DEF Entered, Typed, Password, IInv, TypeOK, Row
    <3> QED
      BY <2>3, <3>1, UserAssumption DEF Entered
  <2>5. Page(c)'
    BY <2>1, <1>0 DEF Page, Behind
  <2>6. Request(c)'
    BY <2>1, <2>3, <1>0 DEF Request, Page, Behind
  <2>7. Fields(c)'
    BY <2>1, <2>4 DEF Fields, Typed
  <2> QED
    BY <2>1, <2>3, <2>5, <2>6, <2>7
<1>3. ASSUME UpdateStale(c) \/ UpdateInvalid(c)
      PROVE  /\ (Page(c) /\ Request(c) /\ Fields(c))'
             /\ id'[c] # None => shown'[c] # None
  <2>1. /\ pc[c] = "check" /\ rows' = rows /\ used' = used
        /\ pc'[c] = "idle" /\ shown'[c] = loaded[c] /\ id' = id
    BY <1>3, <1>0 DEF UpdateStale, UpdateInvalid, Render, Finish, Goto, TypeOK, tableVars
  <2>2. Page(c)'
    BY <2>1, <1>0 DEF Page, Request, Behind
  <2> QED
    BY <2>1, <2>2, <1>0 DEF Request, Fields
<1>4. ASSUME UpdateValid(c)
      PROVE  /\ (Page(c) /\ Request(c) /\ Fields(c))'
             /\ id'[c] # None => shown'[c] # None
  <2>1. /\ pc[c] = "check" /\ pc'[c] = "flush" /\ rows' = rows /\ used' = used
        /\ shown' = shown /\ id' = id /\ params' = params /\ loaded' = loaded
        /\ loaded[c].version <= shown[c].version
    BY <1>4, <1>0 DEF UpdateValid, Goto, TypeOK, tableVars, pageVars
  <2>2. loaded[c] = shown[c]
    <3>1. loaded[c].version \in Nat /\ shown[c].version \in Nat
      BY <2>1, <1>0 DEF Request, TypeOK, Row
    <3> QED
      BY <2>1, <3>1, <1>0 DEF Request
  <2>3. Page(c)'
    BY <2>1, <1>0 DEF Page, Behind
  <2>4. Request(c)'
    BY <2>1, <2>2, <1>0 DEF Request, Behind
  <2>5. Fields(c)'
    BY <2>1, <1>0 DEF Fields, Typed
  <2> QED
    BY <2>1, <2>3, <2>4, <2>5, <1>0
<1>5. ASSUME UpdateFlush(c) \/ UpdateNothing(c) \/ DeleteFlush(c)
             \/ \E u \in User : SaveInsert(c, u)
      PROVE  /\ (Page(c) /\ Request(c) /\ Fields(c))'
             /\ id'[c] # None => shown'[c] # None
  <2>1. pc'[c] = "idle" /\ shown' = shown /\ id' = id
    BY <1>5, <1>0 DEF UpdateFlush, UpdateNothing, DeleteFlush, SaveInsert, Finish, Goto,
                      TypeOK, pageVars
  <2>2. Page(c)'
    BY <2>1, <1>0, <1>1 DEF Page, TypeOK
  <2> QED
    BY <2>1, <2>2, <1>0 DEF Request, Fields
<1>6. ASSUME DeleteGet(c)
      PROVE  /\ (Page(c) /\ Request(c) /\ Fields(c))'
             /\ id'[c] # None => shown'[c] # None
  <2>1. /\ id[c] \in User /\ rows[id[c]] # None /\ rows' = rows /\ used' = used
        /\ pc'[c] = "delete" /\ loaded'[c] = rows[id[c]] /\ shown' = shown /\ id' = id
    BY <1>6, <1>0 DEF DeleteGet, Exists, Begin, Goto, TypeOK, tableVars, pageVars
  <2>2. id[c] # None
    BY <2>1, UserAssumption
  <2>3. shown[c] # None /\ rows[id[c]].password.encodings = 1
    BY <2>1, <2>2, <1>0 DEF IInv, PasswordEncodedOnce, Exists
  <2>4. Page(c)'
    BY <2>1, <1>0 DEF Page, Behind
  <2>5. Request(c)'
    BY <2>1, <2>3, <1>0 DEF Request, Page, Behind
  <2> QED
    BY <2>1, <2>3, <2>4, <2>5 DEF Fields
<1>7. ASSUME NEW name \in Name, NEW password \in Typed, SaveValid(c, name, password)
      PROVE  /\ (Page(c) /\ Request(c) /\ Fields(c))'
             /\ id'[c] # None => shown'[c] # None
  <2>1. /\ pc'[c] = "insert" /\ params'[c] = <<name, password>>
        /\ rows' = rows /\ used' = used /\ shown' = shown /\ id' = id
    BY <1>7, <1>0 DEF SaveValid, Begin, Goto, TypeOK, tableVars, pageVars
  <2>2. <<name, password>> # None
    BY UserAssumption DEF Typed, Password
  <2>3. Page(c)'
    BY <2>1, <1>0 DEF Page, Behind
  <2>4. Fields(c)'
    BY <2>1, <2>2 DEF Fields, Typed
  <2> QED
    BY <2>1, <2>3, <2>4, <1>0 DEF Request
<1>8. ASSUME NEW u \in User, Edit(c, u)
      PROVE  /\ (Page(c) /\ Request(c) /\ Fields(c))'
             /\ id'[c] # None => shown'[c] # None
  <2>1. /\ rows[u] # None /\ rows' = rows /\ used' = used /\ pc[c] = "idle" /\ pc' = pc
        /\ shown'[c] = rows[u] /\ id'[c] = u
    BY <1>8, <1>0 DEF Edit, Exists, TypeOK, tableVars
  <2>2. u \in used /\ rows[u].password.encodings = 1
    BY <2>1 DEF IInv, IdsHandedOut, PasswordEncodedOnce, Exists
  <2>3. Page(c)'
    BY <2>1, <2>2 DEF Page, Behind
  <2> QED
    BY <2>1, <2>3 DEF Request, Fields
<1> QED
  BY <1>2, <1>3, <1>4, <1>5, <1>6, <1>7, <1>8 DEF Update, Save, Delete

\* The invariant holds at first ...
LEMMA InvariantInit == Init => IInv
<1> SUFFICES ASSUME Init PROVE IInv
  OBVIOUS
<1>0. Seeded \subseteq User /\ None \notin User
  BY UserAssumption
<1>1. \A p \in Typed : Encoded(p) \in Password /\ Encoded(p).encodings = 1
  BY DEF Typed, Encoded, Password
<1>2. SeedRow \subseteq Row /\ \A row \in SeedRow : row.password.encodings = 1
  BY <1>1 DEF SeedRow, Row
<1>3. TypeOK
  BY <1>0, <1>2 DEF Init, TypeOK, Steps
<1>4. IdsHandedOut /\ PasswordEncodedOnce
  BY <1>2 DEF Init, IdsHandedOut, PasswordEncodedOnce, Exists
<1>5. \A c \in Client : Page(c) /\ Request(c) /\ Fields(c) /\ id[c] = None
  BY DEF Init, Page, Request, Fields
<1> QED
  BY <1>3, <1>4, <1>5 DEF IInv

\* ... and after every step.
LEMMA InvariantStep ==
  ASSUME IInv, [Next]_vars
  PROVE  IInv'
<1>1. TypeOK' /\ Advances
  BY TypeStep, TableStep
<1>2. (IdsHandedOut /\ PasswordEncodedOnce)'
  BY <1>1 DEF Advances, IdsHandedOut, PasswordEncodedOnce, Exists
<1>3. ASSUME NEW d \in Client
      PROVE  /\ (Page(d) /\ Request(d) /\ Fields(d))'
             /\ id'[d] # None => shown'[d] # None
  <2>1. CASE Own(d)' = Own(d)
    BY <2>1, <1>1, OthersKeep DEF Own, IInv
  <2>2. CASE Own(d)' # Own(d)
    <3>1. PICK c \in Client : Update(c) \/ Save(c) \/ Delete(c) \/ \E u \in User : Edit(c, u)
      BY <2>2 DEF Next, vars, Own
    <3>2. c = d
      BY <3>1, <2>2, LocalSteps DEF LocalTo, IInv
    <3> QED
      BY <3>1, <3>2, <1>1, OwnStep
  <2> QED
    BY <2>1, <2>2
<1> QED
  BY <1>1, <1>2, <1>3 DEF IInv

---------------------------------------------------------------------------
(* The theorems.                                                           *)

\* Whatever browsers edit, submit again, create and delete, every password in
\* the table is a typed one encoded exactly once.
THEOREM PasswordTheorem == Spec => []PasswordEncodedOnce
<1>1. IInv => PasswordEncodedOnce
  BY DEF IInv
<1> QED
  BY <1>1, InvariantInit, InvariantStep, PTL DEF Spec

\* An update replaces exactly the row that its author's page showed.
LEMMA UpdateReplacesShown ==
  ASSUME IInv, [Next]_vars, NEW u \in User, Exists(u), rows'[u] \notin {None, rows[u]}
  PROVE  \E c \in Client : /\ authors'[u] = Append(authors[u], c)
                           /\ id[c] = u
                           /\ shown[c] = rows[u]
<1>1. PICK c \in Client : Update(c) \/ Save(c) \/ Delete(c) \/ \E v \in User : Edit(c, v)
  BY DEF Next, vars
<1>2. rows' # rows
  OBVIOUS
<1>3. CASE UpdateFlush(c)
  <2>1. /\ id[c] = u /\ pc[c] = "flush" /\ rows[u].version = loaded[c].version
        /\ authors'[u] = Append(authors[u], c)
    BY <1>3 DEF UpdateFlush, Current, Exists, IInv, TypeOK
  <2>2. loaded[c] = shown[c] /\ Behind(loaded[c], u) /\ loaded[c] \in Row
    BY <2>1 DEF IInv, Request, TypeOK
  <2>3. rows[u].version \in Nat /\ ~ loaded[c].version < rows[u].version
    BY <2>1, <2>2 DEF Exists, IInv, TypeOK, Row
  <2> QED
    BY <2>1, <2>2, <2>3 DEF Behind, Exists
<1>4. CASE DeleteFlush(c)
  BY <1>4 DEF DeleteFlush, IInv, TypeOK
<1>5. ASSUME NEW v \in User, SaveInsert(c, v)
      PROVE  FALSE
  BY <1>5, <1>2 DEF SaveInsert, IInv, TypeOK, IdsHandedOut, Exists
<1> QED
  BY <1>1, <1>2, <1>3, <1>4, <1>5
  DEF Update, Save, Delete, UpdateGet, UpdateStale, UpdateInvalid, UpdateValid,
      UpdateNothing, DeleteGet, SaveValid, Edit, tableVars

\* No update is lost: none replaces a row that its author has not seen.
THEOREM UpdateTheorem == Spec => NoLostUpdate
<1>1. IInv /\ [Next]_vars =>
        [\A u \in User :
           Exists(u) /\ rows'[u] \notin {None, rows[u]} =>
             \E c \in Client : /\ authors'[u] = Append(authors[u], c)
                               /\ id[c] = u
                               /\ shown[c] = rows[u]]_vars
  BY UpdateReplacesShown
<1> QED
  BY <1>1, InvariantInit, InvariantStep, PTL DEF Spec, NoLostUpdate
=============================================================================
