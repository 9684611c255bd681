--------------------------- MODULE UserController ---------------------------
(***************************************************************************)
(* User administration of crontest: browsers that edit, create and delete  *)
(* rows of the user table through UserController, whose requests run       *)
(* concurrently.  A request reads the row, compares its version with the   *)
(* one in the submitted form, validates, and flushes; the flush is         *)
(* Hibernate's INSERT, or its UPDATE or DELETE of that id and version.     *)
(* The password field of the edit page shows the stored password, which is *)
(* encoded.                                                                *)
(*                                                                         *)
(* The fields other than username and password behave like a username      *)
(* that need not be unique, and are left out.                              *)
(***************************************************************************)
EXTENDS Integers, Sequences

CONSTANTS
  Client,      \* browsers
  User,        \* the ids the database hands out, none twice (a bound)
  Seeded,      \* the users of BootStrap, who have UserAuthority rows
  Name,
  Text,        \* what people type as a password
  None,
  MaxVersion   \* bound on the version of a row

\* A password is what was typed and how often it was encoded since.
Password == [text : Text, encodings : Nat]
Row == [version : Nat, username : Name, password : Password]

ASSUME UserAssumption ==
  /\ Seeded \subseteq User
  /\ None \notin User /\ None \notin Row /\ None \notin Name \X Password
  /\ MaxVersion \in Nat

VARIABLES
  rows,     \* the user table
  used,     \* the ids handed out so far
  shown,    \* the row from which the form in each browser was rendered,
  id,       \* and its id
  pc,       \* what the browser's request is doing,
  params,   \* with which username and password,
  loaded,   \* and the row that User.get returned
  authors   \* who wrote each version of a row after its first

vars == <<rows, used, shown, id, pc, params, loaded, authors>>
tableVars == <<rows, used, authors>>
pageVars == <<shown, id>>

Typed == {[text |-> t, encodings |-> 0] : t \in Text}

\* springSecurityService.encodePassword, which uses no salt
Encoded(password) == [password EXCEPT !.encodings = @ + 1]

Exists(u) == u \in User /\ rows[u] # None

\* Somebody else has this username.
Taken(u, name) == \E v \in User \ {u} : Exists(v) /\ rows[v].username = name

\* BootStrap has created its users, whose passwords beforeInsert encoded.
SeedRow == [version : {0}, username : Name, password : {Encoded(p) : p \in Typed}]

Init ==
  /\ rows \in [User -> SeedRow \cup {None}]
  /\ \A u \in User : rows[u] # None <=> u \in Seeded
  /\ \A u \in Seeded : ~Taken(u, rows[u].username)
  /\ used = Seeded
  /\ shown = [c \in Client |-> None]
  /\ id = [c \in Client |-> None]
  /\ pc = [c \in Client |-> "idle"]
  /\ params = [c \in Client |-> None]
  /\ loaded = [c \in Client |-> None]
  /\ authors = [u \in User |-> << >>]

---------------------------------------------------------------------------
Goto(c, step) == pc' = [pc EXCEPT ![c] = step]

\* A request starts with the fields submitted and the row found; the page of
\* the one before is gone.
Begin(c, step, fields, row) ==
  /\ pc[c] = "idle"
  /\ Goto(c, step)
  /\ params' = [params EXCEPT ![c] = fields]
  /\ loaded' = [loaded EXCEPT ![c] = row]

\* A request is answered.
Finish(c) ==
  /\ Goto(c, "idle")
  /\ params' = [params EXCEPT ![c] = None]
  /\ loaded' = [loaded EXCEPT ![c] = None]

\* The answer of a request is the edit page of the row it has loaded.
Render(c, row) ==
  /\ shown' = [shown EXCEPT ![c] = row]
  /\ UNCHANGED id

\* edit: the form of an existing user.
Edit(c, u) ==
  /\ pc[c] = "idle"
  /\ Exists(u)
  /\ shown' = [shown EXCEPT ![c] = rows[u]]
  /\ id' = [id EXCEPT ![c] = u]
  /\ UNCHANGED <<tableVars, pc, params, loaded>>

\* update: the form is submitted, for the first time or, from the browser's
\* history, once more; User.get finds the row.
UpdateGet(c, name, password) ==
  /\ Exists(id[c]) /\ rows[id[c]].version < MaxVersion
  /\ Begin(c, "check", <<name, password>>, rows[id[c]])
  /\ UNCHANGED <<tableVars, pageVars>>

\* ... is newer than the form: "Another user has updated this User while you
\* were editing", over the form of the newer row.
UpdateStale(c) ==
  /\ pc[c] = "check"
  /\ loaded[c].version > shown[c].version
  /\ Render(c, loaded[c])
  /\ Finish(c)
  /\ UNCHANGED tableVars

\* ... or save() finds the username taken: the form again, with its contents.
UpdateInvalid(c) ==
  /\ pc[c] = "check"
  /\ loaded[c].version <= shown[c].version
  /\ Taken(id[c], params[c][1])
  /\ Render(c, loaded[c])
  /\ Finish(c)
  /\ UNCHANGED tableVars

\* Mutant: the version of the form is not looked at.
UpdateValidUnchecked(c) ==
  /\ pc[c] = "check"
  /\ ~Taken(id[c], params[c][1])
  /\ Goto(c, "flush")
  /\ UNCHANGED <<tableVars, pageVars, params, loaded>>

\* ... or it is valid.
UpdateValid(c) ==
  /\ pc[c] = "check"
  /\ loaded[c].version <= shown[c].version
  /\ ~Taken(id[c], params[c][1])
  /\ Goto(c, "flush")
  /\ UNCHANGED <<tableVars, pageVars, params, loaded>>

\* Hibernate's UPDATE or DELETE meets the row that was loaded.
Current(c) == Exists(id[c]) /\ rows[id[c]].version = loaded[c].version

\* beforeUpdate encodes the password when it is dirty.
Updated(c) ==
  [version |-> loaded[c].version + 1,
   username |-> params[c][1],
   password |-> IF params[c][2] # loaded[c].password THEN Encoded(params[c][2])
                                                     ELSE params[c][2]]

\* Mutant: the UPDATE does not look for the version.
UpdateFlushUnversioned(c) ==
  /\ pc[c] = "flush"
  /\ Exists(id[c]) /\ ~Taken(id[c], params[c][1])
  /\ rows' = [rows EXCEPT ![id[c]] =
                [Updated(c) EXCEPT !.version = rows[id[c]].version + 1]]
  /\ authors' = [authors EXCEPT ![id[c]] = Append(@, c)]
  /\ Finish(c)
  /\ UNCHANGED <<used, pageVars>>

\* The flush writes the row, one version on ...
UpdateFlush(c) ==
  /\ pc[c] = "flush"
  /\ Current(c) /\ ~Taken(id[c], params[c][1])
  /\ params[c] # <<loaded[c].username, loaded[c].password>>
  /\ rows' = [rows EXCEPT ![id[c]] = Updated(c)]
  /\ authors' = [authors EXCEPT ![id[c]] = Append(@, c)]
  /\ Finish(c)
  /\ UNCHANGED <<used, pageVars>>

\* ... or has nothing to write, or fails: the row has changed or vanished, or
\* the unique index refuses the username.  The exceptions go to the error page.
UpdateNothing(c) ==
  /\ pc[c] = "flush"
  /\ \/ params[c] = <<loaded[c].username, loaded[c].password>>
     \/ ~Current(c)
     \/ Taken(id[c], params[c][1])
  /\ Finish(c)
  /\ UNCHANGED <<tableVars, pageVars>>

\* delete, from the page of a user: User.get finds the row.
DeleteGet(c) ==
  /\ Exists(id[c])
  /\ Begin(c, "delete", None, rows[id[c]])
  /\ UNCHANGED <<tableVars, pageVars>>

\* The DELETE, if the row is still there and no UserAuthority refers to it.
DeleteFlush(c) ==
  /\ pc[c] = "delete"
  /\ rows' = IF Current(c) /\ id[c] \notin Seeded
               THEN [rows EXCEPT ![id[c]] = None] ELSE rows
  /\ Finish(c)
  /\ UNCHANGED <<used, authors, pageVars>>

\* save: the new user is valid ...  That takes a userRealName, for which the
\* create page has no field.
SaveValid(c, name, password) ==
  /\ ~Taken(None, name)
  /\ Begin(c, "insert", <<name, password>>, None)
  /\ UNCHANGED <<tableVars, pageVars>>

\* ... and is inserted with an encoded password, unless the unique index
\* refuses the username by now.
SaveInsert(c, u) ==
  /\ pc[c] = "insert"
  /\ \/ /\ ~Taken(None, params[c][1])
        /\ u \notin used
        /\ rows' = [rows EXCEPT ![u] = [version |-> 0, username |-> params[c][1],
                                        password |-> Encoded(params[c][2])]]
        /\ used' = used \cup {u}
     \/ /\ Taken(None, params[c][1]) \/ used = User
        /\ UNCHANGED <<rows, used>>
  /\ Finish(c)
  /\ UNCHANGED <<authors, pageVars>>

\* The passwords that a form is submitted with: the one it shows or a new one.
Entered(c) == IF shown[c] = None THEN {} ELSE Typed \cup {shown[c].password}

Update(c) ==
  \/ \E name \in Name, password \in Entered(c) : UpdateGet(c, name, password)
  \/ UpdateStale(c) \/ UpdateInvalid(c) \/ UpdateValid(c)
  \/ UpdateFlush(c) \/ UpdateNothing(c)

Delete(c) == DeleteGet(c) \/ DeleteFlush(c)

Save(c) ==
  \/ \E name \in Name, password \in Typed : SaveValid(c, name, password)
  \/ \E u \in User : SaveInsert(c, u)

Next ==
  \E c \in Client : Update(c) \/ Save(c) \/ Delete(c) \/ \E u \in User : Edit(c, u)

Spec == Init /\ [][Next]_vars

---------------------------------------------------------------------------
(* Properties.                                                             *)

\* What is stored is a typed password encoded exactly once.  The edit form
\* carries the encoded password, and beforeUpdate encodes whatever differs from
\* the row, so a form older than the row would have it encoded a second time,
\* and its user locked out.
PasswordEncodedOnce ==
  \A u \in User : Exists(u) => rows[u].password.encodings = 1

\* Nobody overwrites what they have not seen: an update replaces exactly the
\* row from which its author's form was rendered, whoever else was editing,
\* deleting or submitting an old form again in the meantime.
NoLostUpdate ==
  [][\A u \in User :
       Exists(u) /\ rows'[u] \notin {None, rows[u]} =>
         \E c \in Client : /\ authors'[u] = Append(authors[u], c)
                           /\ id[c] = u
                           /\ shown[c] = rows[u]]_vars
===========================================================================
