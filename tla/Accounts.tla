------------------------------- MODULE Accounts -------------------------------
(* The table of accounts, as registration, the profile page and the         *)
(* administrator's pages write it: a request reads a row, looks for the new *)
(* name and address among the others, and commits later what its form       *)
(* changes, while other requests do the same.                               *)
EXTENDS Naturals

CONSTANTS
    Request,
    Name, Mail, Password,
    None,
    MaxId,         \* bounds of the runs: ids, requests
    MaxServed

VARIABLES
    account,    \* the users table: id -> row
    request,    \* per request: where it is, what it has read, what it is to write
    writer,     \* the request that holds the write lock, or None
    served      \* history: requests so far

vars == <<account, request, writer, served>>

Column == {"name", "mail", "password", "admin"}
Row    == [name : Name, mail : Mail, password : Password, admin : BOOLEAN]

\* Where there is no row, or nothing to write.
Blank == [c \in Column |-> None]
Idle  == [phase |-> "idle", kind |-> "none", id |-> 0, read |-> Blank, form |-> Blank,
          notify |-> FALSE, told |-> {}]

\* The first account comes from the command line.
Init == /\ \E row \in Row : row.admin /\ account = [i \in {1} |-> row]
        /\ request = [r \in Request |-> Idle]
        /\ writer = None
        /\ served = 0

-----------------------------------------------------------------------------
(* A request arrives; its form may hold anything its page lets one fill in.  *)

Start(r, kind, phase, i, read, form, notify) ==
    /\ request[r].phase = "idle" /\ served < MaxServed
    /\ request' = [request EXCEPT ![r] =
                      [phase |-> phase, kind |-> kind, id |-> i, read |-> read, form |-> form,
                       notify |-> notify,
                       told |-> IF kind = "close" /\ notify THEN {"account"} ELSE {}]]
    /\ served' = served + 1
    /\ UNCHANGED <<account, writer>>

\* register, and create_user, which may make an administrator.
Register(r) == \E form \in Row : Start(r, "register", "name", 0, Blank, form, FALSE)

EditUser(r, i) == \E form \in Row : Start(r, "edit", "name", i, account[i], form, FALSE)

\* profile: no lookup.  A wrong current password ends the request here, with all
\* it has assigned.
Profile(r, i) ==
    \E mail \in Mail, password \in Password, notify \in BOOLEAN :
       Start(r, "profile", "write", i, account[i],
             [account[i] EXCEPT !.mail = mail, !.password = password], notify)

\* delete_user, and delete_account, which tells the owner first.
DeleteUser(r, i)    == Start(r, "delete", "write", i, account[i], Blank, FALSE)
DeleteAccount(r, i) == \E notify \in BOOLEAN :
                          Start(r, "close", "write", i, account[i], Blank, notify)

-----------------------------------------------------------------------------
(* The lookups, one query each.                                            *)

GoesTo(r, phase) == request' = [request EXCEPT ![r].phase = phase]

Taken(q, c) == \E j \in DOMAIN account \ {q.id} : account[j][c] = q.form[c]

LookUpName(r) == /\ request[r].phase = "name"
                 /\ GoesTo(r, IF Taken(request[r], "name") THEN "failed" ELSE "mail")
                 /\ UNCHANGED <<account, writer, served>>

LookUpMail(r) == /\ request[r].phase = "mail"
                 /\ GoesTo(r, IF Taken(request[r], "mail") THEN "failed" ELSE "write")
                 /\ UNCHANGED <<account, writer, served>>

-----------------------------------------------------------------------------
(* The flush sends the statement and takes the write lock; the commit makes  *)
(* it visible.  An UPDATE names the columns that differ from what was read.  *)

Changes(q) == {c \in Column : q.form[c] # q.read[c]}

\* Mutant: every column is written.
Written_WholeRow(q) == Column

Written(q) == Changes(q)

\* SQLite gives out the first id above all others.
NewId(i) == /\ \A j \in DOMAIN account : j < i
            /\ i = 1 \/ i - 1 \in DOMAIN account

\* The ids a statement can be about.
Target(q) == IF q.kind = "register" THEN {i \in 1 .. MaxId : NewId(i)} ELSE {q.id}

Inserted(table, q) == [j \in DOMAIN table \cup {q.id} |->
                         IF j = q.id THEN q.form ELSE table[j]]
Updated(table, q)  == [table EXCEPT ![q.id] =
                          [c \in Column |-> IF c \in Written(q) THEN q.form[c] ELSE @[c]]]
Deleted(table, q)  == [j \in DOMAIN table \ {q.id} |-> table[j]]

\* The table when the statement has been executed.
After(table, q) == CASE q.kind = "register"            -> Inserted(table, q)
                     [] q.kind \in {"edit", "profile"} -> Updated(table, q)
                     [] OTHER                          -> Deleted(table, q)

\* The columns the table declares unique.
Unique(table) ==
    \A i \in DOMAIN table : \A j \in DOMAIN table \ {i} :
       table[i].name # table[j].name /\ table[i].mail # table[j].mail

\* Mutant: the columns are not unique, the lookups have to do.
Accepted_Anything(table, q) == q.kind \in {"edit", "profile"} => q.id \in DOMAIN table

\* An UPDATE that finds no row is an error.
Accepted(table, q) == /\ q.kind \in {"edit", "profile"} => q.id \in DOMAIN table
                      /\ Unique(After(table, q))

HasStatement(q) == q.kind \in {"edit", "profile"} => Changes(q) # {}

Flush(r) ==
    LET q == request[r]
    IN  /\ q.phase = "write" /\ writer = None /\ HasStatement(q)
        /\ \E i \in Target(q) :
              LET sent == [q EXCEPT !.phase = "flushed", !.id = i]
              IN  /\ Accepted(account, sent)
                  /\ request' = [request EXCEPT ![r] = sent]
        /\ writer' = r
        /\ UNCHANGED <<account, served>>

\* Nothing is written; a deletion also fails if other tables still name the account.
Refuse(r) ==
    LET q == request[r]
    IN  /\ q.phase = "write" /\ writer = None /\ HasStatement(q)
        /\ \/ \E i \in Target(q) : ~Accepted(account, [q EXCEPT !.id = i])
           \/ q.kind \in {"delete", "close"}
        /\ GoesTo(r, "failed")
        /\ UNCHANGED <<account, writer, served>>

\* What a profile tells the owner, if the form leaves the notices on.
Notices(q) == IF q.kind = "profile" /\ q.notify THEN Changes(q) \cap {"password", "mail"}
              ELSE {}

\* Mutant: the notices go out before the statement does.
MayTell_BeforeFlush(q) == q.phase \in {"write", "flushed"}

\* The mailer reads its settings first, and that query flushes.
MayTell(q) == q.phase = "flushed"

Tell(r) == /\ MayTell(request[r])
           /\ ~ Notices(request[r]) \subseteq request[r].told
           /\ request' = [request EXCEPT ![r].told = Notices(request[r])]
           /\ UNCHANGED <<account, writer, served>>

Commit(r) == /\ request[r].phase = "flushed"
             /\ Notices(request[r]) \subseteq request[r].told
             /\ account' = After(account, request[r])
             /\ writer' = None
             /\ GoesTo(r, "done")
             /\ UNCHANGED served

CommitNothing(r) == /\ request[r].phase = "write" /\ ~HasStatement(request[r])
                    /\ GoesTo(r, "done")
                    /\ UNCHANGED <<account, writer, served>>

End(r) == /\ request[r].phase \in {"done", "failed"}
          /\ request' = [request EXCEPT ![r] = Idle]
          /\ UNCHANGED <<account, writer, served>>

Next == \E r \in Request :
           \/ Register(r)
           \/ \E i \in DOMAIN account : \/ EditUser(r, i) \/ Profile(r, i)
                                        \/ DeleteUser(r, i) \/ DeleteAccount(r, i)
           \/ LookUpName(r) \/ LookUpMail(r)
           \/ Flush(r) \/ Refuse(r) \/ Tell(r) \/ Commit(r) \/ CommitNothing(r) \/ End(r)

Spec == Init /\ [][Next]_vars

-----------------------------------------------------------------------------
(* Properties.                                                             *)

\* No two accounts share a name or an address, although every request looks them
\* up in transactions of their own, or not at all (register, auth/routes.py:179-203;
\* edit_user, admin/routes.py:251-283; profile, auth/routes.py:240).
UniqueAccounts == Unique(account)

\* A commit leaves a column as another request has made it meanwhile, unless its
\* own form changes what it had read: a profile does not bring an old password, or
\* rights that were taken away, back (profile, auth/routes.py:239-262; edit_user,
\* admin/routes.py:275-283).
OnlyWhatItChanges ==
    \A i \in DOMAIN account \cap DOMAIN account' : \A c \in Column :
       account'[i][c] # account[i][c] =>
          \E r \in Request :
             /\ request[r].phase = "flushed" /\ request[r].id = i
             /\ account'[i][c] = request[r].form[c]
             /\ request[r].form[c] # request[r].read[c]

NoLostUpdate == [][OnlyWhatItChanges]_vars

\* The owner is told of no change of address or password that failed
\* (profile, auth/routes.py:257-262; send_email, integrations/email.py:106-114).
ToldIsTrue ==
    \A r \in Request : request[r].phase = "failed" => request[r].told \cap Column = {}
=============================================================================
