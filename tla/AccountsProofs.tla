---------------------------- MODULE AccountsProofs ----------------------------
(* Theorems about Accounts and PatreonLink, for any number of accounts and of *)
(* requests at once, and about Login, for any number of threads, names and   *)
(* addresses, any limit and any window.                                     *)
EXTENDS Web, FiniteSetTheorems, TLAPS

-----------------------------------------------------------------------------
(* The inductive invariant.  What a request has flushed is still right when  *)
(* it commits, because nobody else can have written in between.             *)

IsRequest(q) ==
    DOMAIN q = {"phase", "kind", "id", "read", "form", "notify", "told"}

Typed == DOMAIN request = Thread /\ \A r \in Thread : IsRequest(request[r])

\* A statement that has been executed: its outcome is legal, and an INSERT has a
\* new id.
Executed(table, q) == /\ People!Accepted(table, q)
                      /\ q.kind = "register" => q.id \notin DOMAIN table

LockHeld == \A r \in Thread : request[r].phase = "flushed" =>
               writer = r /\ Executed(account, request[r])

\* The owner hears of a change only when it has been executed.
ToldLate == \A r \in Thread :
               request[r].phase \notin {"flushed", "done"} => request[r].told \cap People!Column = {}

IInv == Typed /\ LockHeld /\ People!UniqueAccounts /\ ToldLate

-----------------------------------------------------------------------------
(* Steps that write nothing.                                               *)

\* What a request will write depends on its statement alone.
LEMMA SameStatement ==
    ASSUME NEW table, NEW q, NEW s, s.kind = q.kind, s.id = q.id, s.form = q.form,
           s.read = q.read, Executed(table, q)
    PROVE  Executed(table, s)
<1>1. People!Written(s) = People!Written(q)
  BY DEF People!Written, People!Changes
<1>2. /\ People!Inserted(table, s) = People!Inserted(table, q)
      /\ People!Updated(table, s) = People!Updated(table, q)
      /\ People!Deleted(table, s) = People!Deleted(table, q)
  BY <1>1 DEF People!Inserted, People!Updated, People!Deleted
<1>3. People!After(table, s) = People!After(table, q)
  BY <1>2 DEF People!After
<1> QED
  BY <1>3 DEF Executed, People!Accepted

\* A request that has written nothing goes on, or ends.
LEMMA QuietStep ==
    ASSUME IInv, NEW r \in Thread,
           DOMAIN request' = Thread, IsRequest(request'[r]),
           \A s \in Thread \ {r} : request'[s] = request[s],
           request'[r].phase # "flushed",
           request'[r].phase # "done" => request'[r].told \cap People!Column = {},
           UNCHANGED <<account, writer>>
    PROVE  IInv'
<1>1. Typed'
  BY DEF IInv, Typed
<1>2. LockHeld'
  BY DEF IInv, LockHeld
<1>3. People!UniqueAccounts'
  BY DEF IInv, People!UniqueAccounts, People!Unique
<1>4. ToldLate'
  BY DEF IInv, ToldLate
<1> QED
  BY <1>1, <1>2, <1>3, <1>4 DEF IInv

LEMMA StartStep ==
    ASSUME IInv, NEW r \in Thread, NEW kind, NEW phase \in {"name", "write"}, NEW i,
           NEW read, NEW form, NEW notify, People!Start(r, kind, phase, i, read, form, notify)
    PROVE  IInv'
<1> DEFINE new == [phase |-> phase, kind |-> kind, id |-> i, read |-> read, form |-> form,
                   notify |-> notify,
                   told |-> IF kind = "close" /\ notify THEN {"account"} ELSE {}]
<1>1. IsRequest(new) /\ new.phase = phase /\ new.told \subseteq {"account"}
  BY DEF IsRequest
<1>2. request' = [request EXCEPT ![r] = new] /\ UNCHANGED <<account, writer>>
  BY DEF People!Start
<1> HIDE DEF new
<1>3. /\ DOMAIN request' = Thread /\ request'[r] = new
      /\ \A s \in Thread \ {r} : request'[s] = request[s]
  BY <1>2 DEF IInv, Typed
<1>4. new.told \cap People!Column = {}
  BY <1>1 DEF People!Column
<1> QED
  BY <1>1, <1>2, <1>3, <1>4, QuietStep

LEMMA GoesToStep ==
    ASSUME IInv, NEW r \in Thread, NEW phase, People!GoesTo(r, phase), UNCHANGED <<account, writer>>,
           request[r].phase \notin {"flushed", "done"}, phase # "flushed"
    PROVE  IInv'
<1>1. /\ DOMAIN request' = Thread /\ IsRequest(request'[r])
      /\ request'[r].phase = phase /\ request'[r].told = request[r].told
      /\ \A s \in Thread \ {r} : request'[s] = request[s]
  BY DEF IInv, Typed, IsRequest, People!GoesTo
<1>2. request[r].told \cap People!Column = {}
  BY DEF IInv, ToldLate
<1> QED
  BY <1>1, <1>2, QuietStep

LEMMA EndStep ==
    ASSUME IInv, NEW r \in Thread, People!End(r)
    PROVE  IInv'
<1>1. IsRequest(People!Idle) /\ People!Idle.phase = "idle" /\ People!Idle.told = {}
  BY DEF People!Idle, IsRequest
<1>2. /\ DOMAIN request' = Thread /\ request'[r] = People!Idle
      /\ \A s \in Thread \ {r} : request'[s] = request[s]
      /\ UNCHANGED <<account, writer>>
  BY DEF IInv, Typed, People!End
<1> QED
  BY <1>1, <1>2, QuietStep

-----------------------------------------------------------------------------
(* The write.                                                              *)

LEMMA FlushStep ==
    ASSUME IInv, NEW r \in Thread, People!Flush(r)
    PROVE  IInv'
<1>1. PICK q : q = request[r]
  OBVIOUS
<1>2. /\ q.phase = "write" /\ writer = None /\ writer' = r /\ account' = account
      /\ IsRequest(q)
  BY <1>1 DEF People!Flush, IInv, Typed
<1>3. PICK i \in People!Target(q) :
         /\ People!Accepted(account, [q EXCEPT !.phase = "flushed", !.id = i])
         /\ request' = [request EXCEPT ![r] = [q EXCEPT !.phase = "flushed", !.id = i]]
  BY <1>1 DEF People!Flush
<1>4. PICK sent : sent = [q EXCEPT !.phase = "flushed", !.id = i]
  OBVIOUS
<1>5. /\ IsRequest(sent) /\ sent.phase = "flushed" /\ sent.id = i /\ sent.kind = q.kind
      /\ sent.told = q.told
  BY <1>2, <1>4 DEF IsRequest
<1>6. /\ DOMAIN request' = Thread /\ request'[r] = sent
      /\ \A s \in Thread \ {r} : request'[s] = request[s]
  BY <1>3, <1>4 DEF IInv, Typed
<1>7. Executed(account, sent)
  <2>1. q.kind = "register" => i \notin DOMAIN account
    BY DEF People!Target, People!NewId
  <2> QED
    BY <1>3, <1>4, <1>5, <2>1 DEF Executed
<1>8. Executed(account', request'[r])
  BY <1>2, <1>6, <1>7
<1>9. \A s \in Thread : request[s].phase # "flushed"
  BY <1>2, PeopleAssumption DEF IInv, LockHeld
<1>10. Typed'
  BY <1>5, <1>6 DEF IInv, Typed
<1>11. LockHeld'
  BY <1>2, <1>6, <1>8, <1>9 DEF LockHeld
<1>12. People!UniqueAccounts'
  BY <1>2 DEF IInv, People!UniqueAccounts, People!Unique
<1>13. ToldLate'
  BY <1>5, <1>6 DEF IInv, ToldLate
<1> QED
  BY <1>10, <1>11, <1>12, <1>13 DEF IInv

LEMMA TellStep ==
    ASSUME IInv, NEW r \in Thread, People!Tell(r)
    PROVE  IInv'
<1>1. /\ request[r].phase = "flushed"
      /\ request' = [request EXCEPT ![r].told = People!Notices(request[r])]
      /\ UNCHANGED <<account, writer>>
  BY DEF People!Tell, People!MayTell
<1>2. /\ DOMAIN request' = Thread /\ IsRequest(request'[r])
      /\ request'[r].phase = "flushed" /\ request'[r].kind = request[r].kind
      /\ request'[r].id = request[r].id /\ request'[r].form = request[r].form
      /\ request'[r].read = request[r].read
      /\ \A s \in Thread \ {r} : request'[s] = request[s]
  BY <1>1 DEF IInv, Typed, IsRequest
<1>3. PICK q : q = request'[r]
  OBVIOUS
<1>4. Executed(account, q)
  BY <1>1, <1>2, <1>3, SameStatement DEF IInv, LockHeld
<1>5. Executed(account', request'[r])
  BY <1>1, <1>3, <1>4
<1>6. \A s \in Thread \ {r} : request[s].phase = "flushed" => FALSE
  BY <1>1 DEF IInv, LockHeld
<1>7. Typed'
  BY <1>2 DEF IInv, Typed
<1>8. LockHeld'
  BY <1>1, <1>2, <1>5, <1>6 DEF IInv, LockHeld
<1>9. People!UniqueAccounts'
  BY <1>1 DEF IInv, People!UniqueAccounts, People!Unique
<1>10. ToldLate'
  BY <1>2 DEF IInv, ToldLate
<1> QED
  BY <1>7, <1>8, <1>9, <1>10 DEF IInv

LEMMA CommitStep ==
    ASSUME IInv, NEW r \in Thread, People!Commit(r)
    PROVE  IInv'
<1>1. /\ request[r].phase = "flushed" /\ account' = People!After(account, request[r])
      /\ request' = [request EXCEPT ![r].phase = "done"]
  BY DEF People!Commit, People!GoesTo
<1>2. /\ DOMAIN request' = Thread /\ IsRequest(request'[r]) /\ request'[r].phase = "done"
      /\ \A s \in Thread \ {r} : request'[s] = request[s]
  BY <1>1 DEF IInv, Typed, IsRequest
<1>3. \A s \in Thread \ {r} : request[s].phase # "flushed"
  BY <1>1 DEF IInv, LockHeld
<1>4. Typed'
  BY <1>2 DEF IInv, Typed
<1>5. LockHeld'
  BY <1>2, <1>3 DEF LockHeld
<1>6. People!UniqueAccounts'
  <2>1. People!Unique(People!After(account, request[r]))
    BY <1>1 DEF IInv, LockHeld, Executed, People!Accepted
  <2> QED
    BY <1>1, <2>1 DEF People!UniqueAccounts, People!Unique
<1>7. ToldLate'
  BY <1>2 DEF IInv, ToldLate
<1> QED
  BY <1>4, <1>5, <1>6, <1>7 DEF IInv

-----------------------------------------------------------------------------
(* The theorems.                                                           *)

LEMMA InitIInv == People!Init => IInv
<1> SUFFICES ASSUME People!Init
             PROVE  IInv
  OBVIOUS
<1>1. IsRequest(People!Idle) /\ People!Idle.phase = "idle" /\ People!Idle.told = {}
  BY DEF People!Idle, IsRequest
<1>2. DOMAIN request = Thread /\ \A r \in Thread : request[r] = People!Idle
  BY DEF People!Init
<1>3. People!UniqueAccounts
  BY DEF People!Init, People!UniqueAccounts, People!Unique
<1> QED
  BY <1>1, <1>2, <1>3 DEF IInv, Typed, LockHeld, ToldLate

LEMMA StepIInv ==
    ASSUME IInv, [People!Next]_People!vars
    PROVE  IInv'
<1>1. CASE UNCHANGED People!vars
  BY <1>1 DEF People!vars, IInv, Typed, LockHeld, People!UniqueAccounts, ToldLate
<1>2. ASSUME NEW r \in Thread, People!Register(r)
      PROVE  IInv'
  BY <1>2, StartStep DEF People!Register
<1>3. ASSUME NEW r \in Thread, NEW i \in DOMAIN account,
             \/ People!EditUser(r, i) \/ People!Profile(r, i)
             \/ People!DeleteUser(r, i) \/ People!DeleteAccount(r, i)
      PROVE  IInv'
  BY <1>3, StartStep DEF People!EditUser, People!Profile, People!DeleteUser,
     People!DeleteAccount
<1>4. ASSUME NEW r \in Thread,
             People!LookUpName(r) \/ People!LookUpMail(r) \/ People!Refuse(r) \/ People!CommitNothing(r)
      PROVE  IInv'
  <2>1. PICK phase \in {"failed", "mail", "write", "done"} : People!GoesTo(r, phase)
    BY <1>4 DEF People!LookUpName, People!LookUpMail, People!Refuse, People!CommitNothing
  <2>2. /\ UNCHANGED <<account, writer>>
        /\ request[r].phase \notin {"flushed", "done"}
    BY <1>4 DEF People!LookUpName, People!LookUpMail, People!Refuse, People!CommitNothing
  <2> QED
    BY <2>1, <2>2, GoesToStep
<1>5. ASSUME NEW r \in Thread, People!Flush(r) \/ People!Tell(r) \/ People!Commit(r) \/ People!End(r)
      PROVE  IInv'
  BY <1>5, FlushStep, TellStep, CommitStep, EndStep
<1> QED
  BY <1>1, <1>2, <1>3, <1>4, <1>5 DEF People!Next

\* The part of Web that Accounts is.
LEMMA PeopleStart == Init /\ part = "people" => People!Init
  BY DEF Init

LEMMA PeopleStep ==
    ASSUME [Next]_allVars, part = "people"
    PROVE  part' = "people" /\ [People!Next]_People!vars
  BY DEF Next, allVars, peopleVars, People!vars

\* The inductive invariant holds in every behaviour.
THEOREM AccountsInvariant == Spec => [](part = "people" => IInv)
<1> DEFINE Inv == part = "people" => IInv
<1>1. Init => Inv
  BY InitIInv, PeopleStart
<1>2. Inv /\ [Next]_allVars => Inv'
  <2>1. [Next]_allVars => part' = part
    BY DEF Next, allVars
  <2> QED
    BY <2>1, StepIInv, PeopleStep
<1> QED
  BY <1>1, <1>2, PTL DEF Spec

\* No two accounts share a name or an address (register, edit_user, profile).
THEOREM UniqueAccountsHolds == Spec => []UniqueAccounts
<1>1. (part = "people" => IInv) => UniqueAccounts
  BY DEF IInv, UniqueAccounts
<1> QED
  BY <1>1, AccountsInvariant, PTL

\* The owner is told of no change that failed (profile, send_email).
THEOREM ToldIsTrueHolds == Spec => []ToldIsTrue
<1>1. (part = "people" => IInv) => ToldIsTrue
  BY DEF IInv, ToldLate, ToldIsTrue, People!ToldIsTrue
<1> QED
  BY <1>1, AccountsInvariant, PTL

LEMMA OnlyCommitWrites ==
    ASSUME NEW r \in Thread,
           \/ People!Register(r)
           \/ \E i \in DOMAIN account : \/ People!EditUser(r, i) \/ People!Profile(r, i)
                                        \/ People!DeleteUser(r, i) \/ People!DeleteAccount(r, i)
           \/ People!LookUpName(r) \/ People!LookUpMail(r)
           \/ People!Flush(r) \/ People!Refuse(r) \/ People!Tell(r)
           \/ People!CommitNothing(r) \/ People!End(r)
    PROVE  account' = account
BY DEF People!Register, People!EditUser, People!Profile, People!DeleteUser,
   People!DeleteAccount, People!Start, People!LookUpName, People!LookUpMail, People!Flush,
   People!Refuse, People!Tell, People!CommitNothing, People!End

LEMMA CommitWritesChanges ==
    ASSUME IInv, NEW r \in Thread, People!Commit(r)
    PROVE  People!OnlyWhatItChanges
<1>1. PICK q : q = request[r]
  OBVIOUS
<1>2. q.phase = "flushed" /\ account' = People!After(account, q) /\ Executed(account, q)
  BY <1>1 DEF People!Commit, IInv, LockHeld
<1> SUFFICES ASSUME NEW i \in DOMAIN account \cap DOMAIN account', NEW c \in People!Column,
                    account'[i][c] # account[i][c]
             PROVE  q.id = i /\ account'[i][c] = q.form[c] /\ q.form[c] # q.read[c]
  BY <1>1, <1>2 DEF People!OnlyWhatItChanges
<1>3. CASE q.kind = "register"
  BY <1>2, <1>3 DEF People!After, People!Inserted, Executed
<1>4. CASE q.kind \in {"edit", "profile"}
  <2>1. account' = People!Updated(account, q)
    BY <1>2, <1>4 DEF People!After
  <2>2. i = q.id
    BY <2>1 DEF People!Updated
  <2>3. account'[i] = [d \in People!Column |-> IF d \in People!Written(q) THEN q.form[d] ELSE account[i][d]]
    BY <2>1, <2>2 DEF People!Updated
  <2>4. c \in People!Written(q) /\ account'[i][c] = q.form[c]
    BY <2>3
  <2> QED
    BY <2>2, <2>4 DEF People!Written, People!Changes
<1>5. CASE q.kind \notin {"register", "edit", "profile"}
  BY <1>2, <1>5 DEF People!After, People!Deleted
<1> QED
  BY <1>3, <1>4, <1>5

\* A commit changes a column only as its own form says, and only if that differs
\* from what it had read (profile, edit_user).
THEOREM NoLostUpdateHolds == Spec => NoLostUpdate
<1>1. ASSUME IInv, [People!Next]_People!vars
      PROVE  UNCHANGED peopleVars \/ People!OnlyWhatItChanges
  <2>1. CASE UNCHANGED People!vars
    BY <2>1 DEF People!vars, peopleVars
  <2>2. ASSUME NEW r \in Thread, People!Commit(r)
        PROVE  People!OnlyWhatItChanges
    BY <1>1, <2>2, CommitWritesChanges
  <2>3. CASE account' = account
    BY <2>3 DEF People!OnlyWhatItChanges
  <2> QED
    BY <1>1, <2>1, <2>2, <2>3, OnlyCommitWrites DEF People!Next
<1>2. (part = "people" => IInv) /\ [Next]_allVars
        => [part = "people" => People!OnlyWhatItChanges]_peopleVars
  BY <1>1, PeopleStep
<1> QED
  BY <1>2, AccountsInvariant, PTL DEF Spec, NoLostUpdate

-----------------------------------------------------------------------------
(* The link of an account to Patreon.  While the requests of an account have *)
(* never overlapped, one thread at most works for it, and what that thread   *)
(* has loaded is what the row still holds.                                  *)

Tokens == 0 .. Link!Issued

IsLink(r) == /\ DOMAIN r = {"id", "tier", "token", "fresh"}
             /\ r.id \in Patron \cup {None}
             /\ r.token \in Tokens

IsWork(w) == /\ DOMAIN w = {"phase", "user", "loaded", "token", "id", "tier"}
             /\ w.phase # "idle" =>
                   /\ w.user \in User /\ IsLink(w.loaded) /\ w.token \in Tokens
                   /\ w.id \in Patron \cup {None} /\ w.tier \in BOOLEAN
                   /\ w.phase \in {"callback", "profile", "link"} => w.id \in Patron

LinkTyped == /\ owner \in Seq(Patron)
             /\ alive \subseteq 1 .. Link!Issued
             /\ DOMAIN userRow = User /\ DOMAIN work = Thread
             /\ \A u \in User : IsLink(userRow[u]) /\ userRow[u].tier \in BOOLEAN
             /\ \A t \in Thread : IsWork(work[t])

Serves(t, u) == work[t].phase # "idle" /\ work[t].user = u

\* A token pair that the row of u, or a request of u, has in its hands.
Knows(u, k) == \/ userRow[u].token = k
               \/ \E t \in Thread : Serves(t, u) /\ k \in {work[t].token, work[t].loaded.token}

\* No two accounts have a pair, or a Patreon account, in common.
Apart == /\ \A u, v \in User : \A k \in 1 .. Link!Issued : Knows(u, k) /\ Knows(v, k) => u = v
         /\ \A u, v \in User : userRow[u].id # None /\ userRow[u].id = userRow[v].id => u = v

\* A row is linked wholly or not at all.
Whole(r, own) == /\ r.id = None <=> r.token = 0
                 /\ r.id = None => ~r.tier
                 /\ r.token # 0 => own[r.token] = r.id

\* What a request that is alone knows at each point of its program.
InStep(w, r, own) ==
    /\ w.loaded.id = r.id /\ w.loaded.token = r.token
    /\ w.loaded.tier = r.tier \/ w.phase \in {"members", "tier"}
    /\ w.phase \in {"sync", "refresh", "store"} => ~w.tier
    /\ w.phase = "refresh" => w.token = r.token
    /\ w.phase = "store" => w.token # 0 /\ r.token # 0 /\ own[w.token] = own[r.token]
    /\ w.phase = "members" => r.token # 0
    /\ w.phase = "tier" => (w.tier => r.id # None)
    /\ w.phase \in {"profile", "link"} => w.token # 0 /\ own[w.token] = w.id

Orderly(u) ==
    /\ \A s, t \in Thread : Serves(s, u) /\ Serves(t, u) => s = t
    /\ Whole(userRow[u], owner)
    /\ \A t \in Thread : Serves(t, u) => InStep(work[t], userRow[u], owner)

\* The pair that u has to go on with was not used.
Usable(u) ==
    /\ userRow[u].token # 0 /\ (\A t \in Thread : Serves(t, u) => work[t].phase # "store")
          => userRow[u].token \in alive
    /\ \A t \in Thread : Serves(t, u) /\ work[t].phase \in {"store", "profile", "link"}
                           => work[t].token \in alive

LinkIInv == /\ LinkTyped
            /\ Apart
            /\ \A u \in User \ mixed : Orderly(u)
            /\ \A u \in User \ (mixed \cup lost) : Usable(u)

-----------------------------------------------------------------------------
(* A step of one request concerns the account it serves alone.             *)

LEMMA OneRequest ==
    ASSUME LinkIInv, NEW t \in Thread, NEW u \in User,
           work[t].phase # "idle" => work[t].user = u,
           work'[t].phase # "idle" => work'[t].user = u,
           DOMAIN work' = Thread, \A s \in Thread \ {t} : work'[s] = work[s],
           DOMAIN userRow' = User, \A v \in User \ {u} : userRow'[v] = userRow[v],
           owner' \in Seq(Patron), Len(owner) \leq Len(owner'),
           \A k \in 1 .. Len(owner) : owner'[k] = owner[k],
           IsWork(work[t])', IsLink(userRow[u])', userRow'[u].tier \in BOOLEAN,
           \A k \in 1 .. Len(owner) :
              \/ userRow'[u].token = k
              \/ work'[t].phase # "idle" /\ k \in {work'[t].token, work'[t].loaded.token}
              => Knows(u, k),
           \A v \in User \ {u} : userRow'[u].id # None => userRow'[u].id # userRow[v].id,
           alive' \subseteq 1 .. Len(owner'),
           \A k \in alive \ alive' : Knows(u, k),
           mixed \subseteq mixed', lost \subseteq lost',
           u \notin mixed' => Orderly(u)',
           u \notin mixed' \cup lost' => Usable(u)'
    PROVE  LinkIInv'
<1>0. /\ Len(owner) \in Nat /\ Len(owner') \in Nat
      /\ LinkTyped /\ Apart
  BY DEF LinkIInv, LinkTyped
<1>1. LinkTyped'
  <2>1. ASSUME NEW v \in User \ {u}
        PROVE  IsLink(userRow[v])' /\ userRow'[v].tier \in BOOLEAN
    BY <1>0 DEF LinkTyped, IsLink, Tokens, Link!Issued
  <2>2. ASSUME NEW s \in Thread \ {t}
        PROVE  IsWork(work[s])'
    <3>1. IsWork(work[s]) /\ work'[s] = work[s]
      BY <1>0 DEF LinkTyped
    <3> QED
      BY <1>0, <3>1 DEF IsWork, IsLink, Tokens, Link!Issued
  <2>3. alive' \subseteq 1 .. Link!Issued'
    BY DEF Link!Issued
  <2> QED
    BY <2>1, <2>2, <2>3 DEF LinkTyped
<1>2. \A s \in Thread, v \in User : (s # t \/ v # u) => (Serves(s, v)' <=> Serves(s, v))
  BY DEF Serves
<1>3. ASSUME NEW v \in User \ {u}, NEW k
      PROVE  Knows(v, k)' <=> Knows(v, k)
  <2>1. ASSUME NEW s \in Thread
        PROVE  /\ Serves(s, v) <=> Serves(s, v)'
               /\ Serves(s, v) => work'[s] = work[s]
    BY <1>2 DEF Serves
  <2> QED
    BY <2>1 DEF Knows
<1>4. ASSUME NEW k \in 1 .. Len(owner), Knows(u, k)'
      PROVE  Knows(u, k)
  <2>1. CASE userRow'[u].token = k
    BY <2>1
  <2>2. ASSUME NEW s \in Thread, Serves(s, u)', k \in {work'[s].token, work'[s].loaded.token}
        PROVE  Knows(u, k)
    BY <1>2, <2>2 DEF Knows, Serves
  <2> QED
    BY <1>4, <2>1, <2>2 DEF Knows
<1>5. ASSUME NEW v \in User \ {u}, NEW k, k # 0, Knows(v, k)
      PROVE  k \in 1 .. Len(owner)
  BY <1>0, <1>5 DEF LinkTyped, IsLink, IsWork, Tokens, Link!Issued, Knows, Serves
<1>6. ASSUME NEW v \in User \ {u}, NEW k, k # 0, Knows(v, k)
      PROVE  ~Knows(u, k) /\ ~Knows(u, k)'
  <2>1. k \in 1 .. Len(owner)
    BY <1>5, <1>6
  <2>2. ~Knows(u, k)
    BY <1>0, <1>6, <2>1 DEF Apart, Link!Issued
  <2> QED
    BY <1>4, <2>1, <2>2
<1>7. Apart'
  <2>1. ASSUME NEW v \in User, NEW w \in User, NEW k \in 1 .. Link!Issued',
               Knows(v, k)', Knows(w, k)'
        PROVE  v = w
    <3>1. CASE v # u /\ w # u
      BY <1>0, <1>3, <1>5, <2>1, <3>1 DEF Apart, Link!Issued
    <3>2. CASE v = u /\ w # u
      BY <1>3, <1>6, <2>1, <3>2
    <3>3. CASE v # u /\ w = u
      BY <1>3, <1>6, <2>1, <3>3
    <3> QED
      BY <3>1, <3>2, <3>3
  <2>2. \A v, w \in User : userRow'[v].id # None /\ userRow'[v].id = userRow'[w].id => v = w
    BY <1>0 DEF Apart
  <2> QED
    BY <2>1, <2>2 DEF Apart
<1>8. ASSUME NEW v \in User \ {u}, v \notin mixed'
      PROVE  Orderly(v)'
  <2>1. Orderly(v)
    BY <1>8 DEF LinkIInv
  <2>2. userRow'[v] = userRow[v] /\ userRow[v].token \in 0 .. Len(owner)
    BY <1>0 DEF LinkTyped, IsLink, Tokens, Link!Issued
  <2>3. Whole(userRow[v], owner)'
    BY <2>1, <2>2 DEF Orderly, Whole
  <2>4. ASSUME NEW s \in Thread, Serves(s, v)'
        PROVE  InStep(work[s], userRow[v], owner)'
    <3>1. Serves(s, v) /\ work'[s] = work[s]
      BY <1>2, <2>4 DEF Serves
    <3>2. work[s].token \in 0 .. Len(owner)
      BY <1>0, <3>1 DEF LinkTyped, IsWork, Tokens, Link!Issued, Serves
    <3>3. InStep(work[s], userRow[v], owner)
      BY <2>1, <3>1 DEF Orderly
    <3> QED
      BY <2>2, <3>1, <3>2, <3>3 DEF InStep
  <2> QED
    BY <1>2, <2>1, <2>3, <2>4 DEF Orderly
<1>9. ASSUME NEW v \in User \ {u}, v \notin mixed' \cup lost'
      PROVE  Usable(v)'
  <2>1. Usable(v)
    BY <1>9 DEF LinkIInv
  <2>2. userRow'[v] = userRow[v]
    OBVIOUS
  <2>3. \A k \in alive : k \in 1 .. Len(owner)
    BY <1>0 DEF LinkTyped, Link!Issued
  <2>4. \A k \in alive : Knows(v, k) => k \in alive'
    BY <1>6, <2>3
  <2>5. \A s \in Thread : /\ Serves(s, v)' <=> Serves(s, v)
                          /\ Serves(s, v) => work'[s] = work[s]
    BY <1>2 DEF Serves
  <2>6. \A s \in Thread : Serves(s, v) => Knows(v, work[s].token)
    BY DEF Knows
  <2>7. Knows(v, userRow[v].token)
    BY DEF Knows
  <2> QED
    BY <2>1, <2>2, <2>4, <2>5, <2>6, <2>7 DEF Usable
<1> QED
  BY <1>1, <1>7, <1>8, <1>9 DEF LinkIInv


\* A request that is alone, after its step: whatever held of its account holds
\* again if its row is whole and the request in step with it.
LEMMA StillOrderly ==
    ASSUME LinkIInv, NEW t \in Thread, NEW u \in User, Orderly(u),
           Serves(t, u), work'[t].phase # "idle" => work'[t].user = u,
           \A s \in Thread \ {t} : work'[s] = work[s],
           Whole(userRow'[u], owner'),
           work'[t].phase # "idle" => InStep(work'[t], userRow'[u], owner')
    PROVE  Orderly(u)'
<1>1. \A s \in Thread : Serves(s, u)' => s = t
  BY DEF Orderly, Serves
<1> QED
  BY <1>1 DEF Orderly, Serves

LEMMA StillUsable ==
    ASSUME LinkIInv, NEW t \in Thread, NEW u \in User, Orderly(u),
           Serves(t, u), work'[t].phase # "idle" => work'[t].user = u,
           \A s \in Thread \ {t} : work'[s] = work[s],
           userRow'[u].token # 0 /\ work'[t].phase # "store" => userRow'[u].token \in alive',
           work'[t].phase \in {"store", "profile", "link"} => work'[t].token \in alive'
    PROVE  Usable(u)'
<1>1. \A s \in Thread : Serves(s, u)' => s = t
  BY DEF Orderly, Serves
<1>2. work'[t].phase = "store" => work'[t].phase # "idle"
  OBVIOUS
<1> QED
  BY <1>1, <1>2 DEF Usable, Serves

\* What is known of a request that is not idle.
LEMMA AtWork ==
    ASSUME LinkIInv, NEW t \in Thread, work[t].phase # "idle"
    PROVE  /\ IsWork(work[t]) /\ work[t].user \in User
           /\ Len(owner) \in Nat /\ owner \in Seq(Patron)
           /\ alive \subseteq 1 .. Len(owner)
           /\ IsLink(work[t].loaded) /\ work[t].token \in 0 .. Len(owner)
           /\ work[t].id \in Patron \cup {None} /\ work[t].tier \in BOOLEAN
           /\ work[t].phase \in {"callback", "profile", "link"} => work[t].id \in Patron
           /\ IsLink(userRow[work[t].user]) /\ userRow[work[t].user].tier \in BOOLEAN
           /\ Serves(t, work[t].user)
           /\ Knows(work[t].user, work[t].token)
           /\ Knows(work[t].user, work[t].loaded.token)
           /\ Knows(work[t].user, userRow[work[t].user].token)
BY DEF LinkIInv, LinkTyped, IsWork, Serves, Knows, Tokens, Link!Issued

LEMMA Alone ==
    ASSUME LinkIInv, NEW t \in Thread, work[t].phase # "idle", work[t].user \notin mixed
    PROVE  /\ Orderly(work[t].user)
           /\ InStep(work[t], userRow[work[t].user], owner)
           /\ Whole(userRow[work[t].user], owner)
BY AtWork DEF LinkIInv, Orderly

\* A step that only goes on with the request: no row, and no pair, changes.
LEMMA OnlyTheRequest ==
    ASSUME LinkIInv, NEW t \in Thread, work[t].phase # "idle",
           DOMAIN work' = Thread, \A s \in Thread \ {t} : work'[s] = work[s],
           IsWork(work[t])',
           work'[t].phase # "idle" =>
              /\ work'[t].user = work[t].user /\ work'[t].loaded = work[t].loaded
              /\ work'[t].token \in {work[t].token, work[t].loaded.token},
           UNCHANGED <<userRow, owner, alive, mixed>>, lost \subseteq lost',
           work[t].user \notin mixed /\ work'[t].phase # "idle" =>
              InStep(work'[t], userRow[work[t].user], owner),
           work'[t].phase # "store", work[t].phase # "store",
           work'[t].phase \in {"profile", "link"} =>
              work[t].phase \in {"profile", "link"} /\ work'[t].token = work[t].token
    PROVE  LinkIInv'
<1>1. PICK u \in User : u = work[t].user
  BY AtWork
<1>2. u \notin mixed' => Orderly(u)'
  BY <1>1, StillOrderly, Alone, AtWork
<1>3. ASSUME u \notin mixed' \cup lost'
      PROVE  Usable(u)'
  <2>1. Usable(u) /\ Orderly(u) /\ Serves(t, u)
    BY <1>1, <1>3, Alone, AtWork DEF LinkIInv
  <2>2. \A s \in Thread : Serves(s, u) => work[s].phase # "store"
    BY <2>1 DEF Orderly
  <2> QED
    BY <1>1, <2>1, <2>2, StillUsable DEF Usable
<1>4. IsLink(userRow[u])'
  BY <1>1, AtWork DEF IsLink, Tokens, Link!Issued
<1>5. \A k \in 1 .. Len(owner) :
         \/ userRow'[u].token = k
         \/ work'[t].phase # "idle" /\ k \in {work'[t].token, work'[t].loaded.token}
         => Knows(u, k)
  BY <1>1, AtWork
<1>6. /\ \A v \in User \ {u} : userRow'[u].id # None => userRow'[u].id # userRow[v].id
      /\ DOMAIN userRow' = User
  BY DEF LinkIInv, Apart, LinkTyped
<1>7. owner' \in Seq(Patron) /\ Len(owner) \leq Len(owner') /\ alive' \subseteq 1 .. Len(owner')
  BY AtWork
<1>8. userRow'[u].tier \in BOOLEAN
  BY <1>1, AtWork
<1> QED
  BY <1>1, <1>2, <1>3, <1>4, <1>5, <1>6, <1>7, <1>8, OneRequest


-----------------------------------------------------------------------------
(* The steps of a request.                                                 *)

LEMMA NoWorkIdle == IsWork(Link!NoWork) /\ Link!NoWork.phase = "idle"
  BY DEF IsWork, Link!NoWork

\* A request ends without a write.
LEMMA LeaveStep ==
    ASSUME LinkIInv, NEW t \in Thread, work[t].phase \notin {"idle", "store"}, Link!Leave(t),
           UNCHANGED <<userRow, owner, alive, member, lost, mixed>>
    PROVE  LinkIInv'
<1>1. /\ DOMAIN work' = Thread /\ work'[t] = Link!NoWork
      /\ \A s \in Thread \ {t} : work'[s] = work[s]
  BY DEF LinkIInv, LinkTyped, Link!Leave
<1>2. IsWork(work[t])' /\ work'[t].phase = "idle"
  BY <1>1, NoWorkIdle DEF IsWork
<1> QED
  BY <1>1, <1>2, OnlyTheRequest

LEMMA GoFacts ==
    ASSUME LinkIInv, NEW t \in Thread, NEW phase, Link!Go(t, phase), work[t].phase # "idle"
    PROVE  /\ DOMAIN work' = Thread /\ \A s \in Thread \ {t} : work'[s] = work[s]
           /\ DOMAIN work'[t] = DOMAIN work[t] /\ work'[t].phase = phase
           /\ work'[t].user = work[t].user /\ work'[t].loaded = work[t].loaded
           /\ work'[t].token = work[t].token /\ work'[t].id = work[t].id
           /\ work'[t].tier = work[t].tier
BY AtWork DEF LinkIInv, LinkTyped, IsWork, Link!Go

\* The same, with another token pair, or with an answer about the membership.
LEMMA GoWithToken ==
    ASSUME LinkIInv, NEW t \in Thread, NEW phase, NEW token, work[t].phase # "idle",
           work' = [work EXCEPT ![t].phase = phase, ![t].token = token]
    PROVE  /\ DOMAIN work' = Thread /\ \A s \in Thread \ {t} : work'[s] = work[s]
           /\ DOMAIN work'[t] = DOMAIN work[t] /\ work'[t].phase = phase
           /\ work'[t].user = work[t].user /\ work'[t].loaded = work[t].loaded
           /\ work'[t].token = token /\ work'[t].id = work[t].id
           /\ work'[t].tier = work[t].tier
<1>1. IsWork(work[t]) /\ DOMAIN work = Thread
  BY DEF LinkIInv, LinkTyped
<1>2. PICK w : w = work[t]
  OBVIOUS
<1>3. PICK v : v = [w EXCEPT !.phase = phase]
  OBVIOUS
<1>4. /\ DOMAIN v = DOMAIN w /\ v.phase = phase /\ v.user = w.user /\ v.loaded = w.loaded
      /\ v.token = w.token /\ v.id = w.id /\ v.tier = w.tier
  BY <1>1, <1>2, <1>3 DEF IsWork
<1>5. /\ DOMAIN work' = Thread /\ \A s \in Thread \ {t} : work'[s] = work[s]
      /\ work'[t] = [v EXCEPT !.token = token]
  BY <1>1, <1>2, <1>3
<1> QED
  BY <1>1, <1>2, <1>4, <1>5 DEF IsWork

LEMMA GoWithTier ==
    ASSUME LinkIInv, NEW t \in Thread, NEW phase, NEW tier, work[t].phase # "idle",
           work' = [work EXCEPT ![t].phase = phase, ![t].tier = tier]
    PROVE  /\ DOMAIN work' = Thread /\ \A s \in Thread \ {t} : work'[s] = work[s]
           /\ DOMAIN work'[t] = DOMAIN work[t] /\ work'[t].phase = phase
           /\ work'[t].user = work[t].user /\ work'[t].loaded = work[t].loaded
           /\ work'[t].token = work[t].token /\ work'[t].id = work[t].id
           /\ work'[t].tier = tier
<1>1. IsWork(work[t]) /\ DOMAIN work = Thread
  BY DEF LinkIInv, LinkTyped
<1>2. PICK w : w = work[t]
  OBVIOUS
<1>3. PICK v : v = [w EXCEPT !.phase = phase]
  OBVIOUS
<1>4. /\ DOMAIN v = DOMAIN w /\ v.phase = phase /\ v.user = w.user /\ v.loaded = w.loaded
      /\ v.token = w.token /\ v.id = w.id /\ v.tier = w.tier
  BY <1>1, <1>2, <1>3 DEF IsWork
<1>5. /\ DOMAIN work' = Thread /\ \A s \in Thread \ {t} : work'[s] = work[s]
      /\ work'[t] = [v EXCEPT !.tier = tier]
  BY <1>1, <1>2, <1>3
<1> QED
  BY <1>1, <1>2, <1>4, <1>5 DEF IsWork

LEMMA GetTokenStep ==
    ASSUME LinkIInv, NEW t \in Thread, Link!GetToken(t)
    PROVE  LinkIInv'
<1>1. /\ work[t].phase = "sync"
      /\ UNCHANGED <<userRow, owner, alive, lost, mixed>>
  BY DEF Link!GetToken, Link!At, Link!Patreon
<1>2. PICK phase \in {"tier", "members", "refresh"} :
         /\ work' = [work EXCEPT ![t].phase = phase, ![t].token = work[t].loaded.token]
         /\ phase = "tier" <=> work[t].loaded.token = 0
  BY DEF Link!GetToken
<1>3. /\ DOMAIN work' = Thread /\ \A s \in Thread \ {t} : work'[s] = work[s]
      /\ DOMAIN work'[t] = DOMAIN work[t] /\ work'[t].phase = phase
      /\ work'[t].user = work[t].user /\ work'[t].loaded = work[t].loaded
      /\ work'[t].token = work[t].loaded.token /\ work'[t].id = work[t].id
      /\ work'[t].tier = work[t].tier
  BY <1>1, <1>2, GoWithToken
<1>4. IsWork(work[t])'
  BY <1>1, <1>3, AtWork DEF IsWork, IsLink, Tokens, Link!Issued
<1>5. work[t].user \notin mixed => InStep(work'[t], userRow[work[t].user], owner)
  BY <1>1, <1>2, <1>3, Alone DEF InStep
<1> QED
  BY <1>1, <1>2, <1>3, <1>4, <1>5, OnlyTheRequest

LEMMA FetchTierStep ==
    ASSUME LinkIInv, NEW t \in Thread, Link!FetchTier(t)
    PROVE  LinkIInv'
<1>1. /\ work[t].phase = "members"
      /\ UNCHANGED <<userRow, owner, alive, lost, mixed>>
  BY DEF Link!FetchTier, Link!At, Link!Patreon
<1>2. PICK answer \in BOOLEAN : work' = [work EXCEPT ![t].phase = "tier", ![t].tier = answer]
  <2>1. PICK answer \in {owner[work[t].token] \in member, FALSE} :
           work' = [work EXCEPT ![t].phase = "tier", ![t].tier = answer]
    BY DEF Link!FetchTier
  <2>2. answer \in BOOLEAN
    <3>1. (owner[work[t].token] \in member) \in BOOLEAN
      OBVIOUS
    <3> QED
      BY <2>1, <3>1, Zenon
  <2> QED
    BY <2>1, <2>2, Zenon
<1>3. /\ DOMAIN work' = Thread /\ \A s \in Thread \ {t} : work'[s] = work[s]
      /\ DOMAIN work'[t] = DOMAIN work[t] /\ work'[t].phase = "tier"
      /\ work'[t].user = work[t].user /\ work'[t].loaded = work[t].loaded
      /\ work'[t].token = work[t].token /\ work'[t].id = work[t].id
      /\ work'[t].tier = answer
  BY <1>1, <1>2, GoWithTier
<1>4. IsWork(work[t])'
  BY <1>1, <1>3, AtWork DEF IsWork, IsLink, Tokens, Link!Issued
<1>5. work[t].user \notin mixed => InStep(work'[t], userRow[work[t].user], owner)
  BY <1>1, <1>3, Alone DEF InStep, Whole
<1> QED
  BY <1>1, <1>3, <1>4, <1>5, OnlyTheRequest

LEMMA FetchProfileStep ==
    ASSUME LinkIInv, NEW t \in Thread, Link!FetchProfile(t)
    PROVE  LinkIInv'
<1>1. /\ work[t].phase = "profile"
      /\ UNCHANGED <<userRow, owner, alive, lost, mixed>>
  BY DEF Link!FetchProfile, Link!At, Link!Patreon
<1>2. PICK answer \in BOOLEAN : work' = [work EXCEPT ![t].phase = "link", ![t].tier = answer]
  <2>1. PICK answer \in {work[t].id \in member, FALSE} :
           work' = [work EXCEPT ![t].phase = "link", ![t].tier = answer]
    BY DEF Link!FetchProfile
  <2>2. answer \in BOOLEAN
    <3>1. (work[t].id \in member) \in BOOLEAN
      OBVIOUS
    <3> QED
      BY <2>1, <3>1, Zenon
  <2> QED
    BY <2>1, <2>2, Zenon
<1>3. /\ DOMAIN work' = Thread /\ \A s \in Thread \ {t} : work'[s] = work[s]
      /\ DOMAIN work'[t] = DOMAIN work[t] /\ work'[t].phase = "link"
      /\ work'[t].user = work[t].user /\ work'[t].loaded = work[t].loaded
      /\ work'[t].token = work[t].token /\ work'[t].id = work[t].id
      /\ work'[t].tier = answer
  BY <1>1, <1>2, GoWithTier
<1>4. IsWork(work[t])'
  BY <1>1, <1>3, AtWork DEF IsWork, IsLink, Tokens, Link!Issued
<1>5. work[t].user \notin mixed => InStep(work'[t], userRow[work[t].user], owner)
  BY <1>1, <1>3, Alone DEF InStep
<1> QED
  BY <1>1, <1>3, <1>4, <1>5, OnlyTheRequest

LEMMA RefreshFailsStep ==
    ASSUME LinkIInv, NEW t \in Thread, Link!RefreshFails(t)
    PROVE  LinkIInv'
<1>1. /\ work[t].phase = "refresh" /\ Link!Go(t, "tier")
      /\ UNCHANGED <<userRow, owner, alive, lost, mixed>>
  BY DEF Link!RefreshFails, Link!At, Link!Patreon
<1>2. IsWork(work[t])'
  BY <1>1, AtWork, GoFacts DEF IsWork, IsLink, Tokens, Link!Issued
<1>3. work[t].user \notin mixed => InStep(work'[t], userRow[work[t].user], owner)
  BY <1>1, GoFacts, Alone DEF InStep
<1> QED
  BY <1>1, <1>2, <1>3, GoFacts, OnlyTheRequest


\* What a commit leaves in the row.
LEMMA WriteFacts ==
    ASSUME LinkIInv, NEW t \in Thread, work[t].phase # "idle", NEW new, Link!Write(t, new),
           NEW u \in User, u = work[t].user
    PROVE  /\ DOMAIN userRow' = User /\ \A v \in User \ {u} : userRow'[v] = userRow[v]
           /\ DOMAIN userRow'[u] = {"id", "tier", "token", "fresh"}
           /\ userRow'[u].id = IF new.id # work[t].loaded.id THEN new.id ELSE userRow[u].id
           /\ userRow'[u].tier = IF new.tier # work[t].loaded.tier THEN new.tier
                                 ELSE userRow[u].tier
           /\ userRow'[u].token = IF new.token # work[t].loaded.token THEN new.token
                                  ELSE userRow[u].token
<1>1. DOMAIN userRow = User /\ DOMAIN userRow[u] = {"id", "tier", "token", "fresh"}
  BY DEF LinkIInv, LinkTyped, IsLink
<1>2. PICK columns : columns = Link!Changes(work[t].loaded, new)
  OBVIOUS
<1>3. PICK written :
        /\ written = IF "token" \in columns THEN columns \cup {"fresh"} ELSE columns
        /\ userRow' = [userRow EXCEPT ![u] =
              [c \in DOMAIN userRow[u] |-> IF c \in written THEN new[c] ELSE userRow[u][c]]]
  BY <1>2 DEF Link!Write
<1>4. \A c \in {"id", "tier", "token"} : c \in written <=> new[c] # work[t].loaded[c]
  BY <1>2, <1>3 DEF Link!Changes
<1>5. userRow'[u] = [c \in {"id", "tier", "token", "fresh"} |->
                       IF c \in written THEN new[c] ELSE userRow[u][c]]
  BY <1>1, <1>3
<1>6. DOMAIN userRow' = User /\ \A v \in User \ {u} : userRow'[v] = userRow[v]
  BY <1>1, <1>3
<1> QED
  BY <1>4, <1>5, <1>6

\* A commit ends the request.
LEMMA WriteAndLeave ==
    ASSUME LinkIInv, NEW t \in Thread, work[t].phase \notin {"idle", "store"},
           NEW new, Link!Write(t, new), Link!Leave(t),
           UNCHANGED <<owner, alive, member, lost, mixed>>,
           new.id \in Patron \cup {None}, new.tier \in BOOLEAN,
           new.token \in {0, work[t].token, work[t].loaded.token},
           \/ new.id \in {None, work[t].loaded.id}
           \/ \A v \in User \ {work[t].user} : userRow[v].id # new.id,
           work[t].user \notin mixed =>
              /\ Whole(userRow'[work[t].user], owner)
              /\ \/ userRow'[work[t].user].token \in {0, userRow[work[t].user].token}
                 \/ /\ work[t].phase = "link"
                    /\ userRow'[work[t].user].token = work[t].token
    PROVE  LinkIInv'
<1>1. PICK u \in User : u = work[t].user
  BY AtWork
<1>2. PICK r : r = userRow'[u]
  OBVIOUS
<1>3. /\ DOMAIN userRow' = User /\ \A v \in User \ {u} : userRow'[v] = userRow[v]
      /\ DOMAIN r = {"id", "tier", "token", "fresh"}
      /\ r.id = IF new.id # work[t].loaded.id THEN new.id ELSE userRow[u].id
      /\ r.tier \in {new.tier, userRow[u].tier}
      /\ r.token \in {new.token, userRow[u].token}
  BY <1>1, <1>2, WriteFacts
<1>4. /\ DOMAIN work' = Thread /\ work'[t] = Link!NoWork
      /\ \A s \in Thread \ {t} : work'[s] = work[s]
  BY DEF LinkIInv, LinkTyped, Link!Leave
<1>5. IsWork(work[t])' /\ work'[t].phase = "idle"
  BY <1>4, NoWorkIdle DEF IsWork
<1>6. /\ IsLink(userRow[u]) /\ userRow[u].tier \in BOOLEAN
      /\ owner \in Seq(Patron) /\ Len(owner) \in Nat /\ alive \subseteq 1 .. Len(owner)
      /\ work[t].token \in 0 .. Len(owner) /\ work[t].loaded.token \in 0 .. Len(owner)
  BY <1>1, AtWork DEF IsLink, Tokens, Link!Issued
<1>7. IsLink(userRow[u])' /\ userRow'[u].tier \in BOOLEAN
  BY <1>2, <1>3, <1>6 DEF IsLink, Tokens, Link!Issued
<1>8. \A k \in 1 .. Len(owner) : userRow'[u].token = k => Knows(u, k)
  BY <1>1, <1>2, <1>3, <1>6, AtWork
<1>9. ASSUME NEW v \in User \ {u}, userRow'[u].id # None
      PROVE  userRow'[u].id # userRow[v].id
  <2>1. CASE r.id = userRow[u].id
    BY <1>2, <1>9, <2>1 DEF LinkIInv, Apart
  <2>2. CASE r.id # userRow[u].id
    BY <1>1, <1>2, <1>3, <1>9, <2>2
  <2> QED
    BY <2>1, <2>2
<1>10. u \notin mixed' => Orderly(u)'
  BY <1>1, <1>4, <1>5, Alone, AtWork, StillOrderly
<1>11. ASSUME u \notin mixed' \cup lost'
       PROVE  Usable(u)'
  <2>1. Usable(u) /\ Orderly(u) /\ Serves(t, u)
    BY <1>1, <1>11, Alone, AtWork DEF LinkIInv
  <2>2. \A s \in Thread : Serves(s, u) => work[s].phase # "store"
    BY <2>1 DEF Orderly
  <2>3. \/ r.token \in {0, userRow[u].token}
        \/ work[t].phase = "link" /\ r.token = work[t].token
    BY <1>1, <1>2, <1>11
  <2>4. r.token # 0 => r.token \in alive
    BY <2>1, <2>2, <2>3 DEF Usable
  <2> QED
    BY <1>2, <1>4, <1>5, <2>1, <2>4, StillUsable
<1>12. /\ owner' \in Seq(Patron) /\ Len(owner) \leq Len(owner')
       /\ alive' \subseteq 1 .. Len(owner')
  BY <1>6
<1> QED
  BY <1>1, <1>3, <1>4, <1>5, <1>7, <1>8, <1>9, <1>10, <1>11, <1>12, OneRequest

LEMMA StoreTierStep ==
    ASSUME LinkIInv, NEW t \in Thread, Link!StoreTier(t)
    PROVE  LinkIInv'
<1>1. PICK new : new = [work[t].loaded EXCEPT !.tier = work[t].tier]
  OBVIOUS
<1>2. /\ work[t].phase = "tier" /\ Link!Write(t, new) /\ Link!Leave(t)
      /\ UNCHANGED <<owner, alive, member, lost, mixed>>
  BY <1>1 DEF Link!StoreTier, Link!At, Link!Patreon
<1>3. /\ new.id = work[t].loaded.id /\ new.token = work[t].loaded.token
      /\ new.tier = work[t].tier
  BY <1>1, <1>2, AtWork DEF IsLink
<1>4. PICK u \in User : u = work[t].user
  BY <1>2, AtWork
<1>5. /\ userRow'[u].id = userRow[u].id /\ userRow'[u].token = userRow[u].token
      /\ userRow'[u].tier \in {work[t].tier, userRow[u].tier}
  BY <1>2, <1>3, <1>4, WriteFacts
<1>6. u \notin mixed => Whole(userRow'[u], owner)
  BY <1>2, <1>4, <1>5, Alone DEF InStep, Whole
<1>7. new.id \in Patron \cup {None} /\ new.tier \in BOOLEAN
  BY <1>2, <1>3, AtWork DEF IsLink
<1> QED
  BY <1>2, <1>3, <1>4, <1>5, <1>6, <1>7, WriteAndLeave

LEMMA UnlinkStep ==
    ASSUME LinkIInv, NEW t \in Thread, Link!Unlink(t)
    PROVE  LinkIInv'
<1>1. PICK new : new = Link!Unlinked
  OBVIOUS
<1>2. /\ work[t].phase = "unlink" /\ Link!Write(t, new) /\ Link!Leave(t)
      /\ UNCHANGED <<owner, alive, member, lost, mixed>>
  BY <1>1 DEF Link!Unlink, Link!Cleared, Link!At, Link!Patreon
<1>3. new.id = None /\ new.token = 0 /\ new.tier = FALSE
  BY <1>1 DEF Link!Unlinked
<1>4. PICK u \in User : u = work[t].user
  BY <1>2, AtWork
<1>5. ASSUME u \notin mixed
      PROVE  userRow'[u].id = None /\ userRow'[u].token = 0 /\ userRow'[u].tier = FALSE
  BY <1>2, <1>3, <1>4, <1>5, WriteFacts, Alone DEF InStep
<1>6. u \notin mixed => Whole(userRow'[u], owner)
  BY <1>5 DEF Whole
<1> QED
  BY <1>2, <1>3, <1>4, <1>5, <1>6, WriteAndLeave

LEMMA StoreLinkStep ==
    ASSUME LinkIInv, NEW t \in Thread, Link!StoreLink(t)
    PROVE  LinkIInv'
<1>1. /\ work[t].phase = "link" /\ Link!Leave(t)
      /\ UNCHANGED <<owner, alive, member, lost, mixed>>
  BY DEF Link!StoreLink, Link!At, Link!Patreon
<1>2. CASE UNCHANGED userRow
  BY <1>1, <1>2, LeaveStep
<1>3. CASE ~Link!Taken(t) /\ ~UNCHANGED userRow
  <2>1. PICK new : new = [id |-> work[t].id, tier |-> work[t].tier,
                          token |-> work[t].token, fresh |-> TRUE]
    OBVIOUS
  <2>2. Link!Write(t, new)
    BY <1>3, <2>1 DEF Link!StoreLink
  <2>3. new.id = work[t].id /\ new.token = work[t].token /\ new.tier = work[t].tier
    BY <2>1
  <2>4. PICK u \in User : u = work[t].user
    BY <1>1, AtWork
  <2>5. ASSUME u \notin mixed
        PROVE  /\ userRow'[u].id = work[t].id /\ userRow'[u].token = work[t].token
               /\ userRow'[u].tier = work[t].tier
    BY <1>1, <2>2, <2>3, <2>4, <2>5, WriteFacts, Alone DEF InStep
  <2>6. u \notin mixed => Whole(userRow'[u], owner)
    <3>1. work[t].id \in Patron
      BY <1>1, AtWork
    <3> QED
      BY <1>1, <2>4, <2>5, <3>1, Alone, LinkAssumption DEF InStep, Whole
  <2>7. new.id \in Patron \cup {None} /\ new.tier \in BOOLEAN
    BY <1>1, <2>3, AtWork
  <2>8. \A v \in User \ {work[t].user} : userRow[v].id # new.id
    BY <1>3, <2>3 DEF Link!Taken
  <2> QED
    BY <1>1, <2>2, <2>3, <2>4, <2>5, <2>6, <2>7, <2>8, WriteAndLeave
<1> QED
  BY <1>2, <1>3 DEF Link!StoreLink


\* Patreon issues a pair to a request that goes on with it.
LEMMA IssueStep ==
    ASSUME LinkIInv, NEW t \in Thread, work[t].phase \notin {"idle", "store"}, NEW patron \in Patron,
           owner' = Append(owner, patron),
           DOMAIN work' = Thread, \A s \in Thread \ {t} : work'[s] = work[s],
           IsWork(work[t])', work'[t].phase # "idle",
           work'[t].user = work[t].user, work'[t].loaded = work[t].loaded,
           work'[t].token \in {Len(owner) + 1, work[t].token},
           work'[t].phase \in {"store", "profile", "link"} => work'[t].token = Len(owner) + 1,
           alive' \subseteq alive \cup {Len(owner) + 1}, Len(owner) + 1 \in alive',
           \A k \in alive \ alive' : k = work[t].token,
           UNCHANGED <<userRow, mixed>>, lost \subseteq lost',
           work[t].user \notin mixed => InStep(work'[t], userRow[work[t].user], owner'),
           work[t].user \notin mixed \cup lost' /\ work'[t].phase # "store" => alive \subseteq alive'
    PROVE  LinkIInv'
<1>1. PICK u \in User : u = work[t].user
  BY AtWork
<1>2. /\ IsLink(userRow[u]) /\ userRow[u].tier \in BOOLEAN
      /\ owner \in Seq(Patron) /\ Len(owner) \in Nat /\ alive \subseteq 1 .. Len(owner)
      /\ work[t].token \in 0 .. Len(owner) /\ work[t].loaded.token \in 0 .. Len(owner)
      /\ userRow[u].token \in 0 .. Len(owner)
  BY <1>1, AtWork DEF IsLink, Tokens, Link!Issued
<1>3. /\ owner' \in Seq(Patron) /\ Len(owner') = Len(owner) + 1
      /\ \A k \in 1 .. Len(owner) : owner'[k] = owner[k]
      /\ alive' \subseteq 1 .. Len(owner')
  BY <1>2
<1>4. IsLink(userRow[u])' /\ userRow'[u].tier \in BOOLEAN
  BY <1>2, <1>3 DEF IsLink, Tokens, Link!Issued
<1>5. \A k \in 1 .. Len(owner) :
         \/ userRow'[u].token = k
         \/ work'[t].phase # "idle" /\ k \in {work'[t].token, work'[t].loaded.token}
         => Knows(u, k)
  BY <1>1, <1>2, AtWork
<1>6. /\ \A v \in User \ {u} : userRow'[u].id # None => userRow'[u].id # userRow[v].id
      /\ DOMAIN userRow' = User
  BY DEF LinkIInv, Apart, LinkTyped
<1>7. \A k \in alive \ alive' : Knows(u, k)
  BY <1>1, AtWork
<1>8. ASSUME u \notin mixed
      PROVE  Whole(userRow[u], owner')
  <2>1. Whole(userRow[u], owner)
    BY <1>1, <1>8, Alone
  <2> QED
    BY <1>2, <1>3, <2>1 DEF Whole
<1>9. u \notin mixed' => Orderly(u)'
  BY <1>1, <1>8, Alone, AtWork, StillOrderly
<1>10. ASSUME u \notin mixed' \cup lost'
       PROVE  Usable(u)'
  <2>1. Usable(u) /\ Orderly(u) /\ Serves(t, u)
    BY <1>1, <1>10, Alone, AtWork DEF LinkIInv
  <2>2. \A s \in Thread : Serves(s, u) => work[s].phase # "store"
    BY <2>1 DEF Orderly
  <2>3. userRow[u].token # 0 => userRow[u].token \in alive
    BY <2>1, <2>2 DEF Usable
  <2> QED
    BY <1>1, <1>10, <2>1, <2>3, StillUsable
<1> QED
  BY <1>1, <1>2, <1>3, <1>4, <1>5, <1>6, <1>7, <1>9, <1>10, OneRequest

LEMMA ExchangeStep ==
    ASSUME LinkIInv, NEW t \in Thread, Link!Exchange(t)
    PROVE  LinkIInv'
<1>1. /\ work[t].phase = "callback" /\ owner' = Append(owner, work[t].id)
      /\ alive' = alive \cup {Len(owner) + 1}
      /\ work' = [work EXCEPT ![t].phase = "profile", ![t].token = Len(owner) + 1]
      /\ UNCHANGED <<userRow, lost, mixed>>
  BY DEF Link!Exchange, Link!At, Link!Issue, Link!Issued
<1>2. /\ DOMAIN work' = Thread /\ \A s \in Thread \ {t} : work'[s] = work[s]
      /\ DOMAIN work'[t] = DOMAIN work[t] /\ work'[t].phase = "profile"
      /\ work'[t].user = work[t].user /\ work'[t].loaded = work[t].loaded
      /\ work'[t].token = Len(owner) + 1 /\ work'[t].id = work[t].id
      /\ work'[t].tier = work[t].tier
  BY <1>1, GoWithToken
<1>3. work[t].id \in Patron
  BY <1>1, AtWork
<1>4. owner \in Seq(Patron) /\ Len(owner) \in Nat /\ Len(owner') = Len(owner) + 1
  BY <1>1, <1>3, AtWork
<1>5. IsWork(work[t])'
  BY <1>1, <1>2, <1>4, AtWork DEF IsWork, IsLink, Tokens, Link!Issued
<1>6. ASSUME work[t].user \notin mixed
      PROVE  InStep(work'[t], userRow[work[t].user], owner')
  <2>1. owner'[Len(owner) + 1] = work[t].id
    BY <1>1, <1>3, <1>4
  <2> QED
    BY <1>1, <1>2, <1>3, <1>4, <1>6, <2>1, Alone DEF InStep
<1> QED
  BY <1>1, <1>2, <1>3, <1>5, <1>6, IssueStep


LEMMA RefreshStep ==
    ASSUME LinkIInv, NEW t \in Thread, Link!Refresh(t)
    PROVE  LinkIInv'
<1>1. work[t].phase = "refresh" /\ UNCHANGED <<userRow, mixed>>
  BY DEF Link!Refresh, Link!At
<1>2. CASE work[t].token \notin alive
  <2>1. Link!Go(t, "tier") /\ UNCHANGED <<userRow, owner, alive, lost, mixed>>
    BY <1>2 DEF Link!Refresh
  <2>2. IsWork(work[t])'
    BY <1>1, <2>1, AtWork, GoFacts DEF IsWork, IsLink, Tokens, Link!Issued
  <2>3. work[t].user \notin mixed => InStep(work'[t], userRow[work[t].user], owner)
    BY <1>1, <2>1, GoFacts, Alone DEF InStep
  <2> QED
    BY <1>1, <2>1, <2>2, <2>3, GoFacts, OnlyTheRequest
<1>3. CASE work[t].token \in alive
  <2>1. PICK patron \in Patron : patron = owner[work[t].token]
    BY <1>1, <1>3, AtWork
  <2>2. PICK k : k = Len(owner) + 1
    OBVIOUS
  <2>3. /\ owner' = Append(owner, patron)
        /\ alive' = (alive \ {work[t].token}) \cup {k}
        /\ \/ /\ work' = [work EXCEPT ![t].phase = "store", ![t].token = k]
              /\ UNCHANGED lost
           \/ /\ Link!Go(t, "tier")
              /\ lost' = lost \cup {work[t].user}
    BY <1>3, <2>1, <2>2 DEF Link!Refresh, Link!Issue, Link!Issued
  <2>4. /\ owner \in Seq(Patron) /\ Len(owner) \in Nat /\ Len(owner') = Len(owner) + 1
        /\ owner'[k] = patron /\ \A i \in 1 .. Len(owner) : owner'[i] = owner[i]
        /\ work[t].token \in 1 .. Len(owner)
    BY <1>1, <1>3, <2>2, <2>3, AtWork
  <2>5. CASE /\ work' = [work EXCEPT ![t].phase = "store", ![t].token = k]
             /\ UNCHANGED lost
    <3>1. /\ DOMAIN work' = Thread /\ \A s \in Thread \ {t} : work'[s] = work[s]
          /\ DOMAIN work'[t] = DOMAIN work[t] /\ work'[t].phase = "store"
          /\ work'[t].user = work[t].user /\ work'[t].loaded = work[t].loaded
          /\ work'[t].token = k /\ work'[t].id = work[t].id
          /\ work'[t].tier = work[t].tier
      BY <1>1, <2>5, GoWithToken
    <3>2. IsWork(work[t])'
      BY <1>1, <2>2, <2>4, <3>1, AtWork DEF IsWork, IsLink, Tokens, Link!Issued
    <3>3. work[t].user \notin mixed => InStep(work'[t], userRow[work[t].user], owner')
      BY <1>1, <2>1, <2>2, <2>4, <3>1, Alone DEF InStep
    <3> QED
      BY <1>1, <2>2, <2>3, <2>5, <3>1, <3>2, <3>3, IssueStep
  <2>6. CASE /\ Link!Go(t, "tier")
             /\ lost' = lost \cup {work[t].user}
    <3>1. IsWork(work[t])'
      BY <1>1, <2>4, <2>6, AtWork, GoFacts DEF IsWork, IsLink, Tokens, Link!Issued
    <3>2. work[t].user \notin mixed => InStep(work'[t], userRow[work[t].user], owner')
      BY <1>1, <2>6, GoFacts, Alone DEF InStep
    <3> QED
      BY <1>1, <2>2, <2>3, <2>6, <3>1, <3>2, GoFacts, IssueStep
  <2> QED
    BY <2>3, <2>5, <2>6
<1> QED
  BY <1>2, <1>3

LEMMA StoreRefreshedStep ==
    ASSUME LinkIInv, NEW t \in Thread, Link!StoreRefreshed(t)
    PROVE  LinkIInv'
<1>1. PICK new : new = [work[t].loaded EXCEPT !.token = work[t].token, !.fresh = TRUE]
  OBVIOUS
<1>2. PICK u \in User : u = work[t].user
  BY AtWork DEF Link!StoreRefreshed, Link!At
<1>3. PICK r : r = userRow'[u]
  OBVIOUS
<1>4. PICK read : read = [r EXCEPT !.tier = None]
  OBVIOUS
<1>5. /\ work[t].phase = "store" /\ Link!Write(t, new)
      /\ work' = [work EXCEPT ![t].phase = "members", ![t].loaded = read]
      /\ UNCHANGED <<owner, alive, member, lost, mixed>>
  BY <1>1, <1>2, <1>3, <1>4 DEF Link!StoreRefreshed, Link!Stored, Link!At, Link!Patreon
<1>6. new.id = work[t].loaded.id /\ new.token = work[t].token /\ new.tier = work[t].loaded.tier
  <2>1. PICK v : v = [work[t].loaded EXCEPT !.token = work[t].token]
    OBVIOUS
  <2>2. DOMAIN work[t].loaded = {"id", "tier", "token", "fresh"}
    BY <1>5, AtWork DEF IsLink
  <2>3. /\ DOMAIN v = {"id", "tier", "token", "fresh"} /\ v.id = work[t].loaded.id
        /\ v.token = work[t].token /\ v.tier = work[t].loaded.tier
    BY <2>1, <2>2
  <2>4. new = [v EXCEPT !.fresh = TRUE]
    BY <1>1, <2>1
  <2> QED
    BY <2>3, <2>4
<1>7. /\ DOMAIN userRow' = User /\ \A v \in User \ {u} : userRow'[v] = userRow[v]
      /\ DOMAIN r = {"id", "tier", "token", "fresh"}
      /\ r.id = userRow[u].id /\ r.tier = userRow[u].tier
      /\ r.token = IF work[t].token # work[t].loaded.token THEN work[t].token
                   ELSE userRow[u].token
  BY <1>2, <1>3, <1>5, <1>6, WriteFacts
<1>8. /\ IsLink(userRow[u]) /\ userRow[u].tier \in BOOLEAN /\ IsWork(work[t])
      /\ owner \in Seq(Patron) /\ Len(owner) \in Nat /\ alive \subseteq 1 .. Len(owner)
      /\ work[t].token \in 0 .. Len(owner) /\ userRow[u].token \in 0 .. Len(owner)
  BY <1>2, <1>5, AtWork DEF IsLink, Tokens, Link!Issued
<1>9. IsLink(userRow[u])' /\ userRow'[u].tier \in BOOLEAN
  BY <1>3, <1>5, <1>7, <1>8 DEF IsLink, Tokens, Link!Issued
<1>10. /\ DOMAIN read = {"id", "tier", "token", "fresh"}
       /\ read.id = r.id /\ read.token = r.token
  BY <1>4, <1>7
<1>11. PICK w : w = work[t]
  OBVIOUS
<1>12. PICK v : v = [w EXCEPT !.phase = "members"]
  OBVIOUS
<1>13. /\ DOMAIN v = DOMAIN w /\ v.phase = "members" /\ v.user = w.user /\ v.tier = w.tier
       /\ v.token = w.token /\ v.id = w.id
  BY <1>8, <1>11, <1>12 DEF IsWork
<1>14. /\ DOMAIN work' = Thread /\ \A s \in Thread \ {t} : work'[s] = work[s]
       /\ work'[t] = [v EXCEPT !.loaded = read]
  BY <1>5, <1>11, <1>12 DEF LinkIInv, LinkTyped
<1>15. /\ DOMAIN work'[t] = DOMAIN w /\ work'[t].phase = "members" /\ work'[t].user = u
       /\ work'[t].loaded = read /\ work'[t].token = w.token
       /\ work'[t].id = w.id /\ work'[t].tier = w.tier
  BY <1>2, <1>8, <1>11, <1>13, <1>14 DEF IsWork
<1>16. IsWork(work[t])'
  BY <1>2, <1>3, <1>5, <1>8, <1>9, <1>10, <1>11, <1>15 DEF IsWork, IsLink, Tokens, Link!Issued
<1>17. ASSUME u \notin mixed
       PROVE  /\ r.token = work[t].token /\ r.token # 0
              /\ Whole(userRow'[u], owner')
              /\ InStep(work'[t], userRow'[u], owner')
  <2>1. /\ InStep(work[t], userRow[u], owner) /\ Whole(userRow[u], owner)
    BY <1>2, <1>5, <1>17, Alone
  <2>2. r.token = work[t].token /\ r.token # 0
    BY <1>5, <1>7, <2>1 DEF InStep
  <2>3. Whole(userRow'[u], owner')
    BY <1>3, <1>5, <1>7, <2>1, <2>2 DEF Whole, InStep
  <2>4. InStep(work'[t], userRow'[u], owner')
    BY <1>3, <1>10, <1>15, <2>2 DEF InStep
  <2> QED
    BY <2>2, <2>3, <2>4
<1>18. \A k \in 1 .. Len(owner) :
          \/ userRow'[u].token = k
          \/ work'[t].phase # "idle" /\ k \in {work'[t].token, work'[t].loaded.token}
          => Knows(u, k)
  BY <1>2, <1>3, <1>5, <1>7, <1>10, <1>11, <1>15, AtWork
<1>19. \A x \in User \ {u} : userRow'[u].id # None => userRow'[u].id # userRow[x].id
  BY <1>3, <1>7 DEF LinkIInv, Apart
<1>20. u \notin mixed' => Orderly(u)'
  BY <1>2, <1>5, <1>14, <1>15, <1>17, Alone, AtWork, StillOrderly
<1>21. ASSUME u \notin mixed' \cup lost'
       PROVE  Usable(u)'
  <2>1. Usable(u) /\ Orderly(u) /\ Serves(t, u)
    BY <1>2, <1>5, <1>21, Alone, AtWork DEF LinkIInv
  <2>2. work[t].token \in alive
    BY <1>5, <2>1 DEF Usable
  <2> QED
    BY <1>3, <1>5, <1>14, <1>15, <1>17, <1>21, <2>1, <2>2, StillUsable
<1>22. /\ owner' \in Seq(Patron) /\ Len(owner) \leq Len(owner')
       /\ alive' \subseteq 1 .. Len(owner')
  BY <1>5, <1>8
<1> QED
  BY <1>2, <1>5, <1>7, <1>9, <1>14, <1>15, <1>16, <1>18, <1>19, <1>20, <1>21, <1>22, OneRequest


LEMMA FailStep ==
    ASSUME LinkIInv, NEW t \in Thread, Link!Fail(t)
    PROVE  LinkIInv'
BY LeaveStep DEF Link!Fail, Link!Patreon

LEMMA BeginStep ==
    ASSUME LinkIInv, NEW t \in Thread, NEW u \in User, NEW phase \in {"sync", "unlink", "callback"},
           NEW id \in Patron \cup {None}, phase = "callback" => id \in Patron,
           Link!Begin(t, u, phase, id)
    PROVE  LinkIInv'
<1>1. PICK n : n = Link!NoWork
  OBVIOUS
<1>2. PICK w : w = [n EXCEPT !.phase = phase, !.user = u, !.id = id, !.loaded = userRow[u]]
  OBVIOUS
<1>3. /\ work[t].phase = "idle"
      /\ work' = [work EXCEPT ![t] = w]
      /\ mixed' = IF Link!Serving(u) # {} THEN mixed \cup {u} ELSE mixed
      /\ UNCHANGED <<userRow, owner, alive, lost>>
  BY <1>1, <1>2 DEF Link!Begin, Link!At, Link!Patreon
<1>4. /\ DOMAIN w = {"phase", "user", "loaded", "token", "id", "tier"}
      /\ w.phase = phase /\ w.user = u /\ w.loaded = userRow[u] /\ w.id = id
      /\ w.token = 0 /\ ~w.tier /\ w.tier \in BOOLEAN
  <2>1. /\ DOMAIN n = {"phase", "user", "loaded", "token", "id", "tier"}
        /\ n.token = 0 /\ ~n.tier /\ n.tier \in BOOLEAN
    BY <1>1 DEF Link!NoWork
  <2>2. PICK n1 : n1 = [n EXCEPT !.phase = phase]
    OBVIOUS
  <2>3. PICK n2 : n2 = [n1 EXCEPT !.user = u]
    OBVIOUS
  <2>4. PICK n3 : n3 = [n2 EXCEPT !.id = id]
    OBVIOUS
  <2>5. w = [n3 EXCEPT !.loaded = userRow[u]]
    BY <1>2, <2>2, <2>3, <2>4
  <2>6. DOMAIN n1 = DOMAIN n /\ n1.phase = phase /\ n1.token = 0 /\ ~n1.tier /\ n1.tier \in BOOLEAN
    BY <2>1, <2>2
  <2>7. /\ DOMAIN n2 = DOMAIN n /\ n2.phase = phase /\ n2.user = u
        /\ n2.token = 0 /\ ~n2.tier /\ n2.tier \in BOOLEAN
    BY <2>1, <2>3, <2>6
  <2>8. /\ DOMAIN n3 = DOMAIN n /\ n3.phase = phase /\ n3.user = u /\ n3.id = id
        /\ n3.token = 0 /\ ~n3.tier /\ n3.tier \in BOOLEAN
    BY <2>1, <2>4, <2>7
  <2> QED
    BY <2>1, <2>5, <2>8
<1>5. /\ owner \in Seq(Patron) /\ Len(owner) \in Nat /\ alive \subseteq 1 .. Len(owner)
      /\ IsLink(userRow[u]) /\ userRow[u].tier \in BOOLEAN
      /\ DOMAIN work = Thread /\ DOMAIN userRow = User
  BY DEF LinkIInv, LinkTyped, Link!Issued
<1>6. /\ DOMAIN work' = Thread /\ work'[t] = w
      /\ \A s \in Thread \ {t} : work'[s] = work[s]
  BY <1>3, <1>5
<1>7. IsWork(work[t])' /\ IsLink(userRow[u])' /\ userRow'[u].tier \in BOOLEAN
  BY <1>3, <1>4, <1>5, <1>6 DEF IsWork, IsLink, Tokens, Link!Issued
<1>8. \A k \in 1 .. Len(owner) :
         \/ userRow'[u].token = k
         \/ work'[t].phase # "idle" /\ k \in {work'[t].token, work'[t].loaded.token}
         => Knows(u, k)
  BY <1>3, <1>4, <1>6 DEF Knows
<1>9. \A v \in User \ {u} : userRow'[u].id # None => userRow'[u].id # userRow[v].id
  BY <1>3 DEF LinkIInv, Apart
<1>10. ASSUME u \notin mixed'
       PROVE  u \notin mixed /\ \A s \in Thread : ~Serves(s, u)
  BY <1>3, <1>10 DEF Link!Serving, Serves
<1>11. ASSUME u \notin mixed'
       PROVE  Orderly(u)'
  <2>1. Orderly(u)
    BY <1>10, <1>11 DEF LinkIInv
  <2>2. \A s \in Thread : Serves(s, u)' => s = t
    BY <1>6, <1>10, <1>11 DEF Serves
  <2>3. InStep(w, userRow[u], owner)
    BY <1>4 DEF InStep
  <2> QED
    BY <1>3, <1>6, <2>1, <2>2, <2>3 DEF Orderly, Serves
<1>12. ASSUME u \notin mixed' \cup lost'
       PROVE  Usable(u)'
  <2>1. Usable(u)
    BY <1>3, <1>10, <1>12 DEF LinkIInv
  <2>2. \A s \in Thread : Serves(s, u)' => s = t
    BY <1>6, <1>10, <1>12 DEF Serves
  <2>3. userRow[u].token # 0 => userRow[u].token \in alive
    BY <1>10, <1>12, <2>1 DEF Usable
  <2> QED
    BY <1>3, <1>4, <1>6, <2>2, <2>3 DEF Usable
<1>13. mixed \subseteq mixed' /\ work'[t].user = u
  BY <1>3, <1>4, <1>6
<1> QED
  BY <1>3, <1>5, <1>6, <1>7, <1>8, <1>9, <1>11, <1>12, <1>13, OneRequest

-----------------------------------------------------------------------------
(* The other steps, and the invariant.                                     *)

LEMMA AgeStep ==
    ASSUME LinkIInv, NEW u \in User, Link!Age(u)
    PROVE  LinkIInv'
<1>1. userRow' = [userRow EXCEPT ![u].fresh = FALSE] /\ UNCHANGED <<work, owner, alive, lost, mixed>>
  BY DEF Link!Age, Link!Patreon
<1>2. /\ DOMAIN userRow = User /\ \A v \in User : IsLink(userRow[v]) /\ userRow[v].tier \in BOOLEAN
      /\ \A t \in Thread : IsWork(work[t])
  BY DEF LinkIInv, LinkTyped
<1>3. /\ DOMAIN userRow' = User
      /\ \A v \in User : /\ DOMAIN userRow'[v] = DOMAIN userRow[v]
                         /\ userRow'[v].id = userRow[v].id
                         /\ userRow'[v].token = userRow[v].token
                         /\ userRow'[v].tier = userRow[v].tier
  BY <1>1, <1>2 DEF IsLink
<1>4. LinkTyped'
  BY <1>1, <1>2, <1>3 DEF LinkIInv, LinkTyped, IsLink, IsWork, Tokens, Link!Issued
<1>5. \A t \in Thread, v \in User : Serves(t, v)' <=> Serves(t, v)
  BY <1>1 DEF Serves
<1>6. \A v \in User : \A k : Knows(v, k)' <=> Knows(v, k)
  BY <1>1, <1>3, <1>5 DEF Knows
<1>7. Apart'
  BY <1>1, <1>3, <1>6 DEF LinkIInv, Apart, Link!Issued
<1>8. ASSUME NEW v \in User \ mixed
      PROVE  Orderly(v)'
  BY <1>1, <1>3, <1>5 DEF LinkIInv, Orderly, Whole, InStep
<1>9. ASSUME NEW v \in User \ (mixed \cup lost)
      PROVE  Usable(v)'
  BY <1>1, <1>3, <1>5 DEF LinkIInv, Usable
<1> QED
  BY <1>1, <1>4, <1>7, <1>8, <1>9 DEF LinkIInv

LEMMA LinkInit == Link!Init => LinkIInv
<1> SUFFICES ASSUME Link!Init
             PROVE  LinkIInv
  OBVIOUS
<1>1. /\ owner = << >> /\ alive = {} /\ userRow = [u \in User |-> Link!Unlinked]
      /\ work = [t \in Thread |-> Link!NoWork]
  BY DEF Link!Init
<1>2. \A u \in User : /\ IsLink(userRow[u]) /\ ~userRow[u].tier /\ userRow[u].tier \in BOOLEAN
                      /\ userRow[u].id = None /\ userRow[u].token = 0
  <2>1. PICK r : r = Link!Unlinked
    OBVIOUS
  <2>2. /\ DOMAIN r = {"id", "tier", "token", "fresh"}
        /\ r.id = None /\ r.token = 0 /\ r.tier \in BOOLEAN /\ ~r.tier
    BY <2>1 DEF Link!Unlinked
  <2>3. IsLink(r)
    BY <1>1, <2>2 DEF IsLink, Tokens, Link!Issued
  <2>4. \A u \in User : userRow[u] = r
    BY <1>1, <2>1
  <2> QED
    BY <2>2, <2>3, <2>4
<1>3. \A t \in Thread : IsWork(work[t]) /\ work[t].phase = "idle"
  BY <1>1, NoWorkIdle
<1>4. LinkTyped
  BY <1>1, <1>2, <1>3 DEF LinkTyped
<1>5. Apart
  BY <1>1, <1>2, <1>3 DEF Apart, Knows, Serves, Link!Issued
<1>6. \A u \in User : Orderly(u) /\ Usable(u)
  BY <1>2, <1>3 DEF Orderly, Usable, Serves, Whole
<1> QED
  BY <1>4, <1>5, <1>6 DEF LinkIInv

LEMMA LinkNext == LinkIInv /\ [Link!Next]_Link!vars => LinkIInv'
<1> SUFFICES ASSUME LinkIInv, [Link!Next]_Link!vars
             PROVE  LinkIInv'
  OBVIOUS
<1>1. CASE UNCHANGED Link!vars
  <2>1. UNCHANGED <<userRow, work, owner, alive, member, lost, mixed>>
    BY <1>1 DEF Link!vars
  <2> QED
    BY <2>1 DEF LinkIInv, LinkTyped, Apart, Orderly, Usable, Serves, Knows, Whole, InStep,
                IsLink, IsWork, Tokens, Link!Issued
<1>2. ASSUME NEW t \in Thread, NEW u \in User,
             \/ Link!Begin(t, u, "sync", None)
             \/ Link!Begin(t, u, "unlink", None)
             \/ \E p \in Patron : Link!Begin(t, u, "callback", p)
      PROVE  LinkIInv'
  BY <1>2, BeginStep
<1>3. ASSUME NEW p \in Patron, Link!Pledge(p)
      PROVE  LinkIInv'
  <2>1. UNCHANGED <<userRow, work, owner, alive, lost, mixed>>
    BY <1>3 DEF Link!Pledge
  <2> QED
    BY <2>1 DEF LinkIInv, LinkTyped, Apart, Orderly, Usable, Serves, Knows, Whole, InStep,
                IsLink, IsWork, Tokens, Link!Issued
<1> QED
  BY <1>1, <1>2, <1>3, GetTokenStep, RefreshStep, RefreshFailsStep, StoreRefreshedStep,
     FetchTierStep, StoreTierStep, ExchangeStep, FetchProfileStep, StoreLinkStep, UnlinkStep,
     FailStep, AgeStep DEF Link!Next

LEMMA LinkStart == Init /\ part = "link" => Link!Init
  BY DEF Init

LEMMA LinkStep ==
    [Next]_allVars /\ part = "link" => part' = "link" /\ [Link!Next]_Link!vars
  BY DEF Next, allVars, linkVars, Link!vars

\* A request that is alone with its account writes over what it has read.
THEOREM LinkInvariant == Spec => [](part = "link" => LinkIInv)
<1>1. Init => (part = "link" => LinkIInv)
  BY LinkStart, LinkInit
<1>2. (part = "link" => LinkIInv) /\ [Next]_allVars => (part = "link" => LinkIInv)'
  <2>1. [Next]_allVars => part' = part
    BY DEF Next, allVars
  <2> QED
    BY <2>1, LinkStep, LinkNext
<1> QED
  BY <1>1, <1>2, PTL DEF Spec

\* An account whose requests never overlapped is linked wholly or not at all, with
\* the tokens of the Patreon account it names (store_link, unlink_user).
THEOREM LinkWholeHolds == Spec => []LinkWhole
<1>1. (part = "link" => LinkIInv) => LinkWhole
  BY DEF LinkIInv, Orderly, Whole, LinkWhole, Link!LinkWhole
<1> QED
  BY <1>1, LinkInvariant, PTL

\* Unless an answer of Patreon gets lost, the refresh token an account has stored
\* is one that Patreon still takes (get_valid_token).
THEOREM StoredTokenAliveHolds == Spec => []StoredTokenAlive
<1>1. (part = "link" => LinkIInv) => StoredTokenAlive
  <2> SUFFICES ASSUME LinkIInv, NEW u \in User, Link!Quiet(u), u \notin lost, userRow[u].token # 0
               PROVE  userRow[u].token \in alive
    BY DEF StoredTokenAlive, Link!StoredTokenAlive
  <2>1. Usable(u) /\ \A t \in Thread : ~Serves(t, u)
    BY DEF LinkIInv, Link!Quiet, Link!Serving, Serves
  <2> QED
    BY <2>1 DEF Usable
<1> QED
  BY <1>1, LinkInvariant, PTL

\* Two accounts never hold tokens of one Patreon account (the column patreon_id).
THEOREM OneAccountPerPatronHolds == Spec => []OneAccountPerPatron
<1>1. (part = "link" => LinkIInv) => OneAccountPerPatron
  BY DEF LinkIInv, Orderly, Whole, Apart, OneAccountPerPatron, Link!OneAccountPerPatron
<1> QED
  BY <1>1, LinkInvariant, PTL

-----------------------------------------------------------------------------
(* Login: the inductive invariant.  The bound is not inductive by itself: a  *)
(* request that passed the check has still to record its failure, so what is *)
(* on record is counted together with what may yet come.                     *)

Phases == {"idle", "pair", "name", "verify", "failed", "clear", "success", "notify"}

TypeOK ==
    /\ clock \in Nat
    /\ login \in [Thread -> [phase : Phases, ip : Ip, name : Username, cutoff : Int]]
    /\ attempts \in Seq([ip : Ip, name : Username, success : BOOLEAN, at : Nat])
    /\ present \subseteq 1 .. Len(attempts)

\* A request that is being checked looks back a window at least.
CutoffPast ==
    \A x \in Thread : login[x].phase \in {"pair", "name"} =>
                         login[x].cutoff + ThrottleWindow <= clock

\* The failures on record in a window, and the requests that may add one.
Recent(name, t) ==
    {i \in Door!RowsWith(name, FALSE) : attempts[i].at \in t .. t + ThrottleWindow}
Passed(name) ==
    {x \in Thread : login[x].phase \in {"verify", "failed"} /\ login[x].name = name}

Within(name, t) ==
    /\ Cardinality(Recent(name, t)) <= MaxFailed + Cardinality(Thread) - 1
    /\ clock <= t + ThrottleWindow =>
          Cardinality(Recent(name, t)) + Cardinality(Passed(name))
             <= MaxFailed + Cardinality(Thread) - 1

Bounded == \A name \in Username, t \in Nat : Within(name, t)

DoorInv == TypeOK /\ CutoffPast /\ Bounded

-----------------------------------------------------------------------------
(* Finiteness.                                                             *)

\* The instance counts as this module does.
LEMMA DoorCardinality == \A S : Door!Cardinality(S) = Cardinality(S)
  BY DEF Door!Cardinality, Cardinality

LEMMA PresentFinite ==
    ASSUME TypeOK
    PROVE  IsFiniteSet(present)
<1>1. Len(attempts) \in Nat
  BY DEF TypeOK
<1>2. IsFiniteSet(1 .. Len(attempts))
  BY <1>1, FS_Interval
<1> QED
  BY <1>2, FS_Subset DEF TypeOK

LEMMA RecentFinite ==
    ASSUME TypeOK, NEW name, NEW t
    PROVE  /\ IsFiniteSet(Recent(name, t))
           /\ Cardinality(Recent(name, t)) \in Nat
<1>1. Recent(name, t) \subseteq present
  BY DEF Recent, Door!RowsWith
<1>2. IsFiniteSet(Recent(name, t))
  BY <1>1, PresentFinite, FS_Subset
<1> QED
  BY <1>2, FS_CardinalityType

LEMMA PassedFinite ==
    ASSUME NEW name
    PROVE  /\ IsFiniteSet(Passed(name))
           /\ Cardinality(Passed(name)) \in Nat
           /\ Cardinality(Thread) \in Nat
           /\ Cardinality(Passed(name)) <= Cardinality(Thread)
<1>1. Passed(name) \subseteq Thread /\ IsFiniteSet(Thread)
  BY DoorAssumption DEF Passed
<1>2. IsFiniteSet(Passed(name)) /\ Cardinality(Passed(name)) <= Cardinality(Thread)
  BY <1>1, FS_Subset
<1> QED
  BY <1>1, <1>2, FS_CardinalityType

-----------------------------------------------------------------------------
(* Types.                                                                  *)

LEMMA NoLoginType ==
    /\ Door!NoLogin \in [phase : Phases, ip : Ip, name : Username, cutoff : Int]
    /\ Door!NoLogin.phase = "idle"
  BY DoorAssumption DEF Door!NoLogin, Phases

LEMMA RecordType ==
    ASSUME TypeOK, NEW x \in Thread, NEW success \in BOOLEAN, Door!Record(x, success)
    PROVE  /\ attempts' \in Seq([ip : Ip, name : Username, success : BOOLEAN, at : Nat])
           /\ present' \subseteq 1 .. Len(attempts')
           /\ Len(attempts') = Len(attempts) + 1
           /\ attempts'[Len(attempts) + 1].success = success
           /\ attempts'[Len(attempts) + 1].ip = login[x].ip
           /\ attempts'[Len(attempts) + 1].name = login[x].name
           /\ attempts'[Len(attempts) + 1].at = clock
           /\ \A i \in 1 .. Len(attempts) : attempts'[i] = attempts[i]
<1> DEFINE Row == [ip : Ip, name : Username, success : BOOLEAN, at : Nat]
<1> DEFINE new == [ip |-> login[x].ip, name |-> login[x].name, success |-> success, at |-> clock]
<1>1. new \in Row
  BY DEF TypeOK
<1>2. attempts \in Seq(Row) /\ Len(attempts) \in Nat
  BY DEF TypeOK
<1>3. attempts' = Append(attempts, new) /\ present' = present \cup {Len(attempts) + 1}
  BY DEF Door!Record
<1>4. /\ new.success = success
      /\ new.ip = login[x].ip
      /\ new.name = login[x].name
      /\ new.at = clock
  OBVIOUS
<1> HIDE DEF new, Row
<1>5. /\ attempts' \in Seq(Row)
      /\ Len(attempts') = Len(attempts) + 1
      /\ attempts'[Len(attempts) + 1] = new
      /\ \A i \in 1 .. Len(attempts) : attempts'[i] = attempts[i]
  BY <1>1, <1>2, <1>3
<1>6. present' \subseteq 1 .. Len(attempts')
  <2>1. present \subseteq 1 .. Len(attempts)
    BY DEF TypeOK
  <2>2. Len(attempts') = Len(attempts) + 1
    BY <1>5
  <2>3. 1 .. Len(attempts) \cup {Len(attempts) + 1} \subseteq 1 .. Len(attempts')
    BY <2>2, <1>2
  <2> QED
    BY <1>3, <2>1, <2>3
<1> QED
  BY <1>4, <1>5, <1>6 DEF Row

\* What a request does with its own record.
LEMMA DoorGoFacts ==
    ASSUME TypeOK, NEW x \in Thread, NEW phase \in Phases, Door!Go(x, phase)
    PROVE  /\ login' \in [Thread -> [phase : Phases, ip : Ip, name : Username, cutoff : Int]]
           /\ login'[x].phase = phase
           /\ login'[x].ip = login[x].ip
           /\ login'[x].name = login[x].name
           /\ login'[x].cutoff = login[x].cutoff
           /\ \A y \in Thread \ {x} : login'[y] = login[y]
  BY DEF TypeOK, Door!Go

LEMMA LeaveFacts ==
    ASSUME TypeOK, NEW x \in Thread, Door!Leave(x)
    PROVE  /\ login' \in [Thread -> [phase : Phases, ip : Ip, name : Username, cutoff : Int]]
           /\ login'[x].phase = "idle"
           /\ \A y \in Thread \ {x} : login'[y] = login[y]
<1>1. login' = [login EXCEPT ![x] = Door!NoLogin]
  BY DEF Door!Leave
<1> QED
  BY <1>1, NoLoginType DEF TypeOK

\* Every step either leaves the requests alone, or changes that of one thread.
LEMMA TypeStep ==
    ASSUME TypeOK, CutoffPast, [Door!Next]_Door!vars
    PROVE  TypeOK' /\ CutoffPast' /\ clock <= clock'
<1> USE DEF TypeOK
<1>1. CASE UNCHANGED Door!vars
  BY <1>1 DEF Door!vars, CutoffPast
<1>2. CASE Door!Tick
  <2>1. clock' = clock + 1 /\ UNCHANGED <<login, attempts, present>>
    BY <1>2 DEF Door!Tick
  <2>2. TypeOK' /\ clock <= clock'
    BY <2>1
  <2>3. \A x \in Thread : login[x].cutoff \in Int
    OBVIOUS
  <2>4. CutoffPast'
    BY <2>1, <2>3, DoorAssumption DEF CutoffPast
  <2> QED
    BY <2>2, <2>4
<1>3. ASSUME NEW x \in Thread, NEW ip \in Ip, NEW name \in Username, Door!Post(x, ip, name)
      PROVE  TypeOK' /\ CutoffPast' /\ clock <= clock'
  <2> DEFINE new == [phase |-> "pair", ip |-> ip, name |-> name,
                     cutoff |-> clock - ThrottleWindow]
  <2>1. login' = [login EXCEPT ![x] = new] /\ UNCHANGED <<clock, attempts, present>>
    BY <1>3 DEF Door!Post
  <2>2. new \in [phase : Phases, ip : Ip, name : Username, cutoff : Int]
    BY DoorAssumption DEF Phases
  <2>3. new.cutoff + ThrottleWindow <= clock
    BY DoorAssumption
  <2> HIDE DEF new
  <2>4. TypeOK' /\ clock <= clock'
    BY <2>1, <2>2
  <2>5. \A y \in Thread \ {x} : login'[y] = login[y]
    BY <2>1
  <2>6. login'[x] = new
    BY <2>1
  <2>7. CutoffPast'
    <3> SUFFICES ASSUME NEW y \in Thread, login'[y].phase \in {"pair", "name"}
                 PROVE  login'[y].cutoff + ThrottleWindow <= clock'
      BY DEF CutoffPast
    <3>1. clock' = clock
      BY <2>1
    <3>2. CASE y = x
      BY <2>3, <2>6, <3>1, <3>2
    <3>3. CASE y # x
      BY <2>5, <3>1, <3>3 DEF CutoffPast
    <3> QED
      BY <3>2, <3>3
  <2> QED
    BY <2>4, <2>7
<1>4. ASSUME NEW x \in Thread, Door!Leave(x), UNCHANGED <<clock, attempts>>,
             present' \subseteq present
      PROVE  TypeOK' /\ CutoffPast' /\ clock <= clock'
  <2>1. TypeOK' /\ clock <= clock'
    BY <1>4, LeaveFacts
  <2>2. CutoffPast'
    BY <1>4, LeaveFacts DEF CutoffPast
  <2> QED
    BY <2>1, <2>2
<1>5. ASSUME NEW x \in Thread, NEW phase \in Phases, Door!Go(x, phase),
             phase = "name" => login[x].phase = "pair", phase # "pair",
             UNCHANGED <<clock, attempts>>, present' \subseteq present
      PROVE  TypeOK' /\ CutoffPast' /\ clock <= clock'
  <2>1. TypeOK' /\ clock <= clock'
    BY <1>5, DoorGoFacts
  <2>2. CutoffPast'
    <3> SUFFICES ASSUME NEW y \in Thread, login'[y].phase \in {"pair", "name"}
                 PROVE  login'[y].cutoff + ThrottleWindow <= clock'
      BY DEF CutoffPast
    <3>1. /\ login'[x].phase = phase
          /\ login'[x].cutoff = login[x].cutoff
          /\ \A z \in Thread \ {x} : login'[z] = login[z]
      BY <1>5, DoorGoFacts
    <3>2. CASE y = x
      BY <1>5, <3>1, <3>2 DEF CutoffPast
    <3>3. CASE y # x
      BY <1>5, <3>1, <3>3 DEF CutoffPast
    <3> QED
      BY <3>2, <3>3
  <2> QED
    BY <2>1, <2>2
<1>6. ASSUME NEW x \in Thread, Door!CheckPair(x)
      PROVE  TypeOK' /\ CutoffPast' /\ clock <= clock'
  <2>1. login[x].phase = "pair" /\ (Door!Leave(x) \/ Door!Go(x, "name"))
    BY <1>6 DEF Door!CheckPair, Door!At
  <2>2. UNCHANGED <<clock, attempts>> /\ present' \subseteq present
    BY <1>6 DEF Door!CheckPair
  <2> QED
    BY <2>1, <2>2, <1>4, <1>5 DEF Phases
<1>7. ASSUME NEW x \in Thread, Door!CheckName(x)
      PROVE  TypeOK' /\ CutoffPast' /\ clock <= clock'
  <2>1. Door!Leave(x) \/ Door!Go(x, "verify")
    BY <1>7 DEF Door!CheckName
  <2>2. UNCHANGED <<clock, attempts>> /\ present' \subseteq present
    BY <1>7 DEF Door!CheckName
  <2> QED
    BY <2>1, <2>2, <1>4, <1>5 DEF Phases
<1>8. ASSUME NEW x \in Thread, Door!Verify(x)
      PROVE  TypeOK' /\ CutoffPast' /\ clock <= clock'
  <2>1. Door!Go(x, "clear") \/ Door!Go(x, "failed")
    BY <1>8 DEF Door!Verify
  <2>2. UNCHANGED <<clock, attempts>> /\ present' \subseteq present
    BY <1>8 DEF Door!Verify
  <2> QED
    BY <2>1, <2>2, <1>5 DEF Phases
<1>9. ASSUME NEW x \in Thread, Door!ClearFailures(x)
      PROVE  TypeOK' /\ CutoffPast' /\ clock <= clock'
  <2>1. Door!Go(x, "success")
    BY <1>9 DEF Door!ClearFailures
  <2>2. UNCHANGED <<clock, attempts>> /\ present' \subseteq present
    BY <1>9 DEF Door!ClearFailures
  <2> QED
    BY <2>1, <2>2, <1>5 DEF Phases
<1>10. ASSUME NEW x \in Thread, Door!Notify(x) \/ Door!Fail(x)
       PROVE  TypeOK' /\ CutoffPast' /\ clock <= clock'
  <2>1. Door!Leave(x) /\ UNCHANGED <<clock, attempts>> /\ present' \subseteq present
    BY <1>10 DEF Door!Notify, Door!Fail
  <2> QED
    BY <2>1, <1>4
<1>11. ASSUME NEW x \in Thread, Door!RecordFailure(x)
       PROVE  TypeOK' /\ CutoffPast' /\ clock <= clock'
  <2>1. Door!Record(x, FALSE) /\ Door!Leave(x) /\ clock' = clock
    BY <1>11 DEF Door!RecordFailure
  <2>2. TypeOK'
    <3>1. /\ attempts' \in Seq([ip : Ip, name : Username, success : BOOLEAN, at : Nat])
          /\ present' \subseteq 1 .. Len(attempts')
      BY <2>1, RecordType
    <3>2. login' \in [Thread -> [phase : Phases, ip : Ip, name : Username, cutoff : Int]]
      BY <2>1, LeaveFacts
    <3>3. clock' \in Nat
      BY <2>1
    <3> QED
      BY <3>1, <3>2, <3>3
  <2>3. CutoffPast'
    BY <2>1, LeaveFacts DEF CutoffPast
  <2> QED
    BY <2>1, <2>2, <2>3
<1>12. ASSUME NEW x \in Thread, Door!RecordSuccess(x)
       PROVE  TypeOK' /\ CutoffPast' /\ clock <= clock'
  <2>1. Door!Record(x, TRUE) /\ Door!Go(x, "notify") /\ clock' = clock
    BY <1>12 DEF Door!RecordSuccess
  <2>2. TypeOK'
    <3>1. /\ attempts' \in Seq([ip : Ip, name : Username, success : BOOLEAN, at : Nat])
          /\ present' \subseteq 1 .. Len(attempts')
      BY <2>1, RecordType
    <3>2. login' \in [Thread -> [phase : Phases, ip : Ip, name : Username, cutoff : Int]]
      BY <2>1, DoorGoFacts DEF Phases
    <3>3. clock' \in Nat
      BY <2>1
    <3> QED
      BY <3>1, <3>2, <3>3
  <2>3. CutoffPast'
    BY <2>1, DoorGoFacts DEF CutoffPast, Phases
  <2> QED
    BY <2>1, <2>2, <2>3
<1> QED
  BY <1>1, <1>2, <1>3, <1>6, <1>7, <1>8, <1>9, <1>10, <1>11, <1>12 DEF Door!Next, Door!Step

-----------------------------------------------------------------------------
(* The bound.                                                              *)

\* It survives every step that adds neither a failure nor a request to fail.
LEMMA Calm ==
    ASSUME TypeOK, NEW name \in Username, NEW t \in Nat, Within(name, t),
           Recent(name, t)' \subseteq Recent(name, t),
           Passed(name)' \subseteq Passed(name),
           clock' \in Nat, clock <= clock'
    PROVE  Within(name, t)'
<1>1. /\ IsFiniteSet(Recent(name, t)) /\ IsFiniteSet(Passed(name))
      /\ Cardinality(Recent(name, t)) \in Nat /\ Cardinality(Passed(name)) \in Nat
      /\ Cardinality(Thread) \in Nat
  BY RecentFinite, PassedFinite
<1>2. /\ IsFiniteSet(Recent(name, t)') /\ IsFiniteSet(Passed(name)')
      /\ Cardinality(Recent(name, t)') <= Cardinality(Recent(name, t))
      /\ Cardinality(Passed(name)') <= Cardinality(Passed(name))
  BY <1>1, FS_Subset
<1>3. Cardinality(Recent(name, t)') \in Nat /\ Cardinality(Passed(name)') \in Nat
  BY <1>2, FS_CardinalityType
<1> QED
  BY <1>1, <1>2, <1>3, DoorAssumption DEF Within, TypeOK

\* Rows that stay or go add no failure; nor does one of a success.
LEMMA NoNewFailure ==
    ASSUME TypeOK, NEW name, NEW t,
           \/ attempts' = attempts /\ present' \subseteq present
           \/ \E x \in Thread : Door!Record(x, TRUE)
    PROVE  Recent(name, t)' \subseteq Recent(name, t)
<1>1. CASE attempts' = attempts /\ present' \subseteq present
  BY <1>1 DEF Recent, Door!RowsWith
<1>2. CASE \E x \in Thread : Door!Record(x, TRUE)
  <2>1. PICK x \in Thread : Door!Record(x, TRUE)
    BY <1>2
  <2>2. /\ attempts'[Len(attempts) + 1].success = TRUE
        /\ \A i \in 1 .. Len(attempts) : attempts'[i] = attempts[i]
    BY <2>1, RecordType
  <2>3. present' = present \cup {Len(attempts) + 1} /\ present \subseteq 1 .. Len(attempts)
    BY <2>1 DEF Door!Record, TypeOK
  <2> QED
    BY <2>2, <2>3 DEF Recent, Door!RowsWith
<1> QED
  BY <1>1, <1>2

\* A request that passes the check saw fewer failures than the limit.
LEMMA CheckNameStep ==
    ASSUME DoorInv, NEW x \in Thread, Door!CheckName(x), Door!Go(x, "verify"),
           ~Door!TooMany(Door!RowsWith(login[x].name, FALSE), login[x].cutoff),
           NEW name \in Username, NEW t \in Nat
    PROVE  Within(name, t)'
<1> USE DEF DoorInv
<1>1. /\ Recent(name, t)' = Recent(name, t) /\ clock' = clock
      /\ login[x].phase = "name"
  BY DEF Door!CheckName, Door!At, Recent, Door!RowsWith
<1>2. /\ login'[x].name = login[x].name
      /\ \A y \in Thread \ {x} : login'[y] = login[y]
  BY DoorGoFacts DEF Phases
<1>3. Within(name, t) /\ clock \in Nat
  BY DEF Bounded, TypeOK
<1>4. CASE login[x].name # name
  <2>1. Passed(name)' \subseteq Passed(name)
    BY <1>2, <1>4 DEF Passed
  <2> QED
    BY <1>1, <1>3, <2>1, Calm
<1>5. CASE login[x].name = name
  <2>1. CASE clock <= t + ThrottleWindow
    <3>1. login[x].cutoff \in Int /\ login[x].cutoff + ThrottleWindow <= clock
      BY <1>1 DEF CutoffPast, TypeOK
    <3>2. login[x].cutoff <= t
      BY <2>1, <3>1, <1>3, DoorAssumption
    <3>3. \A i \in Door!RowsWith(name, FALSE) : attempts[i].at \in Nat
      <4> DEFINE Row == [ip : Ip, name : Username, success : BOOLEAN, at : Nat]
      <4>1. attempts \in Seq(Row) /\ present \subseteq 1 .. Len(attempts)
        BY DEF TypeOK
      <4>2. \A row \in Row : row.at \in Nat
        OBVIOUS
      <4> HIDE DEF Row
      <4>3. \A i \in present : attempts[i] \in Row
        BY <4>1
      <4> QED
        BY <4>2, <4>3 DEF Door!RowsWith
    <3>4. Recent(name, t) \subseteq Door!Since(Door!RowsWith(name, FALSE), login[x].cutoff)
      <4> SUFFICES ASSUME NEW i \in Recent(name, t)
                   PROVE  i \in Door!RowsWith(name, FALSE) /\ attempts[i].at >= login[x].cutoff
        BY DEF Door!Since
      <4>1. i \in Door!RowsWith(name, FALSE) /\ attempts[i].at \in t .. t + ThrottleWindow
        BY DEF Recent
      <4>2. attempts[i].at \in Nat /\ attempts[i].at >= t
        BY <3>3, <4>1, DoorAssumption
      <4>3. t \in Int /\ attempts[i].at >= login[x].cutoff
        BY <3>1, <3>2, <4>2
      <4> QED
        BY <4>1, <4>3
    <3> DEFINE Seen == Door!Since(Door!RowsWith(name, FALSE), login[x].cutoff)
    <3>5. Seen \subseteq present
      BY DEF Door!Since, Door!RowsWith
    <3>6. IsFiniteSet(Seen)
      BY <3>5, PresentFinite, FS_Subset
    <3>7. Cardinality(Seen) \in Nat /\ Cardinality(Recent(name, t)) <= Cardinality(Seen)
      BY <3>4, <3>6, FS_Subset, FS_CardinalityType
    <3>8. ~(Cardinality(Seen) >= MaxFailed)
      BY <1>5, DoorCardinality DEF Door!TooMany
    <3>9. /\ Cardinality(Passed(name)') \in Nat
          /\ Cardinality(Passed(name)') <= Cardinality(Thread)
          /\ Cardinality(Thread) \in Nat
      <4>1. Passed(name)' \subseteq Thread /\ IsFiniteSet(Thread)
        BY DoorAssumption DEF Passed
      <4> QED
        BY <4>1, FS_Subset, FS_CardinalityType
    <3>10. Cardinality(Recent(name, t)) \in Nat
      BY RecentFinite
    <3> HIDE DEF Seen
    <3>11. Cardinality(Recent(name, t)) <= MaxFailed - 1
      BY <3>7, <3>8, <3>10, DoorAssumption
    <3>12. /\ Cardinality(Recent(name, t)') <= MaxFailed + Cardinality(Thread) - 1
           /\ Cardinality(Recent(name, t)') + Cardinality(Passed(name)')
                 <= MaxFailed + Cardinality(Thread) - 1
      BY <1>1, <3>9, <3>10, <3>11, DoorAssumption
    <3> QED
      BY <3>12 DEF Within
  <2>2. CASE ~(clock <= t + ThrottleWindow)
    BY <1>1, <1>3, <2>2 DEF Within
  <2> QED
    BY <2>1, <2>2
<1> QED
  BY <1>4, <1>5

\* A failure that is recorded is one that was to come.
LEMMA RecordFailureStep ==
    ASSUME DoorInv, NEW x \in Thread, Door!RecordFailure(x),
           NEW name \in Username, NEW t \in Nat
    PROVE  Within(name, t)'
<1> USE DEF DoorInv
<1>1. /\ login[x].phase = "failed" /\ Door!Record(x, FALSE) /\ Door!Leave(x)
      /\ clock' = clock
  BY DEF Door!RecordFailure, Door!At
<1>2. login'[x].phase = "idle" /\ \A y \in Thread \ {x} : login'[y] = login[y]
  BY <1>1, LeaveFacts
<1>3. Passed(name)' = Passed(name) \ {x}
  BY <1>2 DEF Passed
<1>4. Within(name, t) /\ clock \in Nat
  BY DEF Bounded, TypeOK
<1> DEFINE new == Len(attempts) + 1
<1>5. /\ attempts'[new].name = login[x].name
      /\ attempts'[new].at = clock
      /\ \A i \in 1 .. Len(attempts) : attempts'[i] = attempts[i]
  BY <1>1, RecordType
<1>6. present' = present \cup {new} /\ present \subseteq 1 .. Len(attempts)
  BY <1>1 DEF Door!Record, TypeOK
<1> HIDE DEF new
<1>7. CASE login[x].name = name /\ clock \in t .. t + ThrottleWindow
  <2>1. x \in Passed(name)
    BY <1>1, <1>7 DEF Passed
  <2>2. Recent(name, t)' \subseteq Recent(name, t) \cup {new}
    BY <1>5, <1>6 DEF Recent, Door!RowsWith
  <2>3. /\ IsFiniteSet(Recent(name, t)) /\ Cardinality(Recent(name, t)) \in Nat
        /\ IsFiniteSet(Passed(name)) /\ Cardinality(Passed(name)) \in Nat
        /\ Cardinality(Thread) \in Nat
    BY RecentFinite, PassedFinite
  <2>4. /\ IsFiniteSet(Recent(name, t) \cup {new})
        /\ Cardinality(Recent(name, t) \cup {new}) <= Cardinality(Recent(name, t)) + 1
    <3>1. /\ IsFiniteSet(Recent(name, t) \cup {new})
          /\ Cardinality(Recent(name, t) \cup {new})
                = IF new \in Recent(name, t) THEN Cardinality(Recent(name, t))
                                             ELSE Cardinality(Recent(name, t)) + 1
      BY <2>3, FS_AddElement
    <3> QED
      BY <2>3, <3>1
  <2>5. IsFiniteSet(Recent(name, t)')
    BY <2>2, <2>4, FS_Subset
  <2>6. /\ Cardinality(Recent(name, t)') <= Cardinality(Recent(name, t) \cup {new})
        /\ Cardinality(Recent(name, t) \cup {new}) \in Nat
        /\ Cardinality(Recent(name, t)') \in Nat
    BY <2>2, <2>4, <2>5, FS_Subset, FS_CardinalityType
  <2>7. Cardinality(Passed(name)') = Cardinality(Passed(name)) - 1
    BY <1>3, <2>1, <2>3, FS_RemoveElement
  <2>8. IsFiniteSet(Passed(name)') 
    BY <1>3, <2>3, FS_RemoveElement
  <2>9. Cardinality(Passed(name)') \in Nat
    BY <2>8, FS_CardinalityType
  <2>10. Cardinality(Recent(name, t)) + Cardinality(Passed(name))
            <= MaxFailed + Cardinality(Thread) - 1
    BY <1>4, <1>7, DoorAssumption DEF Within
  <2>11. Cardinality(Recent(name, t)') + Cardinality(Passed(name)')
            <= MaxFailed + Cardinality(Thread) - 1
    BY <2>3, <2>4, <2>6, <2>7, <2>10, DoorAssumption
  <2>12. Cardinality(Recent(name, t)') <= MaxFailed + Cardinality(Thread) - 1
    BY <2>3, <2>6, <2>9, <2>11, DoorAssumption
  <2> QED
    BY <2>11, <2>12 DEF Within
<1>8. CASE ~(login[x].name = name /\ clock \in t .. t + ThrottleWindow)
  <2>1. Recent(name, t)' \subseteq Recent(name, t)
    BY <1>5, <1>6, <1>8 DEF Recent, Door!RowsWith
  <2> QED
    BY <1>1, <1>3, <1>4, <2>1, Calm
<1> QED
  BY <1>7, <1>8

LEMMA BoundedStep ==
    ASSUME DoorInv, [Door!Next]_Door!vars
    PROVE  Bounded'
<1> USE DEF DoorInv
<1> SUFFICES ASSUME NEW name \in Username, NEW t \in Nat
             PROVE  Within(name, t)'
  BY DEF Bounded
<1>1. Within(name, t) /\ clock' \in Nat /\ clock <= clock'
  BY TypeStep DEF Bounded, TypeOK
<1>2. ASSUME attempts' = attempts /\ present' \subseteq present,
             Passed(name)' \subseteq Passed(name)
      PROVE  Within(name, t)'
  BY <1>1, <1>2, Calm, NoNewFailure
<1>3. CASE UNCHANGED Door!vars
  BY <1>2, <1>3 DEF Door!vars, Passed
<1>4. CASE Door!Tick
  BY <1>2, <1>4 DEF Door!Tick, Passed
<1>5. ASSUME NEW x \in Thread, NEW ip \in Ip, NEW n \in Username, Door!Post(x, ip, n)
      PROVE  Within(name, t)'
  <2>1. login' = [login EXCEPT ![x] = [phase |-> "pair", ip |-> ip, name |-> n,
                                       cutoff |-> clock - ThrottleWindow]]
    BY <1>5 DEF Door!Post
  <2>2. login'[x].phase = "pair" /\ \A y \in Thread \ {x} : login'[y] = login[y]
    BY <2>1 DEF TypeOK
  <2> QED
    BY <1>2, <1>5, <2>2 DEF Door!Post, Passed
<1>6. ASSUME NEW x \in Thread, Door!Leave(x), attempts' = attempts, present' \subseteq present
      PROVE  Within(name, t)'
  <2>1. login'[x].phase = "idle" /\ \A y \in Thread \ {x} : login'[y] = login[y]
    BY <1>6, LeaveFacts
  <2> QED
    BY <1>2, <1>6, <2>1 DEF Passed
<1>7. ASSUME NEW x \in Thread, NEW phase \in Phases, Door!Go(x, phase),
             phase = "failed" => login[x].phase = "verify", phase # "verify"
      PROVE  Passed(name)' \subseteq Passed(name)
  BY <1>7, DoorGoFacts DEF Passed
<1>8. ASSUME NEW x \in Thread, Door!CheckPair(x)
      PROVE  Within(name, t)'
  <2>1. (Door!Leave(x) \/ Door!Go(x, "name")) /\ UNCHANGED <<attempts, present>>
    BY <1>8 DEF Door!CheckPair
  <2> QED
    BY <2>1, <1>2, <1>6, <1>7 DEF Phases
<1>9. ASSUME NEW x \in Thread, Door!CheckName(x)
      PROVE  Within(name, t)'
  <2>1. CASE Door!TooMany(Door!RowsWith(login[x].name, FALSE), login[x].cutoff)
    BY <1>6, <1>9, <2>1 DEF Door!CheckName
  <2>2. CASE ~Door!TooMany(Door!RowsWith(login[x].name, FALSE), login[x].cutoff)
    <3>1. Door!Go(x, "verify")
      BY <1>9, <2>2 DEF Door!CheckName
    <3> QED
      BY <1>9, <2>2, <3>1, CheckNameStep
  <2> QED
    BY <2>1, <2>2
<1>10. ASSUME NEW x \in Thread, Door!Verify(x)
       PROVE  Within(name, t)'
  <2>1. /\ login[x].phase = "verify" /\ (Door!Go(x, "clear") \/ Door!Go(x, "failed"))
        /\ UNCHANGED <<attempts, present>>
    BY <1>10 DEF Door!Verify, Door!At
  <2> QED
    BY <2>1, <1>2, <1>7 DEF Phases
<1>11. ASSUME NEW x \in Thread, Door!ClearFailures(x)
       PROVE  Within(name, t)'
  <2>1. Door!Go(x, "success") /\ attempts' = attempts /\ present' \subseteq present
    BY <1>11 DEF Door!ClearFailures
  <2> QED
    BY <2>1, <1>2, <1>7 DEF Phases
<1>12. ASSUME NEW x \in Thread, Door!Notify(x) \/ Door!Fail(x)
       PROVE  Within(name, t)'
  <2>1. Door!Leave(x) /\ UNCHANGED <<attempts, present>>
    BY <1>12 DEF Door!Notify, Door!Fail
  <2> QED
    BY <2>1, <1>6
<1>13. ASSUME NEW x \in Thread, Door!RecordSuccess(x)
       PROVE  Within(name, t)'
  <2>1. Door!Record(x, TRUE) /\ Door!Go(x, "notify")
    BY <1>13 DEF Door!RecordSuccess
  <2>2. Passed(name)' \subseteq Passed(name)
    BY <2>1, <1>7 DEF Phases
  <2>3. Recent(name, t)' \subseteq Recent(name, t)
    BY <2>1, NoNewFailure
  <2> QED
    BY <1>1, <2>2, <2>3, Calm
<1>14. ASSUME NEW x \in Thread, Door!RecordFailure(x)
       PROVE  Within(name, t)'
  BY <1>14, RecordFailureStep
<1> QED
  BY <1>3, <1>4, <1>5, <1>8, <1>9, <1>10, <1>11, <1>12, <1>13, <1>14 DEF Door!Next, Door!Step

-----------------------------------------------------------------------------
(* The owner is told.  While nobody has been told of an address, one login at *)
(* most came from there, and its request is still on the way to tell.       *)

Pairs == Username \X Ip

Logins(p) == Door!RowsFrom(p[2], p[1], TRUE)

Pending(p) ==
    p \notin parallel \cup notices =>
        /\ \A i, j \in Logins(p) : i = j
        /\ Door!Notifying(p) = {} => Logins(p) = {}

AllPending == \A p \in Pairs : Pending(p)

\* A step that adds no login, and after which those who were on the way still are.
LEMMA StillPending ==
    ASSUME NEW p \in Pairs, Pending(p),
           parallel \subseteq parallel', notices \subseteq notices',
           Logins(p)' \subseteq Logins(p),
           p \in notices' \/ Door!Notifying(p) \subseteq Door!Notifying(p)'
    PROVE  Pending(p)'
BY DEF Pending

LEMMA SameLogins ==
    ASSUME TypeOK, NEW p,
           \/ attempts' = attempts /\ present' \subseteq present
           \/ \E x \in Thread : Door!Record(x, FALSE)
           \/ \E x \in Thread : Door!Record(x, TRUE) /\ Door!Pair(x) # p
    PROVE  p \in Pairs => Logins(p)' \subseteq Logins(p)
<1>1. CASE attempts' = attempts /\ present' \subseteq present
  BY <1>1 DEF Logins, Door!RowsFrom, Door!RowsWith
<1>2. ASSUME NEW x \in Thread, NEW success \in BOOLEAN, Door!Record(x, success),
             ~success \/ Door!Pair(x) # p, p \in Pairs
      PROVE  Logins(p)' \subseteq Logins(p)
  <2>1. /\ attempts'[Len(attempts) + 1].success = success
        /\ attempts'[Len(attempts) + 1].ip = login[x].ip
        /\ attempts'[Len(attempts) + 1].name = login[x].name
        /\ \A i \in 1 .. Len(attempts) : attempts'[i] = attempts[i]
    BY <1>2, RecordType
  <2>2. present' = present \cup {Len(attempts) + 1} /\ present \subseteq 1 .. Len(attempts)
    BY <1>2 DEF Door!Record, TypeOK
  <2>3. p = <<p[1], p[2]>>
    BY <1>2 DEF Pairs
  <2>4. ~success \/ login[x].name # p[1] \/ login[x].ip # p[2]
    BY <1>2, <2>3 DEF Door!Pair
  <2> QED
    BY <2>1, <2>2, <2>4 DEF Logins, Door!RowsFrom, Door!RowsWith
<1> QED
  BY <1>1, <1>2

\* Who is on the way, as the request of one thread changes.
LEMMA StillNotifying ==
    ASSUME TypeOK, NEW x \in Thread, NEW p,
           \A y \in Thread \ {x} : login'[y] = login[y],
           login[x].phase = "notify" => Door!Pair(x) # p
    PROVE  Door!Notifying(p) \subseteq Door!Notifying(p)'
BY DEF Door!Notifying, Door!At, Door!Pair

\* Two that are on the way at a time are noticed.
LEMMA OneAtATime ==
    ASSUME NEW p \in Pairs, p \notin parallel',
           parallel' = parallel \cup
              {q \in Username \X Ip : Door!Cardinality(Door!Notifying(q)') > 1}
    PROVE  \A x, y \in Door!Notifying(p)' : x = y
<1> SUFFICES ASSUME NEW x \in Door!Notifying(p)', NEW y \in Door!Notifying(p)', x # y
             PROVE  FALSE
  OBVIOUS
<1>1. IsFiniteSet(Thread) /\ Door!Notifying(p)' \subseteq Thread
  BY DoorAssumption DEF Door!Notifying
<1>2. IsFiniteSet(Door!Notifying(p)')
  BY <1>1, FS_Subset
<1>3. Cardinality({x}) = 1 /\ IsFiniteSet({x})
  BY FS_Singleton
<1>4. Cardinality({x} \cup {y}) = 2
  <2>1. y \notin {x}
    OBVIOUS
  <2>2. Cardinality({x} \cup {y}) = Cardinality({x}) + 1
    BY <1>3, <2>1, FS_AddElement
  <2> QED
    BY <1>3, <2>2
<1>5. {x} \cup {y} \subseteq Door!Notifying(p)'
  OBVIOUS
<1>6. Cardinality({x} \cup {y}) <= Cardinality(Door!Notifying(p)')
  BY <1>2, <1>5, FS_Subset
<1>7. Cardinality(Door!Notifying(p)') \in Nat
  BY <1>2, FS_CardinalityType
<1>8. Cardinality(Door!Notifying(p)') > 1
  BY <1>4, <1>6, <1>7
<1> QED
  BY <1>8, DoorCardinality DEF Pairs

\* The one login on record counts as the first.
LEMMA FirstIsNew ==
    ASSUME TypeOK, NEW x \in Thread, \A i, j \in Logins(Door!Pair(x)) : i = j
    PROVE  Door!IsNewAddress(x)
<1>1. PICK found : found = Door!RowsFrom(login[x].ip, login[x].name, TRUE)
  OBVIOUS
<1>2. Logins(Door!Pair(x)) = found
  BY <1>1 DEF Logins, Door!Pair
<1>3. found = {} \/ \E i : found = {i}
  BY <1>2
<1>4. Cardinality(found) = 0 \/ Cardinality(found) = 1
  BY <1>3, FS_EmptySet, FS_Singleton
<1>5. Door!Cardinality(found) <= 1
  BY <1>4, DoorCardinality
<1> QED
  BY <1>1, <1>5 DEF Door!IsNewAddress

LEMMA NotifyStep ==
    ASSUME TypeOK, AllPending, NEW x \in Thread, Door!Notify(x), parallel \subseteq parallel',
           NEW p \in Pairs
    PROVE  Pending(p)'
<1>1. Door!Leave(x) /\ UNCHANGED <<attempts, present>> /\ notices \subseteq notices'
  BY DEF Door!Notify
<1>2. Logins(p)' \subseteq Logins(p) /\ Pending(p)
  BY <1>1, SameLogins DEF AllPending
<1>3. CASE Door!Pair(x) # p
  BY <1>1, <1>2, <1>3, LeaveFacts, StillNotifying, StillPending
<1>4. CASE Door!Pair(x) = p /\ p \notin parallel \cup notices
  <2>1. Door!IsNewAddress(x)
    BY <1>2, <1>4, FirstIsNew DEF Pending
  <2>2. p \in notices'
    BY <1>4, <2>1 DEF Door!Notify, Door!Pair
  <2> QED
    BY <2>2 DEF Pending
<1>5. CASE p \in parallel \cup notices
  BY <1>1, <1>5 DEF Pending
<1> QED
  BY <1>3, <1>4, <1>5

LEMMA RecordSuccessStep ==
    ASSUME TypeOK, AllPending, NEW x \in Thread, Door!RecordSuccess(x), NEW p \in Pairs,
           parallel' = parallel \cup
              {q \in Username \X Ip : Door!Cardinality(Door!Notifying(q)') > 1}
    PROVE  Pending(p)'
<1>1. /\ login[x].phase = "success" /\ Door!Record(x, TRUE) /\ Door!Go(x, "notify")
      /\ notices' = notices
  BY DEF Door!RecordSuccess, Door!At
<1>2. /\ login'[x].phase = "notify" /\ login'[x].ip = login[x].ip
      /\ login'[x].name = login[x].name
      /\ \A y \in Thread \ {x} : login'[y] = login[y]
  BY <1>1, DoorGoFacts DEF Phases
<1>3. Pending(p)
  BY DEF AllPending
<1>4. CASE Door!Pair(x) # p
  BY <1>1, <1>2, <1>3, <1>4, SameLogins, StillNotifying, StillPending
<1>5. CASE Door!Pair(x) = p /\ p \notin parallel' \cup notices'
  <2>1. x \in Door!Notifying(p)'
    BY <1>2, <1>5 DEF Door!Notifying, Door!At, Door!Pair
  <2>2. \A y \in Door!Notifying(p)' : y = x
    BY <1>5, <2>1, OneAtATime
  <2>3. Door!Notifying(p) \subseteq Door!Notifying(p)'
    BY <1>1, <1>2, StillNotifying
  <2>4. x \notin Door!Notifying(p)
    BY <1>1 DEF Door!Notifying, Door!At
  <2>5. Logins(p) = {}
    BY <1>1, <1>3, <1>5, <2>2, <2>3, <2>4 DEF Pending
  <2>6. present' = present \cup {Len(attempts) + 1} /\ present \subseteq 1 .. Len(attempts)
    BY <1>1 DEF Door!Record, TypeOK
  <2>7. \A i \in 1 .. Len(attempts) : attempts'[i] = attempts[i]
    BY <1>1, RecordType
  <2>8. Logins(p)' \subseteq {Len(attempts) + 1}
    BY <2>5, <2>6, <2>7 DEF Logins, Door!RowsFrom, Door!RowsWith
  <2> QED
    BY <2>1, <2>8 DEF Pending
<1>6. CASE p \in parallel' \cup notices'
  BY <1>6 DEF Pending
<1> QED
  BY <1>4, <1>5, <1>6

LEMMA PendingStep ==
    ASSUME TypeOK, AllPending, [Door!Next]_Door!vars
    PROVE  AllPending'
<1> SUFFICES ASSUME NEW p \in Pairs
             PROVE  Pending(p)'
  BY DEF AllPending, Pairs
<1>1. Pending(p)
  BY DEF AllPending
<1>2. CASE UNCHANGED Door!vars
  <2>1. UNCHANGED <<login, attempts, present, notices, parallel>>
    BY <1>2 DEF Door!vars
  <2> QED
    BY <1>1, <2>1 DEF Pending, Logins, Door!RowsFrom, Door!RowsWith, Door!Notifying,
                      Door!At, Door!Pair
<1>3. ASSUME Door!Step,
             parallel' = parallel \cup
                {q \in Username \X Ip : Door!Cardinality(Door!Notifying(q)') > 1}
      PROVE  Pending(p)'
  <2>1. ASSUME NEW x \in Thread, login[x].phase # "notify",
               \A y \in Thread \ {x} : login'[y] = login[y], notices' = notices,
               \/ attempts' = attempts /\ present' \subseteq present
               \/ Door!Record(x, FALSE)
        PROVE  Pending(p)'
    <3>1. Logins(p)' \subseteq Logins(p)
      BY <2>1, SameLogins
    <3>2. Door!Notifying(p) \subseteq Door!Notifying(p)'
      BY <2>1, StillNotifying
    <3> QED
      BY <1>1, <1>3, <2>1, <3>1, <3>2, StillPending
  <2>2. CASE Door!Tick
    BY <1>1, <1>3, <2>2 DEF Door!Tick, Pending, Logins, Door!RowsFrom, Door!RowsWith,
                            Door!Notifying, Door!At, Door!Pair
  <2>3. ASSUME NEW x \in Thread, NEW ip \in Ip, NEW name \in Username, Door!Post(x, ip, name)
        PROVE  Pending(p)'
    BY <2>1, <2>3 DEF Door!Post, Door!At, TypeOK
  <2>4. ASSUME NEW x \in Thread, Door!CheckPair(x) \/ Door!CheckName(x)
        PROVE  Pending(p)'
    <3>1. /\ login[x].phase \in {"pair", "name"}
          /\ Door!Leave(x) \/ Door!Go(x, "name") \/ Door!Go(x, "verify")
          /\ UNCHANGED <<attempts, present, notices>>
      BY <2>4 DEF Door!CheckPair, Door!CheckName, Door!At
    <3> QED
      BY <2>1, <3>1, LeaveFacts, DoorGoFacts DEF Phases
  <2>5. ASSUME NEW x \in Thread, Door!Verify(x)
        PROVE  Pending(p)'
    <3>1. /\ login[x].phase = "verify"
          /\ Door!Go(x, "clear") \/ Door!Go(x, "failed")
          /\ UNCHANGED <<attempts, present, notices>>
      BY <2>5 DEF Door!Verify, Door!At
    <3> QED
      BY <2>1, <3>1, DoorGoFacts DEF Phases
  <2>6. ASSUME NEW x \in Thread, Door!RecordFailure(x)
        PROVE  Pending(p)'
    BY <2>1, <2>6, LeaveFacts DEF Door!RecordFailure, Door!At
  <2>7. ASSUME NEW x \in Thread, Door!ClearFailures(x)
        PROVE  Pending(p)'
    BY <2>1, <2>7, DoorGoFacts DEF Door!ClearFailures, Door!At, Phases
  <2>8. ASSUME NEW x \in Thread, Door!Fail(x)
        PROVE  Pending(p)'
    BY <2>1, <2>8, LeaveFacts DEF Door!Fail
  <2> QED
    BY <1>3, <2>2, <2>3, <2>4, <2>5, <2>6, <2>7, <2>8, NotifyStep, RecordSuccessStep
    DEF Door!Step
<1> QED
  BY <1>2, <1>3 DEF Door!Next

-----------------------------------------------------------------------------
(* The theorems.                                                           *)

LEMMA InitDoorInv ==
    ASSUME Door!Init
    PROVE  DoorInv
<1>1. TypeOK /\ CutoffPast
  BY NoLoginType DEF Door!Init, TypeOK, CutoffPast, Phases
<1>2. \A x \in Thread : login[x].phase = "idle"
  BY NoLoginType DEF Door!Init
<1>3. \A name \in Username : Passed(name) = {}
  BY <1>2 DEF Passed
<1>4. \A name \in Username, t \in Nat : Recent(name, t) = {}
  BY DEF Door!Init, Recent, Door!RowsWith
<1>5. Cardinality({}) = 0 /\ Cardinality(Thread) \in Nat
  BY FS_EmptySet, FS_CardinalityType, DoorAssumption
<1>6. Bounded
  <2> SUFFICES ASSUME NEW name \in Username, NEW t \in Nat
               PROVE  Within(name, t)
    BY DEF Bounded
  <2>1. Cardinality(Recent(name, t)) = 0 /\ Cardinality(Passed(name)) = 0
    BY <1>3, <1>4, <1>5
  <2> QED
    BY <1>5, <2>1, DoorAssumption DEF Within
<1> QED
  BY <1>1, <1>6 DEF DoorInv

LEMMA StepDoorInv ==
    ASSUME DoorInv, [Door!Next]_Door!vars
    PROVE  DoorInv'
  BY TypeStep, BoundedStep DEF DoorInv

\* The part of Web that Login is.
LEMMA DoorStart == Init /\ part = "login" => Door!Init
  BY DEF Init

LEMMA DoorStep ==
    ASSUME [Next]_allVars, part = "login"
    PROVE  part' = "login" /\ [Door!Next]_Door!vars
  BY DEF Next, allVars, loginVars, Door!vars

\* The inductive invariant holds in every behaviour of the login.
THEOREM LoginInvariant == Spec => [](part = "login" => DoorInv)
<1> DEFINE Inv == part = "login" => DoorInv
<1>1. Init => Inv
  BY InitDoorInv, DoorStart
<1>2. Inv /\ [Next]_allVars => Inv'
  <2>1. [Next]_allVars => part' = part
    BY DEF Next, allVars
  <2> QED
    BY <2>1, StepDoorInv, DoorStep
<1> QED
  BY <1>1, <1>2, PTL DEF Spec

\* However many threads log in at once: in any window the failures on record for
\* an account exceed the limit by less than the number of threads (login,
\* _is_throttled).
THEOREM ThrottleBoundHolds == Spec => []ThrottleBound
<1>1. (part = "login" => DoorInv) => ThrottleBound
  <2> SUFFICES ASSUME DoorInv, NEW name \in Username, NEW t \in 0 .. clock
               PROVE  Cardinality({i \in Door!RowsWith(name, FALSE) :
                                     attempts[i].at \in t .. t + ThrottleWindow})
                         <= MaxFailed + Cardinality(Thread) - 1
    BY DoorCardinality DEF ThrottleBound, Door!ThrottleBound
  <2>1. t \in Nat
    BY DEF DoorInv, TypeOK
  <2> QED
    BY <2>1 DEF DoorInv, Bounded, Within, Recent
<1> QED
  BY <1>1, LoginInvariant, PTL


LEMMA PendingInvariant == Spec => [](part = "login" => AllPending)
<1>1. Init => (part = "login" => AllPending)
  <2> SUFFICES ASSUME Door!Init
               PROVE  AllPending
    BY DoorStart
  <2>1. \A p \in Pairs : Logins(p) = {}
    BY DEF Door!Init, Logins, Door!RowsFrom, Door!RowsWith
  <2> QED
    BY <2>1 DEF AllPending, Pending
<1>2. (part = "login" => DoorInv) /\ (part = "login" => AllPending) /\ [Next]_allVars
        => (part = "login" => AllPending)'
  <2>1. [Next]_allVars => part' = part
    BY DEF Next, allVars
  <2> QED
    BY <2>1, DoorStep, PendingStep DEF DoorInv
<1> QED
  BY <1>1, <1>2, LoginInvariant, PTL DEF Spec

\* The owner of an account is told of every address it is used from, unless two
\* logins from there counted each other (login, 137-148).
THEOREM NewAddressToldHolds == Spec => []NewAddressTold
<1>1. (part = "login" => AllPending) => NewAddressTold
  <2> SUFFICES ASSUME AllPending, NEW name \in Username, NEW ip \in Ip,
                      Door!RowsFrom(ip, name, TRUE) # {}, Door!Notifying(<<name, ip>>) = {},
                      <<name, ip>> \notin parallel
               PROVE  <<name, ip>> \in notices
    BY DEF NewAddressTold, Door!NewAddressTold
  <2>1. Pending(<<name, ip>>)
    BY DEF AllPending, Pairs
  <2> QED
    BY <2>1 DEF Pending, Logins
<1> QED
  BY <1>1, PendingInvariant, PTL
=============================================================================
