----------------------------- MODULE PatreonLink -----------------------------
(* The Patreon link of an account (integrations/patreon.py, auth/routes.py). *)
(* A request loads the account, talks to Patreon, and writes the columns it *)
(* has changed; the refresh token is rotated, so each can be used once.      *)
EXTENDS Naturals, Sequences

CONSTANTS
    Thread,
    User,
    Patron,      \* accounts at Patreon
    MaxTokens,   \* bound of the runs: token pairs Patreon issues
    None

VARIABLES
    row,        \* table users: patreon_id, patreon_tier, the token pair and
                \* whether it has more than five minutes left
    work,       \* per thread: the request it serves
    owner,      \* at Patreon: the account each token pair was issued to
    alive,      \* at Patreon: the pairs whose refresh token was not used yet
    member,     \* at Patreon: the accounts with an active membership
    lost,       \* history: users for whom Patreon's answer got lost
    mixed       \* history: users with two requests at a time

vars == <<row, work, owner, alive, member, lost, mixed>>

Unlinked == [id |-> None, tier |-> FALSE, token |-> 0, fresh |-> FALSE]
NoWork == [phase |-> "idle", user |-> CHOOSE u \in User : TRUE,
           loaded |-> Unlinked, token |-> 0, id |-> None, tier |-> FALSE]

Init == /\ row = [u \in User |-> Unlinked]
        /\ work = [t \in Thread |-> NoWork]
        /\ owner = << >>
        /\ alive = {}
        /\ member = Patron
        /\ lost = {}
        /\ mixed = {}

Patreon == <<owner, alive, member>>
Issued == Len(owner)

At(t, phase) == work[t].phase = phase
Go(t, phase) == work' = [work EXCEPT ![t].phase = phase]
Leave(t)     == work' = [work EXCEPT ![t] = NoWork]

Serving(u) == {t \in Thread : work[t].phase # "idle" /\ work[t].user = u}

\* A request of the account begins: its row is read.
Begin(t, u, phase, id) ==
    /\ At(t, "idle")
    /\ work' = [work EXCEPT ![t] = [NoWork EXCEPT !.phase = phase, !.user = u,
                                                  !.id = id, !.loaded = row[u]]]
    /\ mixed' = IF Serving(u) # {} THEN mixed \cup {u} ELSE mixed
    /\ UNCHANGED <<row, Patreon, lost>>

\* A commit writes the columns whose value differs from the one loaded; the
\* time of expiry comes with the tokens.
Changes(old, new) == {c \in {"id", "tier", "token"} : new[c] # old[c]}

Write(t, new) ==
    LET columns == Changes(work[t].loaded, new)
        written == IF "token" \in columns THEN columns \cup {"fresh"} ELSE columns
    IN  row' = [row EXCEPT ![work[t].user] =
                  [c \in DOMAIN @ |-> IF c \in written THEN new[c] ELSE @[c]]]

\* Patreon issues a token pair.
Issue(patron) == /\ Issued < MaxTokens
                 /\ owner' = Append(owner, patron)

-----------------------------------------------------------------------------
(* sync_user_tier, at every login.                                         *)

\* get_valid_token: none, a fresh one, or one to refresh.
GetToken(t) ==
    /\ At(t, "sync")
    /\ work' = [work EXCEPT
          ![t].phase = IF work[t].loaded.token = 0 THEN "tier"
                       ELSE IF work[t].loaded.fresh THEN "members" ELSE "refresh",
          ![t].token = work[t].loaded.token]
    /\ UNCHANGED <<row, Patreon, lost, mixed>>

\* refresh_access_token: Patreon takes a refresh token once.  Its answer may get
\* lost, before or after it has rotated the token.
Refresh(t) ==
    /\ At(t, "refresh")
    /\ IF work[t].token \in alive
       THEN /\ Issue(owner[work[t].token])
            /\ alive' = (alive \ {work[t].token}) \cup {Issued + 1}
            /\ \/ /\ work' = [work EXCEPT ![t].phase = "store", ![t].token = Issued + 1]
                  /\ UNCHANGED lost
               \/ /\ Go(t, "tier")
                  /\ lost' = lost \cup {work[t].user}
       ELSE /\ Go(t, "tier")
            /\ UNCHANGED <<owner, alive, lost>>
    /\ UNCHANGED <<row, member, mixed>>

RefreshFails(t) == /\ At(t, "refresh")
                   /\ Go(t, "tier")
                   /\ UNCHANGED <<row, Patreon, lost, mixed>>

\* Mutant: the new pair is used, but the old one stays in the row.
Stored_KeepsOld(t) == [work[t].loaded EXCEPT !.fresh = TRUE]

\* The new pair is committed.  That expires the row, so that the tier is
\* written next whatever it was.
Stored(t) == [work[t].loaded EXCEPT !.token = work[t].token, !.fresh = TRUE]

StoreRefreshed(t) ==
    /\ At(t, "store")
    /\ Write(t, Stored(t))
    /\ work' = [work EXCEPT ![t].phase = "members", ![t].loaded = [row'[work[t].user] EXCEPT !.tier = None]]
    /\ UNCHANGED <<Patreon, lost, mixed>>

\* fetch_membership_tier, which answers None when it fails.
FetchTier(t) ==
    /\ At(t, "members")
    /\ \E answer \in {owner[work[t].token] \in member, FALSE} :
          work' = [work EXCEPT ![t].phase = "tier", ![t].tier = answer]
    /\ UNCHANGED <<row, Patreon, lost, mixed>>

StoreTier(t) ==
    /\ At(t, "tier")
    /\ Write(t, [work[t].loaded EXCEPT !.tier = work[t].tier])
    /\ Leave(t)
    /\ UNCHANGED <<Patreon, lost, mixed>>

-----------------------------------------------------------------------------
(* patreon_callback and patreon_unlink.                                     *)

\* The code is exchanged for a token pair, and tells whose it is.
Exchange(t) ==
    /\ At(t, "callback")
    /\ Issue(work[t].id)
    /\ alive' = alive \cup {Issued + 1}
    /\ work' = [work EXCEPT ![t].phase = "profile", ![t].token = Issued + 1]
    /\ UNCHANGED <<row, member, lost, mixed>>

FetchProfile(t) ==
    /\ At(t, "profile")
    /\ \E answer \in {work[t].id \in member, FALSE} :
          work' = [work EXCEPT ![t].phase = "link", ![t].tier = answer]
    /\ UNCHANGED <<row, Patreon, lost, mixed>>

\* Mutant: the column is not unique.
Taken_Never(t) == FALSE

\* The column patreon_id is unique: the commit fails if another account has it.
Taken(t) == \E u \in User \ {work[t].user} : row[u].id = work[t].id

StoreLink(t) ==
    /\ At(t, "link")
    /\ IF Taken(t) THEN UNCHANGED row
       ELSE Write(t, [id |-> work[t].id, tier |-> work[t].tier,
                      token |-> work[t].token, fresh |-> TRUE])
    /\ Leave(t)
    /\ UNCHANGED <<Patreon, lost, mixed>>

\* Mutant: unlinking forgets the tokens.
Cleared_KeepsTokens(t) == [work[t].loaded EXCEPT !.id = None, !.tier = FALSE]

\* unlink_user.
Cleared(t) == Unlinked

Unlink(t) ==
    /\ At(t, "unlink")
    /\ Write(t, Cleared(t))
    /\ Leave(t)
    /\ UNCHANGED <<Patreon, lost, mixed>>

\* A call to Patreon, or a commit, fails and ends the request.
Fail(t) == /\ work[t].phase \in {"callback", "profile", "link", "unlink", "tier"}
           /\ Leave(t)
           /\ UNCHANGED <<row, Patreon, lost, mixed>>

\* An access token is about to expire; a membership begins or ends.
Age(u) == /\ row[u].fresh
          /\ row' = [row EXCEPT ![u].fresh = FALSE]
          /\ UNCHANGED <<work, Patreon, lost, mixed>>

Pledge(p) == /\ member' = IF p \in member THEN member \ {p} ELSE member \cup {p}
             /\ UNCHANGED <<row, work, owner, alive, lost, mixed>>

Next == \/ \E t \in Thread :
              \/ \E u \in User :
                    \/ Begin(t, u, "sync", None)
                    \/ Begin(t, u, "unlink", None)
                    \/ \E p \in Patron : Begin(t, u, "callback", p)
              \/ GetToken(t) \/ Refresh(t) \/ RefreshFails(t) \/ StoreRefreshed(t)
              \/ FetchTier(t) \/ StoreTier(t)
              \/ Exchange(t) \/ FetchProfile(t) \/ StoreLink(t) \/ Unlink(t)
              \/ Fail(t)
        \/ \E u \in User : Age(u)
        \/ \E p \in Patron : Pledge(p)

Spec == Init /\ [][Next]_vars

-----------------------------------------------------------------------------
(* Properties.                                                             *)

Quiet(u) == u \notin mixed /\ Serving(u) = {}

\* An account whose requests never overlapped is linked wholly or not at all:
\* it has tokens if and only if it has a Patreon account, and they are that
\* account's; without a link it has no tier (unlink_user, patreon.py:309).
LinkWhole ==
    \A u \in User : u \notin mixed =>
        /\ row[u].id = None <=> row[u].token = 0
        /\ row[u].id = None => ~row[u].tier
        /\ row[u].token # 0 => owner[row[u].token] = row[u].id

\* As long as its requests do not overlap and no answer of Patreon gets lost,
\* the refresh token an account has stored is the one Patreon still takes: a
\* rotated one is never forgotten (get_valid_token, 139-152).
StoredTokenAlive ==
    \A u \in User :
        Quiet(u) /\ u \notin lost /\ row[u].token # 0 => row[u].token \in alive

\* One membership gives its tier to one account: accounts whose requests never
\* overlapped never hold tokens of the same Patreon account (models.py:41).
OneAccountPerPatron ==
    \A u, v \in User \ mixed :
        u # v /\ row[u].token # 0 /\ row[v].token # 0
        => owner[row[u].token] # owner[row[v].token]
=============================================================================
