----------------------------- MODULE LocalServer -----------------------------
(* The server in local mode: the runtime that owns the credential store and   *)
(* one OAuthAccessTokenProvider (src/src/monzo_mcp/mcp/runtime.py, local.py), *)
(* and the tool calls that run concurrently on it (_execute in tools.py).     *)
(*                                                                            *)
(* Monzo's refresh tokens are single-use: each refresh replaces the pair      *)
(* (access token, refresh token).  Pairs are numbered in the order Monzo      *)
(* issues them.  The provider and Monzo are external and modelled from what   *)
(* runtime.py, the tests and the documentation rely on; the credential store  *)
(* is the register that CredentialStore implements.                           *)
EXTENDS Naturals

CONSTANTS
    Requests,  \* tool calls the server works on at the same time
    None,      \* no request holds the refresh lock
    MaxPair,   \* bound: the pairs Monzo issues in a behaviour
    Faults     \* the faults that may happen, a subset of FaultKinds

FaultKinds == {"lost",      \* Monzo refreshes but its answer does not arrive
               "io",        \* the store cannot save the new pair
               "cancel",    \* a tool call is cancelled while it refreshes or saves
               "kill",      \* the server process dies
               "withdraw",  \* the user withdraws access in the Monzo app
               "unnamed"}   \* a pair does not say which OAuth client it is for

ASSUME NoneAssumption == None \notin Requests
ASSUME MaxPairAssumption == MaxPair \in Nat \ {0}
ASSUME FaultsAssumption == Faults \subseteq FaultKinds

VARIABLES
    up,        \* the runtime is open: the store, the provider, the server
    live,      \* the last pair Monzo issued, the only one it honours, or 0
    accepted,  \* Monzo accepts the access token of the live pair
    expiring,  \* the pairs that expire within the refresh skew, or have expired
    disk,      \* the pair in the credential directory, 0 if there is none
    client,    \* the OAuth client in the directory, seen from that pair
    memory,    \* the pair in the store's memory while it is open
    lock,      \* the request inside the provider's refresh lock
    req,       \* req[r]: where the tool call in slot r is
    orphans,     \* the pairs of cancelled saves whose threads may still write
    broken,      \* since the last login, a pair Monzo issued was lost on the way
    overwritten  \* such a thread has put an older pair into the directory

monzoVars == <<live, accepted, expiring>>
diskVars  == <<disk, client, orphans, overwritten>>
vars == <<up, monzoVars, diskVars, memory, lock, req, broken>>

-----------------------------------------------------------------------------
NoPair == 0
Pairs == 1 .. MaxPair

Stages == {"wantToken",   \* about to ask the provider for an access token
           "waiting",     \* queued for the refresh lock
           "refreshing",  \* inside the lock, the refresh request is out
           "rotated",     \* inside the lock, the new pair has arrived
           "calling"}     \* the API request is out, with the pair `token`

\* token: the pair this call uses, or has in hand, or used last.
\* rejected: the pair whose access token Monzo refused this call, or NoPair.
Idle == [stage |-> "idle", token |-> NoPair, rejected |-> NoPair]
RequestRecords == [stage : {"idle"} \cup Stages,
                   token : Pairs \cup {NoPair},
                   rejected : Pairs \cup {NoPair}]

\* The pair's own client; another one, as the pair tells; another one, but the
\* pair does not name its own.
ClientKinds == {"own", "other", "unnoticed"}

TypeOK ==
    /\ up \in BOOLEAN
    /\ live \in Pairs \cup {NoPair}
    /\ accepted \in BOOLEAN
    /\ expiring \subseteq Pairs
    /\ disk \in Pairs \cup {NoPair}
    /\ client \in ClientKinds
    /\ memory \in Pairs \cup {NoPair}
    /\ lock \in Requests \cup {None}
    /\ req \in [Requests -> RequestRecords]
    /\ orphans \subseteq Pairs \cup {NoPair}
    /\ broken \in BOOLEAN
    /\ overwritten \in BOOLEAN

\* Before the first login.
Init ==
    /\ up = FALSE
    /\ live = NoPair
    /\ accepted = FALSE
    /\ expiring = {}
    /\ disk = NoPair
    /\ client = "own"
    /\ memory = NoPair
    /\ lock = None
    /\ req = [r \in Requests |-> Idle]
    /\ orphans = {}
    /\ broken = FALSE
    /\ overwritten = FALSE

At(r, stage) == req[r].stage = stage
AllIdle == \A r \in Requests : At(r, "idle")

-----------------------------------------------------------------------------
(* The life of the server, and of the login command between two servers.      *)

\* open_runtime loads the bundle and refuses one without a pair, or whose pair
\* names another OAuth client.
StartServer ==
    /\ ~up
    /\ disk # NoPair /\ client # "other"
    /\ up' = TRUE
    /\ memory' = disk
    /\ UNCHANGED <<monzoVars, diskVars, lock, req, broken>>

\* Variant: the closed store's memory is not a pair at all.
ForgottenUnset == None

\* aclose: nothing decrypted stays behind.
Forgotten == NoPair

\* Uvicorn lets the calls finish; then the store is closed.
StopServer ==
    /\ up /\ AllIdle
    /\ up' = FALSE
    /\ memory' = Forgotten
    /\ UNCHANGED <<monzoVars, diskVars, lock, req, broken>>

\* The pairs that have arrived and that no save has returned for.
InHand == {req[r].token : r \in {s \in Requests : At(s, "rotated")}}

\* A pair in hand dies with the process, unless the thread that saves it has
\* already replaced the file.  Threads of earlier processes go on; which of the
\* orphans are threads of this one, and die, is not recorded: all may go on.
KillServer ==
    /\ "kill" \in Faults
    /\ up
    /\ up' = FALSE
    /\ memory' = Forgotten
    /\ lock' = None
    /\ req' = [r \in Requests |-> Idle]
    /\ \/ /\ broken' = (broken \/ InHand # {})
          /\ UNCHANGED <<disk, overwritten>>
       \/ /\ disk' \in InHand
          /\ overwritten' = FALSE
          /\ UNCHANGED broken
    /\ UNCHANGED <<monzoVars, client, orphans>>

\* `auth login` needs the directory lock, so no server runs.  It replaces the
\* whole chain.
Login ==
    /\ ~up
    /\ live < MaxPair
    /\ live' = live + 1
    /\ accepted' = TRUE
    /\ disk' = live'
    /\ client' = "own"
    /\ broken' = FALSE
    /\ overwritten' = FALSE
    /\ UNCHANGED <<up, expiring, orphans, memory, lock, req>>

\* A login that fails after save_oauth, with another OAuth client than the pair's
\* or with the pair's own.  If Monzo had issued a pair by then, that pair is lost:
\* Withdraw has the same effect.  (Where only the directory sync after saving that
\* pair fails, the effect is Login's.)
LoginFails ==
    /\ ~up
    /\ client' \in {"own", "other"} \cup (IF "unnamed" \in Faults THEN {"unnoticed"} ELSE {})
    /\ UNCHANGED <<up, monzoVars, disk, orphans, overwritten, memory, lock, req, broken>>

\* `auth logout` clears the pair.  Whether Monzo confirms or not, the session is
\* over; that it honours none of its pairs any more is Withdraw.
Logout ==
    /\ ~up
    /\ disk # NoPair
    /\ accepted' \in {accepted, FALSE}
    /\ disk' = NoPair
    /\ broken' = TRUE
    /\ UNCHANGED <<up, live, expiring, client, orphans, overwritten, memory, lock, req>>

-----------------------------------------------------------------------------
(* One tool call: _execute opens a MonzoClient on the shared provider.        *)

BeginCall(r) ==
    /\ up
    /\ At(r, "idle")
    /\ req' = [req EXCEPT ![r].stage = "wantToken"]
    /\ UNCHANGED <<up, monzoVars, diskVars, memory, lock, broken>>

\* get_access_token: the stored pair will do, or it expires too soon.
UseStoredPair(r) ==
    /\ At(r, "wantToken")
    /\ memory \notin expiring
    /\ req' = [req EXCEPT ![r] = [@ EXCEPT !.stage = "calling", !.token = memory]]
    /\ UNCHANGED <<up, monzoVars, diskVars, memory, lock, broken>>

NeedRefresh(r) ==
    /\ At(r, "wantToken")
    /\ memory \in expiring
    /\ req' = [req EXCEPT ![r].stage = "waiting"]
    /\ UNCHANGED <<up, monzoVars, diskVars, memory, lock, broken>>

\* Variant: every request has a provider, and so a lock, of its own.
LockFreePerRequest == TRUE

\* LocalAccessTokenProviderFactory returns the process's one provider, so this
\* is one lock.
LockFree == lock = None

\* Variant: the stored pair is not looked at again inside the lock.
StillUnusableUnchecked(r) == TRUE

\* Inside the lock the provider looks again: has another request replaced the
\* pair that this one found expiring, or that Monzo rejected?
StillUnusable(r) ==
    IF req[r].rejected = NoPair THEN memory \in expiring
                                ELSE memory = req[r].rejected

TakeLock(r) ==
    /\ At(r, "waiting") /\ LockFree
    /\ StillUnusable(r)
    /\ lock' = r
    /\ req' = [req EXCEPT ![r].stage = "refreshing"]
    /\ UNCHANGED <<up, monzoVars, diskVars, memory, broken>>

UseReplacedPair(r) ==
    /\ At(r, "waiting") /\ LockFree
    /\ ~StillUnusable(r)
    /\ req' = [req EXCEPT ![r] = [@ EXCEPT !.stage = "calling", !.token = memory]]
    /\ UNCHANGED <<up, monzoVars, diskVars, memory, lock, broken>>

\* Monzo honours the refresh token of the client that it was issued to: it issues
\* the next pair and forgets the old.
Rotate ==
    /\ memory = live /\ client = "own"
    /\ live < MaxPair
    /\ live' = live + 1
    /\ accepted' = TRUE
    /\ UNCHANGED expiring

PairArrives(r) ==
    /\ At(r, "refreshing")
    /\ Rotate
    /\ req' = [req EXCEPT ![r] = [@ EXCEPT !.stage = "rotated", !.token = live']]
    /\ UNCHANGED <<up, diskVars, memory, lock, broken>>

\* Variant: a failed refresh leaves the lock taken.
EndRefreshHoldsLock(r) ==
    /\ UNCHANGED lock
    /\ req' = [req EXCEPT ![r] = Idle]
    /\ UNCHANGED <<up, memory>>

\* The exception leaves the lock and ends the tool call.
EndRefresh(r) ==
    /\ lock' = None
    /\ req' = [req EXCEPT ![r] = Idle]
    /\ UNCHANGED <<up, memory>>

\* The refresh token was used before, or issued to another client: Monzo requires
\* a new login.
RefreshRefused(r) ==
    /\ At(r, "refreshing")
    /\ memory # live \/ client = "unnoticed"
    /\ EndRefresh(r)
    /\ UNCHANGED <<monzoVars, diskVars, broken>>

\* The request did not reach Monzo, or Monzo was too busy to handle it.
RefreshUnhandled(r) ==
    /\ At(r, "refreshing")
    /\ EndRefresh(r)
    /\ UNCHANGED <<monzoVars, diskVars, broken>>

\* Monzo refreshed, but the answer timed out or was unreadable.
AnswerLost(r) ==
    /\ "lost" \in Faults
    /\ At(r, "refreshing")
    /\ Rotate
    /\ EndRefresh(r)
    /\ broken' = TRUE
    /\ UNCHANGED diskVars

\* Variant: the new pair is handed out before it is on disk.
PairSavedInMemory(r) ==
    /\ At(r, "rotated")
    /\ memory' = req[r].token
    /\ lock' = None
    /\ req' = [req EXCEPT ![r].stage = "calling"]
    /\ UNCHANGED <<up, monzoVars, diskVars, broken>>

\* store.save returned: the directory and the memory hold the new pair.
PairSaved(r) ==
    /\ At(r, "rotated")
    /\ disk' = req[r].token
    /\ memory' = req[r].token
    /\ overwritten' = FALSE
    /\ lock' = None
    /\ req' = [req EXCEPT ![r].stage = "calling"]
    /\ UNCHANGED <<up, monzoVars, client, orphans, broken>>

\* store.save raised: before the file was replaced, or after, when only the
\* sync of the directory failed.
SaveFails(r) ==
    /\ "io" \in Faults
    /\ At(r, "rotated")
    /\ EndRefresh(r)
    /\ disk' \in {disk, req[r].token}
    /\ broken' = TRUE
    /\ UNCHANGED <<monzoVars, client, orphans, overwritten>>

\* Cancelled during the refresh request, which Monzo may have handled, or during
\* the save, whose thread goes on alone.
CancelRefresh(r) ==
    /\ "cancel" \in Faults
    /\ \/ /\ At(r, "refreshing")
          /\ Rotate \/ UNCHANGED monzoVars
          /\ UNCHANGED orphans
          /\ broken' = (broken \/ live' # live)
       \/ /\ At(r, "rotated")
          /\ orphans' = orphans \cup {req[r].token}
          /\ broken' = TRUE
          /\ UNCHANGED monzoVars
    /\ EndRefresh(r)
    /\ UNCHANGED <<disk, client, overwritten>>

\* The thread of a cancelled save replaces the bundle, with the client and the
\* pair it was given then: the store may be closed by now, the lock another
\* process's, the pair in the directory a newer one.  (A server that runs keeps the
\* client it started with: `client` may stay as it is.)
LateWrite ==
    \E p \in orphans :
        /\ orphans' = orphans \ {p}
        /\ disk' = p
        /\ client' \in {client, "own"}
        /\ overwritten' = (overwritten \/ p < disk)
        /\ UNCHANGED <<up, monzoVars, memory, lock, req, broken>>

MonzoAccepts(r) == req[r].token = live /\ accepted

\* Monzo answers the API request, with a result or an error, or does not answer:
\* the tool call ends.  It is not repeated.
CallEnds(r) ==
    /\ At(r, "calling")
    /\ req' = [req EXCEPT ![r] = Idle]
    /\ UNCHANGED <<up, monzoVars, diskVars, memory, lock, broken>>

\* HTTP 401, the first time: refresh_after_rejection, then once more.  The
\* second time CallEnds.
CallRejected(r) ==
    /\ At(r, "calling")
    /\ ~MonzoAccepts(r)
    /\ req[r].rejected = NoPair
    /\ req' = [req EXCEPT ![r] = [@ EXCEPT !.stage = "waiting", !.rejected = req[r].token]]
    /\ UNCHANGED <<up, monzoVars, diskVars, memory, lock, broken>>

-----------------------------------------------------------------------------
(* The environment.                                                           *)

\* Every pair issued so far is now within 30 seconds of its expiry.
TimePasses ==
    /\ expiring' = 1 .. live
    /\ UNCHANGED <<up, live, accepted, diskVars, memory, lock, req, broken>>

\* The access token expires at Monzo, or Monzo invalidates it early.
AccessEnds ==
    /\ accepted
    /\ accepted' = FALSE
    /\ UNCHANGED <<up, live, expiring, diskVars, memory, lock, req, broken>>

\* Monzo honours none of the pairs it has issued any more.
Withdraw ==
    /\ "withdraw" \in Faults
    /\ live < MaxPair
    /\ live' = live + 1
    /\ accepted' = FALSE
    /\ broken' = TRUE
    /\ UNCHANGED <<up, expiring, diskVars, memory, lock, req>>

-----------------------------------------------------------------------------
Refreshing(r) ==
    \/ PairArrives(r)
    \/ RefreshRefused(r)
    \/ RefreshUnhandled(r)
    \/ AnswerLost(r)
    \/ PairSaved(r)
    \/ SaveFails(r)

Calling(r) ==
    \/ UseStoredPair(r)
    \/ NeedRefresh(r)
    \/ CallEnds(r)
    \/ CallRejected(r)

EnterLock(r) == TakeLock(r) \/ UseReplacedPair(r)

Operator ==
    \/ StartServer
    \/ StopServer
    \/ KillServer
    \/ Login
    \/ LoginFails
    \/ Logout

Environment == TimePasses \/ AccessEnds \/ Withdraw

Next ==
    \/ Operator
    \/ Environment
    \/ LateWrite
    \/ \E r \in Requests : \/ BeginCall(r)
                           \/ Calling(r)
                           \/ EnterLock(r)
                           \/ Refreshing(r)
                           \/ CancelRefresh(r)

Spec == Init /\ [][Next]_vars

\* The event loop runs every call, HTTP requests end at their timeouts, and
\* asyncio.Lock wakes its waiters first come, first served.
Fairness ==
    \A r \in Requests :
        WF_vars(Calling(r)) /\ WF_vars(Refreshing(r)) /\ SF_vars(EnterLock(r))

FairSpec == Spec /\ Fairness

-----------------------------------------------------------------------------
(* Properties.                                                                *)

\* Unless a pair was lost on the way, or an old one came back, the directory,
\* the memory and Monzo agree on the pair whenever nobody is refreshing: the next
\* refresh, or the next server, can go on from there.  Concurrent calls do not
\* break the chain.
ChainIntact ==
    up /\ lock = None /\ ~broken /\ ~overwritten => memory = live /\ disk = live

\* No request is sent to Monzo with a pair that a restart would not know: a new
\* pair is in the directory before anybody uses it, and stays there unless the
\* thread of a cancelled save overwrites it.
DurableBeforeUse ==
    ~overwritten => \A r \in Requests : At(r, "calling") => req[r].token <= disk

\* A single-use refresh token is only spent on a pair that expires or that
\* Monzo has stopped accepting: of all the calls that find the same pair
\* unusable, one refreshes.
NoNeedlessRefresh ==
    [][\A r \in Requests : PairArrives(r) => memory \in expiring \/ ~accepted]_vars

\* The user is asked to log in again only when a pair was really lost or access
\* withdrawn, an older pair was written over the current one, or a failed login
\* left another client that nothing told from the pair's; never because two calls
\* raced.
ReauthOnlyIfBroken ==
    [][\A r \in Requests : RefreshRefused(r) => broken \/ overwritten \/ client = "unnoticed"]_vars

\* Every tool call ends, whatever Monzo rejects and whoever holds the lock.
CallsEnd == \A r \in Requests : ~At(r, "idle") ~> At(r, "idle")

-----------------------------------------------------------------------------
(* Why the properties hold: what LocalServerProofs shows to be inductive.     *)

\* The lock is held exactly by the request that refreshes.
LockHeldByRefresher ==
    \A r \in Requests : lock = r <=> req[r].stage \in {"refreshing", "rotated"}

OnlyWhileUp == ~up => lock = None /\ AllIdle /\ memory = NoPair

\* A call that has ended leaves nothing behind.
EndedForgets == \A r \in Requests : At(r, "idle") => req[r] = Idle

\* Pairs only move forward: Monzo issues, the directory follows, the memory
\* follows the directory; a call's pairs come from the memory.  Only a late
\* write turns the directory back.
PairsInOrder ==
    /\ memory <= live
    /\ disk <= live
    /\ ~overwritten => memory <= disk
    /\ \A r \in Requests : /\ ~At(r, "rotated") => req[r].token <= memory
                           /\ req[r].rejected <= memory

\* The pair in hand is newer than every other: the one it replaces, the one in
\* the directory and those that cancelled saves may still write.
NewestInHand ==
    \A p \in InHand : /\ memory < p /\ p <= live
                      /\ disk < p
                      /\ \A q \in orphans : q < p

\* What a cancelled save may still write is nothing new: the pair it had in hand
\* was lost, or a newer one has been written since.
OrphansAreLost ==
    \A p \in orphans : p <= live /\ (p > disk => broken \/ overwritten)

\* What is on disk is what the store holds, and it is Monzo's pair except for
\* the one in hand.
ChainBehindByOne ==
    ~broken => /\ \A p \in InHand : p = live
               /\ ~overwritten => /\ up => memory = disk
                                  /\ InHand = {} => disk = live

\* A rejected access token is not the one Monzo accepts, and a refresh goes on
\* only while the reason it was begun for stands.
RefreshJustified ==
    \A r \in Requests :
        /\ req[r].rejected = live /\ live # NoPair => ~accepted
        /\ At(r, "refreshing") => StillUnusable(r)
=============================================================================
