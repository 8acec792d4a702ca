------------------------------- MODULE SignIn -------------------------------
(***************************************************************************)
(* Who is signed in: passwords, pairing links, sessions and integrations.  *)
(* Every request is a handler in several steps under the session layer of  *)
(* tower-sessions, which loads the session at its first use and, if the    *)
(* handler has changed it, saves it after the answer, whatever has become  *)
(* of it in the store by then.                                             *)
(*                                                                         *)
(* The requests here come from one address: the limiter keeps one entry    *)
(* for each.  Days, lockouts and the life of a link pass when they please. *)
(***************************************************************************)
EXTENDS Naturals, FiniteSets, Options

CONSTANTS
    Callers,       \* requests under way at a time
    Ids,           \* session ids there may be
    Sources,       \* integrations there may be
    Links,         \* pairing links that may be minted
    MaxFails,      \* LOGIN_MAX_FAILS
    MaxDays,       \* SESSION_MAX_DAYS, and SESSION_IDLE_DAYS, which is the same
    RefreshDays,   \* SLIDING_REFRESH_SECS
    LastDay,       \* bound: days that pass
    LastPassword,  \* bound: passwords there have been, by number
    Plays,         \* bound: which kinds of request one behaviour has, besides signing in
    Leaves         \* whether clients may be gone before they are answered

ASSUME LimitsAssumption == MaxFails \in Nat \ {0} /\ {MaxDays, RefreshDays} \subseteq Nat
ASSUME BoundsAssumption == {LastDay, LastPassword} \subseteq Nat
ASSUME NamesAssumption == "dashboard" \notin Sources
ASSUME FaultsAssumption == Leaves \in BOOLEAN

Scopes == Sources \union {"dashboard"}
Days == 0 .. LastDay
Passwords == 0 .. LastPassword

\* What a request is for, once it has been let in.
Wishes ==
    [kind : {"read"}]
    \union [kind : {"revoke"}, id : Ids]
    \union [kind : {"password"}, pw : Passwords]
    \union [kind : {"install", "disable", "uninstall", "deposit"}, source : Sources]
    \union [kind : {"mint"}, source : Sources, pw : Passwords]

VARIABLES
    password,     \* Config::password_hash, by number
    providers,    \* Config::providers: "none", "on" or "off"
    secrets,      \* sources whose probe has a secret
    link,         \* pairing.json
    minted,       \* links handed out
    store,        \* FileSessionStore, in memory
    file,         \* and in sessions.json
    taken,        \* ids given out
    fails, locked,  \* LoginLimiter, for the address
    today,
    play,         \* which of Plays this is
    lock,         \* who holds login_lock
    at,           \* how far each handler is
    wish,         \* what it was asked
    session,      \* the session layer's: the id it came with, what it holds, whether changed
    proof,        \* history: the number of the password each session was given under
    ended,        \* history: sessions that have been ended
    late,         \* history: handlers that were under way when what they stand on was ended
    excused,      \* history: sessions and sources such a handler has written to
    wrong,        \* history: wrong tries answered since a lockout ended or a success
    redeemed      \* history: links that have been redeemed, and superseded or used ones

loginVars == <<fails, locked, lock, wrong>>
configVars == <<password, providers, secrets>>
linkVars == <<link, minted, redeemed>>
storeVars == <<store, file, taken, proof, ended>>
handlerVars == <<at, wish, session, late>>
vars == <<configVars, linkVars, storeVars, loginVars, handlerVars, today, play, excused>>

Record == [scope : Scopes, born : Days, seen : Option(Days)]
Nobody == [id |-> {}, data |-> {}, changed |-> FALSE]
Steps == {"idle", "proving", "failing", "redeeming", "handling", "rehashing", "stored",
          "removed", "signed_out", "depositing", "minting", "answering"}

TypeOK ==
    /\ password \in Passwords /\ providers \in [Sources -> {"none", "on", "off"}]
    /\ secrets \subseteq Sources
    /\ link \in Option([link : Links, scope : Scopes]) /\ minted \subseteq Links
    /\ store \in [Ids -> Option(Record)] /\ file \in [Ids -> Option(Record)] /\ taken \subseteq Ids
    /\ fails \in 0 .. MaxFails - 1 /\ locked \in BOOLEAN /\ today \in Days
    /\ lock \in Option(Callers) /\ at \in [Callers -> Steps]
    /\ wish \in [Callers -> Option(Wishes \union [kind : {"pair"}, link : Links])]
    /\ session \in [Callers -> [id : Option(Ids), data : Option(Record), changed : BOOLEAN]]
    /\ proof \in [Ids -> Option(Passwords)]
    /\ ended \subseteq Ids /\ late \subseteq Callers /\ excused \subseteq Ids \union Sources
    /\ wrong \in Nat /\ redeemed \in [Links -> Nat] /\ play \in Plays

Init ==
    /\ password = 0 /\ providers = [s \in Sources |-> "none"] /\ secrets = {}
    /\ link = {} /\ minted = {}
    /\ store = [i \in Ids |-> {}] /\ file = store /\ taken = {}
    /\ fails = 0 /\ locked = FALSE /\ lock = {} /\ today = 0
    /\ at = [c \in Callers |-> "idle"] /\ wish = [c \in Callers |-> {}]
    /\ session = [c \in Callers |-> Nobody]
    /\ proof = [i \in Ids |-> {}] /\ ended = {} /\ late = {} /\ excused = {}
    /\ wrong = 0 /\ redeemed = [l \in Links |-> 0] /\ play \in Plays

-----------------------------------------------------------------------------
(* The session store, and what a handler does with its own session. *)

\* Wrong on purpose: signing out is left to the next change to be written down.
EndsInMemory(gone) ==
    /\ store' = [i \in Ids |-> IF i \in gone THEN {} ELSE store[i]] /\ UNCHANGED file
    /\ ended' = ended \union (gone \intersect taken)

\* revoke_all, clear_all, delete: removed, and written down before anyone else may look.
Ends(gone) ==
    /\ store' = [i \in Ids |-> IF i \in gone THEN {} ELSE store[i]] /\ file' = store'
    /\ ended' = ended \union (gone \intersect taken)

\* Handlers whose session is among those.
Holding(gone) == {c \in Callers : session[c].id \intersect gone # {}}

\* Once there is an answer, what was asked no longer matters.
Moves(c, from, to) ==
    /\ at[c] = from /\ at' = [at EXCEPT ![c] = to]
    /\ wish' = IF to = "answering" THEN [wish EXCEPT ![c] = {}] ELSE wish

Rests(c) ==
    /\ at' = [at EXCEPT ![c] = "idle"] /\ wish' = [wish EXCEPT ![c] = {}]
    /\ session' = [session EXCEPT ![c] = Nobody] /\ late' = late \ {c}

\* cycle_id: the id is exchanged for one yet to be made, and the data kept.
Cycled(held) == [id |-> {}, data |-> held, changed |-> TRUE]

\* The session a request came with, if it is still there.
Presented(cookie) == UNION {store[i] : i \in cookie}

\* What a sign-in writes; the refresh stamp of the session it came with stays.
SignedIn(scope, cookie) ==
    Cycled({[scope |-> scope, born |-> today, seen |-> UNION {d.seen : d \in Presented(cookie)}]})

-----------------------------------------------------------------------------
(* login and pair, one at a time. *)

\* Wrong on purpose: nothing keeps two tries from being looked at together.
BeginsLoginFreely(c, pw) ==
    /\ ~ locked
    /\ Moves(c, "idle", IF pw = password THEN "proving" ELSE "failing")
    /\ UNCHANGED <<configVars, linkVars, storeVars, fails, locked, lock, wrong, session, late,
                   today, excused>>

\* The hash is read; Argon2 takes its time.
BeginsLogin(c, pw) ==
    /\ lock = {} /\ lock' = {c} /\ ~ locked
    /\ Moves(c, "idle", IF pw = password THEN "proving" ELSE "failing")
    /\ UNCHANGED <<configVars, linkVars, storeVars, fails, locked, wrong, session, late,
                   today, excused>>

BeginsPairing(c, l) ==
    /\ lock = {} /\ lock' = {c} /\ ~ locked
    /\ at[c] = "idle" /\ at' = [at EXCEPT ![c] = "redeeming"]
    /\ wish' = [wish EXCEPT ![c] = {[kind |-> "pair", link |-> l]}]
    /\ UNCHANGED <<configVars, linkVars, storeVars, fails, locked, wrong, session, late, today, excused>>

RecordsFailure ==
    /\ fails' = (fails + 1) % MaxFails
    /\ locked' = (locked \/ fails + 1 = MaxFails)
    /\ wrong' = wrong + 1

RecordsSuccess == fails' = 0 /\ locked' = FALSE /\ wrong' = 0

FailsLogin(c) ==
    /\ at[c] = "failing" /\ Rests(c) /\ lock' = lock \ {c}
    /\ RecordsFailure
    /\ UNCHANGED <<configVars, linkVars, storeVars, today, excused>>

\* The id is exchanged: the one it came with is gone from the store.
SignsIn(c, scope, cookie) ==
    /\ at' = [at EXCEPT ![c] = "answering"] /\ wish' = [wish EXCEPT ![c] = {}]
    /\ session' = [session EXCEPT ![c] = SignedIn(scope, cookie)]
    /\ Ends(cookie) /\ lock' = lock \ {c}
    /\ RecordsSuccess

Proves(c, cookie) ==
    /\ at[c] = "proving" /\ SignsIn(c, "dashboard", cookie)
    /\ late' = late \union Holding(cookie)
    /\ UNCHANGED <<configVars, linkVars, taken, proof, today, excused>>

\* pairing::redeem, behind its gate.  Nothing asks whether the integration is still installed.
Redeems(c, cookie) ==
    /\ at[c] = "redeeming"
    /\ \E w \in wish[c], p \in link :
         /\ p.link = w.link /\ SignsIn(c, p.scope, cookie)
         /\ redeemed' = [redeemed EXCEPT ![p.link] = @ + 1]
         /\ late' = late \union Holding(cookie)
                         \union IF \E s \in Sources \intersect {p.scope} : providers[s] = "none"
                                THEN {c} ELSE {}
    /\ link' = {}
    /\ UNCHANGED <<configVars, minted, taken, proof, today, excused>>

FailsToRedeem(c) ==
    /\ at[c] = "redeeming" /\ Rests(c) /\ lock' = lock \ {c}
    /\ \A w \in wish[c], p \in link : p.link # w.link
    /\ RecordsFailure
    /\ UNCHANGED <<configVars, linkVars, storeVars, today, excused>>

-----------------------------------------------------------------------------
(* require_auth, and logout. *)

MayReach(scope, w) ==
    \/ scope = "dashboard"
    \/ /\ w \in [kind : {"read"}] \union [kind : {"deposit"}, source : {scope}]
       /\ \A s \in Sources \intersect {scope} : providers[s] = "on"

\* Let in; the stamp is renewed if it is old, and only that changes the session.
Admits(c, i, w) ==
    /\ \E data \in store[i] :
         LET stale == \A d \in data.seen : today - d >= RefreshDays
         IN  /\ MayReach(data.scope, w) /\ today - data.born < MaxDays
             /\ session' = [session EXCEPT ![c] =
                   [id |-> {i}, changed |-> stale,
                    data |-> {IF stale THEN [data EXCEPT !.seen = {today}] ELSE data}]]
    /\ at[c] = "idle" /\ at' = [at EXCEPT ![c] = "handling"] /\ wish' = [wish EXCEPT ![c] = {w}]
    /\ UNCHANGED <<configVars, linkVars, storeVars, loginVars, late, today, excused>>

\* Past the cap it is flushed, and a logout flushes it too.
Flushes(i) ==
    /\ store[i] # {} /\ Ends({i})
    /\ late' = late \union Holding({i})
    /\ UNCHANGED <<configVars, linkVars, taken, proof, loginVars, at, wish, session, today, excused>>

-----------------------------------------------------------------------------
(* What is asked for. *)

Wish(c, kind) == {w \in wish[c] : w.kind = kind}

Reads(c) ==
    /\ Wish(c, "read") # {} /\ Moves(c, "handling", "answering")
    /\ UNCHANGED <<configVars, linkVars, storeVars, loginVars, session, late, today, excused>>

\* revoke_session: any of them, its own as well.
Revokes(c) ==
    /\ \E w \in Wish(c, "revoke") :
         /\ Ends({w.id}) /\ late' = late \union Holding({w.id})
    /\ Moves(c, "handling", "answering")
    /\ UNCHANGED <<configVars, linkVars, taken, proof, loginVars, session, today, excused>>

\* change_password: the current one is verified against the hash as it is now.
ReadsHash(c) ==
    /\ \E w \in Wish(c, "password") :
         Moves(c, "handling", IF w.pw = password /\ password < LastPassword THEN "rehashing" ELSE "answering")
    /\ UNCHANGED <<configVars, linkVars, storeVars, loginVars, session, late, today, excused>>

StoresHash(c) ==
    /\ password' = IF password < LastPassword THEN password + 1 ELSE password
    /\ Moves(c, "rehashing", "stored")
    /\ UNCHANGED <<providers, secrets, linkVars, storeVars, loginVars, session, late, today, excused>>

\* clear_all, and an id of its own anew; whoever is in the middle of anything does not notice.
SignsAllOut(c) ==
    /\ Ends(Ids)
    /\ late' = (late \union {o \in Callers : at[o] # "idle"}) \ {c}
    /\ session' = [session EXCEPT ![c] = Cycled(session[c].data)]
    /\ Moves(c, "stored", "answering")
    /\ UNCHANGED <<configVars, linkVars, taken, proof, loginVars, today, excused>>

\* set_provider
Configures(c) ==
    /\ \E k \in {"install", "disable"} : \E w \in Wish(c, k) :
         providers' = [providers EXCEPT ![w.source] = IF k = "install" THEN "on" ELSE "off"]
    /\ Moves(c, "handling", "answering")
    /\ UNCHANGED <<password, secrets, linkVars, storeVars, loginVars, session, late, today, excused>>

\* delete_provider: the entry, the sessions, the secret, one after the other.
Removes(c) ==
    /\ \E w \in Wish(c, "uninstall") : providers' = [providers EXCEPT ![w.source] = "none"]
    /\ Moves(c, "handling", "removed")
    /\ UNCHANGED <<password, secrets, linkVars, storeVars, loginVars, session, late, today, excused>>

Paired(s) == {i \in Ids : \E data \in store[i] : data.scope = s}

\* Wrong on purpose: the pairing is left to lapse.
LeavesPaired(c) ==
    /\ Moves(c, "removed", "signed_out")
    /\ UNCHANGED <<configVars, linkVars, storeVars, loginVars, session, late, today, excused>>

Unpairs(c) ==
    /\ \E w \in Wish(c, "uninstall") :
         /\ Ends(Paired(w.source))
         /\ late' = late \union Holding(Paired(w.source))
                \union {o \in Callers : \E data \in session[o].data : data.scope = w.source}
                \union {o \in Callers : [kind |-> "deposit", source |-> w.source] \in wish[o]}
    /\ Moves(c, "removed", "signed_out")
    /\ UNCHANGED <<configVars, linkVars, taken, proof, loginVars, session, today, excused>>

Forgets(c) ==
    /\ \E w \in Wish(c, "uninstall") : secrets' = secrets \ {w.source}
    /\ Moves(c, "signed_out", "answering")
    /\ UNCHANGED <<password, providers, linkVars, storeVars, loginVars, session, late, today, excused>>

\* set_provider_secret and pair_provider: installed is asked first, and the file written later.
Begins(c) ==
    /\ \E w \in Wish(c, "deposit") \union Wish(c, "mint") :
         Moves(c, "handling",
               CASE providers[w.source] = "none" -> "answering"
                 [] providers[w.source] # "none" /\ w.kind = "deposit" -> "depositing"
                 [] OTHER -> IF w.pw = password THEN "minting" ELSE "answering")
    /\ UNCHANGED <<configVars, linkVars, storeVars, loginVars, session, late, today, excused>>

Deposits(c) ==
    /\ \E w \in Wish(c, "deposit") :
         /\ secrets' = secrets \union {w.source}
         /\ excused' = excused \union IF c \in late THEN {w.source} ELSE {}
    /\ Moves(c, "depositing", "answering")
    /\ UNCHANGED <<password, providers, linkVars, storeVars, loginVars, session, late, today>>

\* A new link takes the place of the one before.
Mints(scope) ==
    \E l \in Links \ minted :
        link' = {[link |-> l, scope |-> scope]} /\ minted' = minted \union {l}

MintsForSource(c) ==
    /\ \E w \in Wish(c, "mint") : Mints(w.source)
    /\ Moves(c, "minting", "answering")
    /\ UNCHANGED <<configVars, redeemed, storeVars, loginVars, session, late, today, excused>>

\* nestwatch pair, at the machine.
MintsAtConsole ==
    /\ "console" \in play /\ \E scope \in Scopes : Mints(scope)
    /\ UNCHANGED <<configVars, redeemed, storeVars, loginVars, handlerVars, today, excused>>

-----------------------------------------------------------------------------
(* The answer, and the save after it. *)

Answers(c) ==
    /\ at[c] = "answering" /\ Rests(c)
    /\ \/ ~ session[c].changed /\ UNCHANGED <<storeVars, excused>>
       \/ /\ session[c].changed
          /\ \E i \in IF session[c].id = {} THEN Ids \ taken ELSE session[c].id :
               /\ store' = [store EXCEPT ![i] = session[c].data] /\ file' = store'
               /\ taken' = taken \union {i}
               /\ proof' = IF i \in taken THEN proof ELSE [proof EXCEPT ![i] = {password}]
               /\ excused' = excused \union IF c \in late THEN {i} ELSE {}
          /\ UNCHANGED ended
    /\ UNCHANGED <<configVars, linkVars, loginVars, today>>

\* What a handler cut short half way leaves behind, and whoever else was being served then.
LeftBy(c) ==
    (IF at[c] = "stored" THEN {i \in Ids : store[i] # {}} ELSE {})
    \union UNION {IF at[c] \in {"removed", "signed_out"} THEN {w.source} \union Paired(w.source) ELSE {}
                     : w \in Wish(c, "uninstall")}

\* The client is gone and the handler dropped; what it had given to the blocking pool is done all
\* the same, which is the step before and then this one.
GivesUp(c) ==
    /\ Leaves /\ at[c] # "idle" /\ lock' = lock \ {c}
    /\ at' = [at EXCEPT ![c] = "idle"] /\ wish' = [wish EXCEPT ![c] = {}]
    /\ session' = [session EXCEPT ![c] = Nobody]
    /\ late' = (IF LeftBy(c) = {} THEN late ELSE {o \in Callers : at[o] # "idle"}) \ {c}
    /\ excused' = excused \union LeftBy(c)
    /\ UNCHANGED <<configVars, linkVars, storeVars, fails, locked, wrong, today>>

-----------------------------------------------------------------------------
(* The world. *)

\* A bound: no request goes on past the end of a day.
DayPasses ==
    /\ "day" \in play /\ today < LastDay /\ today' = today + 1
    /\ \A c \in Callers : at[c] = "idle"
    /\ UNCHANGED <<configVars, linkVars, storeVars, loginVars, handlerVars, excused>>

LockoutEnds ==
    /\ locked /\ locked' = FALSE /\ wrong' = 0
    /\ UNCHANGED <<configVars, linkVars, storeVars, fails, lock, handlerVars, today, excused>>

LinkLapses ==
    /\ link # {} /\ link' = {}
    /\ UNCHANGED <<configVars, minted, redeemed, storeVars, loginVars, handlerVars, today, excused>>

Restart ==
    /\ store' = file
    /\ fails' = 0 /\ locked' = FALSE /\ wrong' = 0 /\ lock' = {}
    /\ at' = [c \in Callers |-> "idle"] /\ wish' = [c \in Callers |-> {}]
    /\ session' = [c \in Callers |-> Nobody] /\ late' = {}
    /\ excused' = excused \union UNION {LeftBy(c) : c \in Callers}
    /\ UNCHANGED <<configVars, linkVars, file, taken, proof, ended, today>>

Handles(c) ==
    \/ FailsLogin(c) \/ FailsToRedeem(c)
    \/ \E cookie \in Option(taken) : Proves(c, cookie) \/ Redeems(c, cookie)
    \/ Reads(c) \/ Revokes(c) \/ Configures(c)
    \/ ReadsHash(c) \/ StoresHash(c) \/ SignsAllOut(c)
    \/ Removes(c) \/ Unpairs(c) \/ Forgets(c)
    \/ Begins(c) \/ Deposits(c) \/ MintsForSource(c)
    \/ Answers(c)

Next ==
  /\ play' = play
  /\ \/ \E c \in Callers :
         \/ \E pw \in Passwords : BeginsLogin(c, pw)
         \/ \E l \in minted : BeginsPairing(c, l)
         \/ \E i \in taken, w \in {v \in Wishes : v.kind \in play} : Admits(c, i, w)
         \/ Handles(c) \/ GivesUp(c)
     \/ \E i \in taken : Flushes(i)
     \/ MintsAtConsole
     \/ DayPasses \/ LockoutEnds \/ LinkLapses \/ Restart

Spec == Init /\ [][Next]_vars

-----------------------------------------------------------------------------
(* No more wrong tries are answered between two lockouts than the limit, and *)
(* the last of them locks, however many try at once and whoever gives up     *)
(* half way; and of those who try one pairing link together it lets in one.  *)
(* (auth.rs login: "so concurrent requests can't all slip past the gate";    *)
(* pair: "500 concurrent bad tokens got 66 attempts past".)                  *)
TriesAreBounded ==
    /\ wrong <= MaxFails /\ (wrong = MaxFails => locked)
    /\ \A l \in Links : redeemed[l] <= 1

(* A session that was revoked, logged out, lapsed or cleared is not there    *)
(* again, also after a restart; except where a request of it that had its    *)
(* stamp to renew was under way.  And once a password is changed every       *)
(* session there is was given for the new one, except to whoever was being   *)
(* let in meanwhile.  (sessionstore.rs; api.rs revoke_session and            *)
(* change_password: "all other devices are signed out".)                     *)
SignedOutStaysOut ==
    /\ \A i \in ended \ excused : store[i] = {} /\ file[i] = {}
    /\ (\A c \in Callers : at[c] # "stored") =>
           \A i \in Ids \ excused : store[i] # {} => \A p \in proof[i] : p = password

(* An integration that is not installed has neither a session nor a secret,  *)
(* except from whoever was being served while it went, and from a link that  *)
(* outlived it.  (api.rs delete_provider: "an uninstalled provider must hold *)
(* nothing that could act on the child's behalf".)                           *)
UninstalledHoldsNothing ==
    \A s \in Sources :
        providers[s] = "none" /\ (\A c \in Callers : at[c] \notin {"removed", "signed_out"}) =>
            /\ s \in secrets => s \in excused
            /\ Paired(s) \subseteq excused

=============================================================================
