---------------------------- MODULE SignInProofs ----------------------------
(***************************************************************************)
(* Proofs about SignIn, for any callers, sessions, links, integrations and *)
(* limits, and requests of every kind at once: its types, that tries are   *)
(* bounded, that what was signed out stays out, and that an integration    *)
(* that is gone holds nothing.                                             *)
(***************************************************************************)
EXTENDS SignIn, TLAPS

-----------------------------------------------------------------------------
(* Types, part by part. *)

ConfigTypes ==
    /\ password \in Passwords /\ providers \in [Sources -> {"none", "on", "off"}]
    /\ secrets \subseteq Sources
    /\ link \in Option([link : Links, scope : Scopes]) /\ minted \subseteq Links
    /\ redeemed \in [Links -> Nat]

StoreTypes ==
    /\ store \in [Ids -> Option(Record)] /\ file \in [Ids -> Option(Record)] /\ taken \subseteq Ids
    /\ proof \in [Ids -> Option(Passwords)] /\ ended \subseteq Ids

LoginTypes ==
    fails \in 0 .. MaxFails - 1 /\ locked \in BOOLEAN /\ wrong \in Nat /\ lock \in Option(Callers)

Held == [id : Option(Ids), data : Option(Record), changed : BOOLEAN]
Asked == Option(Wishes \union [kind : {"pair"}, link : Links])

HandlerTypes ==
    /\ at \in [Callers -> Steps] /\ wish \in [Callers -> Asked] /\ session \in [Callers -> Held]
    /\ late \subseteq Callers /\ excused \subseteq Ids \union Sources

RestTypes == today \in Days /\ play \in Plays

LEMMA TypeParts == TypeOK <=> ConfigTypes /\ StoreTypes /\ LoginTypes /\ HandlerTypes /\ RestTypes
  BY DEF TypeOK, ConfigTypes, StoreTypes, LoginTypes, HandlerTypes, RestTypes, Held, Asked

LEMMA InitTypes == Init => TypeOK
  <1> SUFFICES ASSUME Init
               PROVE  ConfigTypes /\ StoreTypes /\ LoginTypes /\ HandlerTypes /\ RestTypes
    BY TypeParts
  <1> USE DEF Init, Option
  <1>1. ConfigTypes
    BY BoundsAssumption DEF ConfigTypes, Passwords
  <1>2. StoreTypes
    BY DEF StoreTypes
  <1>3. LoginTypes
    <2>1. fails \in 0 .. MaxFails - 1 /\ wrong \in Nat
      BY LimitsAssumption
    <2>2. locked \in BOOLEAN
      OBVIOUS
    <2> QED
      BY <2>1, <2>2 DEF LoginTypes
  <1>4. HandlerTypes
    BY DEF HandlerTypes, Held, Asked, Nobody, Steps
  <1>5. RestTypes
    BY BoundsAssumption DEF RestTypes, Days
  <1> QED
    BY <1>1, <1>2, <1>3, <1>4, <1>5

\* What a step may do to the store, to the limiter and to a handler.
LEMMA EndsTypes ==
    ASSUME StoreTypes, NEW gone, Ends(gone)
    PROVE  /\ store' \in [Ids -> Option(Record)] /\ file' \in [Ids -> Option(Record)]
           /\ ended' \subseteq Ids
  BY DEF StoreTypes, Ends, Option

LEMMA FailureTypes ==
    ASSUME LoginTypes, RecordsFailure
    PROVE  fails' \in 0 .. MaxFails - 1 /\ locked' \in BOOLEAN /\ wrong' \in Nat
  <1>1. fails' \in 0 .. MaxFails - 1
    BY LimitsAssumption DEF LoginTypes, RecordsFailure
  <1>2. locked' \in BOOLEAN
    BY DEF LoginTypes, RecordsFailure
  <1>3. wrong' \in Nat
    BY DEF LoginTypes, RecordsFailure
  <1> QED
    BY <1>1, <1>2, <1>3

LEMMA UnlockTypes ==
    ASSUME LoginTypes, NEW c \in Callers
    PROVE  lock \ {c} \in Option(Callers)
  <1>1. CASE lock = {}
    BY <1>1 DEF Option
  <1>2. ASSUME NEW o \in Callers, lock = {o} PROVE lock \ {c} \in Option(Callers)
    <2>1. lock \ {c} = {} \/ lock \ {c} = {o}
      BY <1>2
    <2> QED
      BY <2>1 DEF Option
  <1> QED
    BY <1>1, <1>2 DEF LoginTypes, Option

LEMMA MovesTypes ==
    ASSUME HandlerTypes, NEW c \in Callers, NEW from, NEW to \in Steps, Moves(c, from, to)
    PROVE  at' \in [Callers -> Steps] /\ wish' \in [Callers -> Asked]
  BY DEF HandlerTypes, Moves, Asked, Option

LEMMA RestsTypes ==
    ASSUME HandlerTypes, NEW c \in Callers, Rests(c)
    PROVE  /\ at' \in [Callers -> Steps] /\ wish' \in [Callers -> Asked]
           /\ session' \in [Callers -> Held] /\ late' \subseteq Callers
  <1>1. Nobody \in Held
    BY DEF Nobody, Held, Option
  <1> QED
    BY <1>1 DEF HandlerTypes, Rests, Asked, Steps, Option

LEMMA HoldingTypes == ASSUME NEW gone PROVE Holding(gone) \subseteq Callers
  BY DEF Holding

\* The session a sign-in makes.
LEMMA SignedInTypes ==
    ASSUME StoreTypes, RestTypes, NEW scope \in Scopes, NEW cookie \in Option(taken)
    PROVE  SignedIn(scope, cookie) \in Held
  <1>1. Presented(cookie) \in Option(Record)
    <2>1. CASE cookie = {}
      BY <2>1 DEF Presented, Option
    <2>2. ASSUME NEW i \in taken, cookie = {i} PROVE Presented(cookie) \in Option(Record)
      <3>1. Presented(cookie) = store[i]
        BY <2>2 DEF Presented
      <3> QED
        BY <3>1 DEF StoreTypes
    <2> QED
      BY <2>1, <2>2 DEF Option
  <1>2. UNION {d.seen : d \in Presented(cookie)} \in Option(Days)
    <2>1. CASE Presented(cookie) = {}
      <3>1. UNION {d.seen : d \in Presented(cookie)} = {}
        BY <2>1
      <3> QED
        BY <3>1 DEF Option
    <2>2. ASSUME NEW r \in Record, Presented(cookie) = {r}
          PROVE  UNION {d.seen : d \in Presented(cookie)} \in Option(Days)
      <3>1. UNION {d.seen : d \in Presented(cookie)} = r.seen
        BY <2>2
      <3> QED
        BY <3>1 DEF Record
    <2> QED
      BY <1>1, <2>1, <2>2 DEF Option
  <1>3. [scope |-> scope, born |-> today, seen |-> UNION {d.seen : d \in Presented(cookie)}] \in Record
    BY <1>2 DEF Record, RestTypes
  <1> QED
    BY <1>3 DEF SignedIn, Cycled, Held, Option

-----------------------------------------------------------------------------
(* Every step keeps to the types. *)

Types == ConfigTypes /\ StoreTypes /\ LoginTypes /\ HandlerTypes /\ RestTypes

LEMMA ConfigFrame == ASSUME ConfigTypes, UNCHANGED <<configVars, linkVars>> PROVE ConfigTypes'
  BY DEF ConfigTypes, configVars, linkVars

LEMMA StoreFrame == ASSUME StoreTypes, UNCHANGED storeVars PROVE StoreTypes'
  BY DEF StoreTypes, storeVars

LEMMA LoginFrame == ASSUME LoginTypes, UNCHANGED loginVars PROVE LoginTypes'
  BY DEF LoginTypes, loginVars

LEMMA HandlerFrame == ASSUME HandlerTypes, UNCHANGED <<handlerVars, excused>> PROVE HandlerTypes'
  BY DEF HandlerTypes, handlerVars

\* A handler that goes a step on.
LEMMA HandlerMoves ==
    ASSUME HandlerTypes, NEW c \in Callers, NEW from, NEW to \in Steps, Moves(c, from, to),
           UNCHANGED <<session, late, excused>>
    PROVE  HandlerTypes'
  BY MovesTypes DEF HandlerTypes

\* What is asked names what it is about.
LEMMA WishTypes ==
    ASSUME HandlerTypes, NEW c \in Callers, NEW w \in wish[c]
    PROVE  /\ w.kind \in {"install", "disable", "uninstall", "deposit", "mint"} => w.source \in Sources
           /\ w.kind = "revoke" => w.id \in Ids
           /\ w.kind = "pair" => w.link \in Links
  <1>1. w \in Wishes \union [kind : {"pair"}, link : Links]
    BY DEF HandlerTypes, Asked, Option
  <1> QED
    BY <1>1 DEF Wishes

LEMMA LoginStep ==
    ASSUME Types, play' = play, NEW c \in Callers,
           \/ \E pw \in Passwords : BeginsLogin(c, pw)
           \/ \E l \in minted : BeginsPairing(c, l)
           \/ FailsLogin(c) \/ FailsToRedeem(c)
           \/ \E cookie \in Option(taken) : Proves(c, cookie) \/ Redeems(c, cookie)
    PROVE  Types'
  <1> USE DEF Types
  <1>1. ASSUME UNCHANGED <<fails, locked, wrong>>, lock = {}, lock' = {c}
        PROVE  LoginTypes'
    BY <1>1 DEF LoginTypes, Option
  <1>2. ASSUME RecordsFailure, lock' = lock \ {c}
        PROVE  LoginTypes'
    BY <1>2, FailureTypes, UnlockTypes DEF LoginTypes
  <1>3. ASSUME RecordsSuccess, lock' = lock \ {c}
        PROVE  LoginTypes'
    <2>1. fails' \in 0 .. MaxFails - 1 /\ wrong' \in Nat
      BY <1>3, LimitsAssumption DEF RecordsSuccess
    <2>2. locked' \in BOOLEAN
      BY <1>3 DEF RecordsSuccess
    <2> QED
      BY <1>3, <2>1, <2>2, UnlockTypes DEF LoginTypes
  <1>4. ASSUME NEW scope \in Scopes, NEW cookie \in Option(taken), SignsIn(c, scope, cookie),
               UNCHANGED <<taken, proof, excused>>, late' \subseteq Callers
        PROVE  StoreTypes' /\ LoginTypes' /\ HandlerTypes'
    <2>1. StoreTypes'
      BY <1>4, EndsTypes DEF SignsIn, StoreTypes
    <2>2. LoginTypes'
      BY <1>3, <1>4 DEF SignsIn
    <2>3. SignedIn(scope, cookie) \in Held /\ {} \in Asked
      BY <1>4, SignedInTypes DEF Asked, Option
    <2>4. HandlerTypes'
      BY <1>4, <2>3 DEF SignsIn, HandlerTypes, Steps
    <2> QED
      BY <2>1, <2>2, <2>4
  <1>5. ASSUME UNCHANGED today PROVE RestTypes'
    BY <1>5 DEF RestTypes
  <1>6. ASSUME NEW pw, BeginsLogin(c, pw) PROVE Types'
    <2>1. HandlerTypes'
      BY <1>6, HandlerMoves DEF BeginsLogin, Steps
    <2> QED
      BY <1>6, <2>1, <1>1, <1>5, ConfigFrame, StoreFrame DEF BeginsLogin
  <1>7. ASSUME NEW l \in Links, BeginsPairing(c, l) PROVE Types'
    <2>1. {[kind |-> "pair", link |-> l]} \in Asked
      BY DEF Asked, Option
    <2>2. HandlerTypes'
      BY <1>7, <2>1 DEF BeginsPairing, HandlerTypes, Steps
    <2> QED
      BY <1>7, <2>2, <1>1, <1>5, ConfigFrame, StoreFrame DEF BeginsPairing
  <1>8. CASE FailsLogin(c) \/ FailsToRedeem(c)
    <2>1. HandlerTypes'
      BY <1>8, RestsTypes DEF FailsLogin, FailsToRedeem, HandlerTypes
    <2> QED
      BY <1>8, <2>1, <1>2, <1>5, ConfigFrame, StoreFrame DEF FailsLogin, FailsToRedeem
  <1>9. ASSUME NEW cookie \in Option(taken), Proves(c, cookie) PROVE Types'
    <2>1. late' \subseteq Callers /\ "dashboard" \in Scopes
      BY <1>9, HoldingTypes DEF Proves, HandlerTypes, Scopes
    <2>2. StoreTypes' /\ LoginTypes' /\ HandlerTypes'
      BY <1>9, <1>4, <2>1 DEF Proves
    <2> QED
      BY <1>9, <2>2, <1>5, ConfigFrame DEF Proves
  <1>10. ASSUME NEW cookie \in Option(taken), Redeems(c, cookie) PROVE Types'
    <2>1. PICK w \in wish[c], p \in link :
             /\ SignsIn(c, p.scope, cookie)
             /\ redeemed' = [redeemed EXCEPT ![p.link] = @ + 1]
             /\ late' = late \union Holding(cookie)
                             \union IF \E s \in Sources \intersect {p.scope} : providers[s] = "none"
                                    THEN {c} ELSE {}
      BY <1>10 DEF Redeems
    <2>2. p \in [link : Links, scope : Scopes]
      <3>1. link = {} \/ \E x \in [link : Links, scope : Scopes] : link = {x}
        BY DEF ConfigTypes, Option
      <3> QED
        BY <3>1
    <2>3. late' \subseteq Callers
      BY <2>1, HoldingTypes DEF HandlerTypes
    <2>4. StoreTypes' /\ LoginTypes' /\ HandlerTypes'
      BY <1>10, <1>4, <2>1, <2>2, <2>3 DEF Redeems
    <2>5. ConfigTypes'
      BY <1>10, <2>1, <2>2 DEF Redeems, ConfigTypes, configVars, Option
    <2> QED
      BY <1>10, <2>4, <2>5, <1>5 DEF Redeems
  <1> QED
    BY <1>6, <1>7, <1>8, <1>9, <1>10 DEF ConfigTypes

LEMMA MintsTypes ==
    ASSUME ConfigTypes, NEW scope \in Scopes, Mints(scope), UNCHANGED <<configVars, redeemed>>
    PROVE  ConfigTypes'
  <1>1. PICK l \in Links : link' = {[link |-> l, scope |-> scope]} /\ minted' = minted \union {l}
    BY DEF Mints
  <1>2. link' \in Option([link : Links, scope : Scopes])
    BY <1>1 DEF Option
  <1> QED
    BY <1>1, <1>2 DEF ConfigTypes, configVars

LEMMA AskedStep ==
    ASSUME Types, play' = play, NEW c \in Callers,
           \/ Reads(c) \/ Revokes(c) \/ ReadsHash(c) \/ StoresHash(c) \/ SignsAllOut(c)
           \/ Configures(c) \/ Removes(c) \/ Unpairs(c) \/ Forgets(c)
           \/ Begins(c) \/ Deposits(c) \/ MintsForSource(c)
    PROVE  Types'
  <1> USE DEF Types, Steps
  <1>0. ASSUME UNCHANGED today PROVE RestTypes'
    BY <1>0 DEF RestTypes
  <1>1. CASE Reads(c)
    BY <1>1, <1>0, HandlerMoves, ConfigFrame, StoreFrame, LoginFrame DEF Reads
  <1>2. CASE Revokes(c)
    <2>1. StoreTypes'
      BY <1>2, EndsTypes DEF Revokes, StoreTypes
    <2>2. HandlerTypes'
      BY <1>2, MovesTypes, HoldingTypes DEF Revokes, HandlerTypes
    <2> QED
      BY <1>2, <1>0, <2>1, <2>2, ConfigFrame, LoginFrame DEF Revokes
  <1>3. CASE ReadsHash(c)
    BY <1>3, <1>0, HandlerMoves, ConfigFrame, StoreFrame, LoginFrame DEF ReadsHash
  <1>4. CASE StoresHash(c)
    <2>1. password' \in Passwords
      BY <1>4, BoundsAssumption DEF StoresHash, ConfigTypes, Passwords
    <2>2. ConfigTypes'
      BY <1>4, <2>1 DEF StoresHash, ConfigTypes, linkVars
    <2> QED
      BY <1>4, <1>0, <2>2, HandlerMoves, StoreFrame, LoginFrame DEF StoresHash
  <1>5. CASE SignsAllOut(c)
    <2>1. StoreTypes'
      BY <1>5, EndsTypes DEF SignsAllOut, StoreTypes
    <2>2. Cycled(session[c].data) \in Held
      BY DEF Cycled, Held, HandlerTypes, Option
    <2>3. HandlerTypes'
      BY <1>5, <2>2, MovesTypes DEF SignsAllOut, HandlerTypes
    <2> QED
      BY <1>5, <1>0, <2>1, <2>3, ConfigFrame, LoginFrame DEF SignsAllOut
  <1>6. CASE Configures(c)
    <2>1. ConfigTypes'
      BY <1>6 DEF Configures, ConfigTypes, linkVars
    <2> QED
      BY <1>6, <1>0, <2>1, HandlerMoves, StoreFrame, LoginFrame DEF Configures
  <1>7. CASE Removes(c)
    <2>1. ConfigTypes'
      BY <1>7 DEF Removes, ConfigTypes, linkVars
    <2> QED
      BY <1>7, <1>0, <2>1, HandlerMoves, StoreFrame, LoginFrame DEF Removes
  <1>8. CASE Unpairs(c)
    <2>1. StoreTypes'
      BY <1>8, EndsTypes DEF Unpairs, StoreTypes
    <2>2. HandlerTypes'
      BY <1>8, MovesTypes, HoldingTypes DEF Unpairs, HandlerTypes
    <2> QED
      BY <1>8, <1>0, <2>1, <2>2, ConfigFrame, LoginFrame DEF Unpairs
  <1>9. CASE Forgets(c)
    <2>1. ConfigTypes'
      BY <1>9 DEF Forgets, ConfigTypes, linkVars
    <2> QED
      BY <1>9, <1>0, <2>1, HandlerMoves, StoreFrame, LoginFrame DEF Forgets
  <1>10. CASE Begins(c)
    <2>1. \E to \in Steps : Moves(c, "handling", to)
      BY <1>10 DEF Begins
    <2> QED
      BY <1>10, <1>0, <2>1, HandlerMoves, ConfigFrame, StoreFrame, LoginFrame DEF Begins
  <1>11. CASE Deposits(c)
    <2>1. PICK w \in Wish(c, "deposit") :
             /\ secrets' = secrets \union {w.source}
             /\ excused' = excused \union IF c \in late THEN {w.source} ELSE {}
      BY <1>11 DEF Deposits
    <2>2. w.source \in Sources
      BY WishTypes DEF Wish
    <2>3. ConfigTypes'
      BY <1>11, <2>1, <2>2 DEF Deposits, ConfigTypes, linkVars
    <2>4. HandlerTypes'
      BY <1>11, <2>1, <2>2, MovesTypes DEF Deposits, HandlerTypes
    <2> QED
      BY <1>11, <1>0, <2>3, <2>4, StoreFrame, LoginFrame DEF Deposits
  <1>12. CASE MintsForSource(c)
    <2>1. PICK w \in Wish(c, "mint") : Mints(w.source)
      BY <1>12 DEF MintsForSource
    <2>2. w.source \in Scopes
      BY WishTypes DEF Wish, Scopes
    <2>3. ConfigTypes'
      BY <1>12, <2>1, <2>2, MintsTypes DEF MintsForSource
    <2> QED
      BY <1>12, <1>0, <2>3, HandlerMoves, StoreFrame, LoginFrame DEF MintsForSource
  <1> QED
    BY <1>1, <1>2, <1>3, <1>4, <1>5, <1>6, <1>7, <1>8, <1>9, <1>10, <1>11, <1>12

\* What a request let in holds.
LEMMA AdmittedTypes ==
    ASSUME Types, NEW c \in Callers, NEW i \in taken, NEW w \in Wishes, Admits(c, i, w)
    PROVE  session' \in [Callers -> Held]
  <1> USE DEF Types
  <1>1. PICK data \in store[i] :
          LET stale == \A d \in data.seen : today - d >= RefreshDays
          IN  session' = [session EXCEPT ![c] =
                [id |-> {i}, changed |-> stale,
                 data |-> {IF stale THEN [data EXCEPT !.seen = {today}] ELSE data}]]
    BY DEF Admits
  <1> DEFINE stale == \A d \in data.seen : today - d >= RefreshDays
             kept == IF stale THEN [data EXCEPT !.seen = {today}] ELSE data
  <1>2. data \in Record
    BY DEF StoreTypes, Option
  <1>3. {today} \in Option(Days)
    BY DEF RestTypes, Option
  <1>4. kept \in Record
    BY <1>2, <1>3 DEF Record
  <1>5. {i} \in Option(Ids) /\ {kept} \in Option(Record)
    BY <1>4 DEF StoreTypes, Option
  <1>6. stale \in BOOLEAN
    OBVIOUS
  <1>7. [id |-> {i}, changed |-> stale, data |-> {kept}] \in Held
    <2> HIDE DEF kept, stale
    <2> QED
      BY <1>5, <1>6 DEF Held
  <1>8. session' = [session EXCEPT ![c] = [id |-> {i}, changed |-> stale, data |-> {kept}]]
    BY <1>1
  <1> QED
    <2> HIDE DEF kept, stale
    <2> QED
      BY <1>7, <1>8 DEF HandlerTypes

\* What a handler that goes leaves is ids and sources.
LEMMA LeftTypes ==
    ASSUME HandlerTypes, NEW c \in Callers
    PROVE  LeftBy(c) \subseteq Ids \union Sources
  <1>1. \A w \in Wish(c, "uninstall") : {w.source} \union Paired(w.source) \subseteq Ids \union Sources
    BY WishTypes DEF Wish, Paired
  <1> QED
    BY <1>1 DEF LeftBy

LEMMA OtherStep ==
    ASSUME Types, play' = play,
           \/ \E c \in Callers :
                \/ \E i \in taken, w \in {v \in Wishes : v.kind \in play} : Admits(c, i, w)
                \/ Answers(c) \/ GivesUp(c)
           \/ \E i \in taken : Flushes(i)
           \/ MintsAtConsole \/ DayPasses \/ LockoutEnds \/ LinkLapses \/ Restart
    PROVE  Types'
  <1> USE DEF Types
  <1>0. ASSUME UNCHANGED today PROVE RestTypes'
    BY <1>0 DEF RestTypes
  <1>1. ASSUME NEW c \in Callers, NEW i \in taken, NEW w \in Wishes, Admits(c, i, w)
        PROVE  Types'
    <2>1. {w} \in Asked
      BY DEF Asked, Option
    <2>2. HandlerTypes'
      BY <1>1, <2>1, AdmittedTypes DEF Admits, HandlerTypes, Steps
    <2> QED
      BY <1>1, <1>0, <2>2, ConfigFrame, StoreFrame, LoginFrame DEF Admits
  <1>2. ASSUME NEW c \in Callers, Answers(c)
        PROVE  Types'
    <2>1. CASE UNCHANGED <<storeVars, excused>>
      <3>1. HandlerTypes'
        BY <1>2, <2>1, RestsTypes DEF Answers, HandlerTypes
      <3> QED
        BY <1>2, <2>1, <3>1, <1>0, ConfigFrame, StoreFrame, LoginFrame DEF Answers
    <2>2. ASSUME NEW i \in IF session[c].id = {} THEN Ids \ taken ELSE session[c].id,
                 store' = [store EXCEPT ![i] = session[c].data], file' = store',
                 taken' = taken \union {i},
                 proof' = IF i \in taken THEN proof ELSE [proof EXCEPT ![i] = {password}],
                 excused' = excused \union IF c \in late THEN {i} ELSE {},
                 UNCHANGED ended
          PROVE  Types'
      <3>1. session[c] \in Held
        BY DEF HandlerTypes
      <3>2. session[c].data \in Option(Record) /\ session[c].id \in Option(Ids)
        BY <3>1 DEF Held
      <3>3. i \in Ids
        BY <3>2 DEF Option
      <3>4. {password} \in Option(Passwords)
        BY DEF ConfigTypes, Option
      <3>5. StoreTypes'
        BY <2>2, <3>2, <3>3, <3>4 DEF StoreTypes
      <3>6. HandlerTypes'
        BY <1>2, <2>2, <3>3, RestsTypes DEF Answers, HandlerTypes
      <3> QED
        BY <1>2, <1>0, <3>5, <3>6, ConfigFrame, LoginFrame DEF Answers
    <2> QED
      BY <1>2, <2>1, <2>2 DEF Answers
  <1>3. ASSUME NEW c \in Callers, GivesUp(c)
        PROVE  Types'
    <2>1. Nobody \in Held /\ {} \in Asked
      BY DEF Nobody, Held, Asked, Option
    <2>2. HandlerTypes'
      BY <1>3, <2>1, LeftTypes DEF GivesUp, HandlerTypes, Steps
    <2>3. LoginTypes'
      BY <1>3, UnlockTypes DEF GivesUp, LoginTypes
    <2> QED
      BY <1>3, <1>0, <2>2, <2>3, ConfigFrame, StoreFrame DEF GivesUp
  <1>4. ASSUME NEW i \in taken, Flushes(i)
        PROVE  Types'
    <2>1. StoreTypes'
      BY <1>4, EndsTypes DEF Flushes, StoreTypes
    <2>2. HandlerTypes'
      BY <1>4, HoldingTypes DEF Flushes, HandlerTypes
    <2> QED
      BY <1>4, <1>0, <2>1, <2>2, ConfigFrame, LoginFrame DEF Flushes
  <1>5. CASE MintsAtConsole
    BY <1>5, <1>0, MintsTypes, StoreFrame, LoginFrame, HandlerFrame DEF MintsAtConsole
  <1>6. CASE DayPasses
    <2>1. RestTypes'
      BY <1>6, BoundsAssumption DEF DayPasses, RestTypes, Days
    <2> QED
      BY <1>6, <2>1, ConfigFrame, StoreFrame, LoginFrame, HandlerFrame DEF DayPasses
  <1>7. CASE LockoutEnds
    <2>1. wrong' \in Nat /\ fails' \in 0 .. MaxFails - 1 /\ lock' \in Option(Callers)
      BY <1>7 DEF LockoutEnds, LoginTypes
    <2>2. locked' \in BOOLEAN
      BY <1>7 DEF LockoutEnds
    <2> QED
      BY <1>7, <1>0, <2>1, <2>2, ConfigFrame, StoreFrame, HandlerFrame DEF LockoutEnds, LoginTypes
  <1>8. CASE LinkLapses
    <2>1. ConfigTypes'
      BY <1>8 DEF LinkLapses, ConfigTypes, configVars, Option
    <2> QED
      BY <1>8, <1>0, <2>1, StoreFrame, LoginFrame, HandlerFrame DEF LinkLapses
  <1>9. CASE Restart
    <2>1. Nobody \in Held /\ {} \in Asked
      BY DEF Nobody, Held, Asked, Option
    <2>2. HandlerTypes'
      BY <1>9, <2>1, LeftTypes DEF Restart, HandlerTypes, Steps
    <2>3. wrong' \in Nat /\ fails' \in 0 .. MaxFails - 1 /\ lock' \in Option(Callers)
      BY <1>9, LimitsAssumption DEF Restart, Option
    <2>4. locked' \in BOOLEAN
      BY <1>9 DEF Restart
    <2>5. LoginTypes'
      BY <2>3, <2>4 DEF LoginTypes
    <2>6. StoreTypes'
      BY <1>9 DEF Restart, StoreTypes
    <2> QED
      BY <1>9, <1>0, <2>2, <2>5, <2>6, ConfigFrame DEF Restart
  <1> QED
    BY <1>1, <1>2, <1>3, <1>4, <1>5, <1>6, <1>7, <1>8, <1>9

LEMMA TypeStep == ASSUME TypeOK, [Next]_vars PROVE TypeOK'
  <1>1. Types
    BY TypeParts DEF Types
  <1>2. CASE UNCHANGED vars
    BY <1>2, TypeOK DEF TypeOK, vars, configVars, linkVars, storeVars, loginVars, handlerVars
  <1>3. CASE Next
    <2>1. Types'
      BY <1>1, <1>3, LoginStep, AskedStep, OtherStep DEF Next, Handles
    <2> QED
      BY <2>1 DEF Types, TypeOK, ConfigTypes, StoreTypes, LoginTypes, HandlerTypes, RestTypes, Held, Asked
  <1> QED
    BY <1>2, <1>3

(* The password, the links, the sessions in memory and on disk, the limiter  *)
(* and what every handler holds have the declared types.                     *)
THEOREM TypeCorrect == Spec => []TypeOK
  BY InitTypes, TypeStep, PTL DEF Spec

-----------------------------------------------------------------------------
(* What is so at every step. *)

\* Tries wait for one another, and what is counted since the last lockout or success is what the
\* limiter counts.
Trying == {"proving", "failing", "redeeming"}

TriesAgree ==
    /\ \A c \in Callers : at[c] \in Trying <=> lock = {c}
    /\ locked => /\ fails = 0 /\ wrong = MaxFails
                 /\ \A c \in Callers : at[c] \notin Trying
    /\ ~locked => wrong = fails

LEMMA InitTries == Init => TriesAgree
  BY LimitsAssumption DEF Init, TriesAgree, Trying

Serving == Steps \ ({"idle"} \union Trying)

\* What a handler that has been let in does has nothing to do with who tries.
LEMMA ServesOn ==
    ASSUME NEW c,
           \/ Reads(c) \/ Revokes(c) \/ ReadsHash(c) \/ StoresHash(c) \/ SignsAllOut(c)
           \/ Configures(c) \/ Removes(c) \/ Unpairs(c) \/ Forgets(c)
           \/ Begins(c) \/ Deposits(c) \/ MintsForSource(c)
    PROVE  /\ UNCHANGED loginVars
           /\ at[c] \in Serving /\ \E to \in Serving : at' = [at EXCEPT ![c] = to]
  <1> USE DEF Moves, Serving, Steps, Trying
  <1>1. CASE Reads(c) \/ Revokes(c) \/ ReadsHash(c) \/ StoresHash(c) \/ SignsAllOut(c)
    BY <1>1 DEF Reads, Revokes, ReadsHash, StoresHash, SignsAllOut
  <1>2. CASE Configures(c) \/ Removes(c) \/ Unpairs(c) \/ Forgets(c)
    BY <1>2 DEF Configures, Removes, Unpairs, Forgets
  <1>3. CASE Begins(c)
    BY <1>3 DEF Begins
  <1>4. CASE Deposits(c) \/ MintsForSource(c)
    BY <1>4 DEF Deposits, MintsForSource
  <1> QED
    BY <1>1, <1>2, <1>3, <1>4

LEMMA TriesStep == ASSUME TypeOK, TriesAgree, Next PROVE TriesAgree'
  <1> USE DEF TriesAgree, Trying
  <1>0. /\ at \in [Callers -> Steps] /\ lock \in Option(Callers) /\ fails \in 0 .. MaxFails - 1
        /\ wrong \in Nat
    BY DEF TypeOK
  <1>1. ASSUME UNCHANGED <<at, loginVars>> PROVE TriesAgree'
    BY <1>1 DEF loginVars
  <1>2. ASSUME NEW c \in Callers, UNCHANGED loginVars, at[c] \notin Trying,
               NEW to \in Steps \ Trying, at' = [at EXCEPT ![c] = to]
        PROVE  TriesAgree'
    BY <1>0, <1>2 DEF loginVars
  <1>3. ASSUME NEW c \in Callers, lock = {}, lock' = {c}, ~locked, UNCHANGED <<fails, locked, wrong>>,
               NEW to \in Trying, at' = [at EXCEPT ![c] = to]
        PROVE  TriesAgree'
    BY <1>0, <1>3
  <1>4. ASSUME NEW c \in Callers, at[c] \in Trying, lock' = lock \ {c}, RecordsFailure,
               at' = [at EXCEPT ![c] = "idle"]
        PROVE  TriesAgree'
    <2>1. lock = {c} /\ ~locked /\ wrong = fails
      BY <1>4
    <2>2. \A o \in Callers : at'[o] \notin Trying
      BY <1>0, <1>4, <2>1
    <2>3. lock' = {}
      BY <1>4, <2>1
    <2>4. CASE fails + 1 = MaxFails
      <3>1. locked'
        BY <1>4, <2>4 DEF RecordsFailure
      <3>2. fails' = 0 /\ wrong' = MaxFails
        BY <1>0, <1>4, <2>1, <2>4, LimitsAssumption DEF RecordsFailure
      <3> QED
        BY <2>2, <2>3, <3>1, <3>2
    <2>5. CASE fails + 1 # MaxFails
      <3>1. ~locked'
        BY <1>4, <2>1, <2>5 DEF RecordsFailure
      <3>2. fails + 1 \in 0 .. MaxFails - 1
        BY <1>0, <2>5, LimitsAssumption
      <3>3. fails' = wrong'
        BY <1>4, <2>1, <3>2, LimitsAssumption DEF RecordsFailure
      <3> QED
        BY <2>2, <2>3, <3>1, <3>3
    <2> QED
      BY <2>4, <2>5
  <1>5. ASSUME NEW c \in Callers, at[c] \in Trying, lock' = lock \ {c}, RecordsSuccess,
               at' = [at EXCEPT ![c] = "answering"]
        PROVE  TriesAgree'
    BY <1>0, <1>5 DEF RecordsSuccess
  <1>6. ASSUME NEW c \in Callers, GivesUp(c)
        PROVE  TriesAgree'
    <2>1. lock' = lock \ {c} /\ at' = [at EXCEPT ![c] = "idle"] /\ UNCHANGED <<fails, locked, wrong>>
      BY <1>6 DEF GivesUp
    <2>2. lock = {} \/ \E o \in Callers : lock = {o}
      BY <1>0 DEF Option
    <2> QED
      BY <1>0, <2>1, <2>2
  <1>7. CASE LockoutEnds
    BY <1>7 DEF LockoutEnds, handlerVars
  <1>8. CASE Restart
    BY <1>8 DEF Restart
  <1>9. ASSUME NEW c \in Callers, \E i, w : Admits(c, i, w)
        PROVE  TriesAgree'
    BY <1>2, <1>9 DEF Admits, Steps
  <1>10. ASSUME NEW c \in Callers, Answers(c)
         PROVE  TriesAgree'
    BY <1>2, <1>10 DEF Answers, Rests, Steps
  <1>11. ASSUME NEW c \in Callers, Handles(c)
         PROVE  TriesAgree'
    <2>1. CASE FailsLogin(c) \/ FailsToRedeem(c)
      BY <1>4, <2>1 DEF FailsLogin, FailsToRedeem, Rests
    <2>2. CASE \E cookie : Proves(c, cookie) \/ Redeems(c, cookie)
      BY <1>5, <2>2 DEF Proves, Redeems, SignsIn
    <2>3. CASE Answers(c)
      BY <1>10, <2>3
    <2>4. ASSUME UNCHANGED loginVars, at[c] \in Serving,
                 \E to \in Serving : at' = [at EXCEPT ![c] = to]
          PROVE  TriesAgree'
      BY <1>2, <2>4 DEF Serving
    <2> QED
      BY <1>11, <2>1, <2>2, <2>3, <2>4, ServesOn DEF Handles
  <1>12. ASSUME NEW c \in Callers, \E pw : BeginsLogin(c, pw)
         PROVE  TriesAgree'
    BY <1>3, <1>12 DEF BeginsLogin, Moves
  <1>13. ASSUME NEW c \in Callers, \E l : BeginsPairing(c, l)
         PROVE  TriesAgree'
    BY <1>3, <1>13 DEF BeginsPairing
  <1>14. CASE (\E i \in taken : Flushes(i)) \/ MintsAtConsole \/ DayPasses \/ LinkLapses
    BY <1>1, <1>14 DEF Flushes, MintsAtConsole, DayPasses, LinkLapses, handlerVars
  <1> QED
    BY <1>6, <1>7, <1>8, <1>9, <1>11, <1>12, <1>13, <1>14 DEF Next

\* A link is handed out once, and let in with at most once.
LinksAgree ==
    /\ \A l \in Links : redeemed[l] <= 1 /\ (redeemed[l] = 1 => l \in minted)
    /\ \A p \in link : p.link \in minted /\ redeemed[p.link] = 0

LEMMA InitLinks == Init => LinksAgree
  BY DEF Init, LinksAgree

LEMMA LinksStep == ASSUME TypeOK, LinksAgree, Next PROVE LinksAgree'
  <1> USE DEF LinksAgree
  <1>0. redeemed \in [Links -> Nat] /\ link \in Option([link : Links, scope : Scopes])
    BY DEF TypeOK
  <1>1. ASSUME UNCHANGED linkVars PROVE LinksAgree'
    BY <1>1 DEF linkVars
  <1>2. ASSUME NEW scope, Mints(scope), UNCHANGED redeemed PROVE LinksAgree'
    BY <1>0, <1>2 DEF Mints
  <1>3. CASE LinkLapses
    BY <1>3 DEF LinkLapses
  <1>4. ASSUME NEW c, NEW cookie, Redeems(c, cookie) PROVE LinksAgree'
    <2>1. PICK p \in link : redeemed' = [redeemed EXCEPT ![p.link] = @ + 1]
      BY <1>4 DEF Redeems
    <2>2. link' = {} /\ minted' = minted
      BY <1>4 DEF Redeems
    <2>3. p.link \in minted /\ redeemed[p.link] = 0
      OBVIOUS
    <2> QED
      BY <1>0, <2>1, <2>2, <2>3
  <1>5. ASSUME NEW c \in Callers, Handles(c) PROVE LinksAgree'
    <2>1. CASE FailsLogin(c) \/ FailsToRedeem(c) \/ \E cookie : Proves(c, cookie)
      BY <1>1, <2>1 DEF FailsLogin, FailsToRedeem, Proves
    <2>2. CASE Reads(c) \/ Revokes(c) \/ Configures(c) \/ ReadsHash(c) \/ StoresHash(c)
               \/ SignsAllOut(c)
      BY <1>1, <2>2 DEF Reads, Revokes, Configures, ReadsHash, StoresHash, SignsAllOut
    <2>3. CASE Removes(c) \/ Unpairs(c) \/ Forgets(c) \/ Begins(c) \/ Deposits(c) \/ Answers(c)
      BY <1>1, <2>3 DEF Removes, Unpairs, Forgets, Begins, Deposits, Answers
    <2>4. CASE MintsForSource(c)
      BY <1>2, <2>4 DEF MintsForSource
    <2> QED
      BY <1>4, <1>5, <2>1, <2>2, <2>3, <2>4 DEF Handles
  <1>6. ASSUME NEW c \in Callers, \/ \E pw : BeginsLogin(c, pw)
                                  \/ \E l : BeginsPairing(c, l)
                                  \/ \E i, w : Admits(c, i, w)
                                  \/ GivesUp(c)
        PROVE  LinksAgree'
    BY <1>1, <1>6 DEF BeginsLogin, BeginsPairing, Admits, GivesUp
  <1>7. CASE (\E i \in taken : Flushes(i)) \/ DayPasses \/ LockoutEnds \/ Restart
    BY <1>1, <1>7 DEF Flushes, DayPasses, LockoutEnds, Restart
  <1>8. CASE MintsAtConsole
    BY <1>2, <1>8 DEF MintsAtConsole
  <1> QED
    BY <1>3, <1>5, <1>6, <1>7, <1>8 DEF Next

\* Between them no more wrong tries, and no more sign-ins with one link, than allowed.
LEMMA TriesFollow == ASSUME TypeOK, TriesAgree, LinksAgree PROVE TriesAreBounded
  BY LimitsAssumption DEF TypeOK, TriesAgree, LinksAgree, TriesAreBounded

\* Handlers that have been let in hold a session, and the others do not; and whoever holds one that
\* has ended was under way then, or has brought it back before.
HeldAgrees(c) ==
    /\ at[c] \in Serving <=> session[c].data # {}
    /\ at[c] \notin Serving => session[c].id = {}
    /\ session[c].id \subseteq taken
    /\ c \notin late => session[c].id \intersect ended \subseteq excused

HandlersAgree == \A c \in Callers : HeldAgrees(c)

\* What is in the store is what has been given out and has not ended.
StoreAgrees ==
    /\ store = file /\ ended \subseteq taken
    /\ \A i \in Ids :
         /\ i \notin taken => store[i] = {} /\ proof[i] = {}
         /\ i \in taken \ ended => store[i] # {}
         /\ i \in ended \ excused => store[i] = {}

\* While nobody is half way through a change of the password.
ProofsAgree ==
    (\A c \in Callers : at[c] # "stored") =>
        \A i \in taken \ (ended \union excused) : proof[i] \subseteq {password}

SessionsAgree == HandlersAgree /\ StoreAgrees /\ ProofsAgree

LEMMA InitSessions == Init => SessionsAgree
  BY DEF Init, SessionsAgree, HandlersAgree, HeldAgrees, StoreAgrees, ProofsAgree, Nobody,
         Serving, Trying, Steps

\* A step that gives nothing out, ends nothing, and only excuses.
LEMMA SessionsStay ==
    ASSUME TypeOK, SessionsAgree, UNCHANGED <<storeVars, password, session, late>>,
           excused \subseteq excused',
           NEW c \in Callers, NEW to \in Steps, at' = [at EXCEPT ![c] = to],
           at[c] \in Serving <=> to \in Serving, at[c] # "stored"
    PROVE  SessionsAgree'
  <1> USE DEF SessionsAgree, storeVars
  <1>0. at \in [Callers -> Steps] /\ proof \in [Ids -> Option(Passwords)]
    BY DEF TypeOK
  <1>1. HandlersAgree'
    BY <1>0 DEF HandlersAgree, HeldAgrees
  <1>2. StoreAgrees'
    BY DEF StoreAgrees
  <1>3. ProofsAgree'
    BY <1>0 DEF ProofsAgree
  <1> QED
    BY <1>1, <1>2, <1>3

\* A step that ends sessions, and knows who holds one.
LEMMA SessionsEnd ==
    ASSUME TypeOK, SessionsAgree, NEW gone, Ends(gone),
           UNCHANGED <<taken, proof, password, excused>>
    PROVE  /\ StoreAgrees' /\ ((\A c \in Callers : at[c] # "stored") => ProofsAgree')
           /\ \A c \in Callers :
                  session'[c] = session[c] /\ (at'[c] \in Serving <=> at[c] \in Serving)
                      /\ (c \in late \union Holding(gone) => c \in late')
                  => HeldAgrees(c)'
  <1> USE DEF SessionsAgree, Ends
  <1>0. /\ at \in [Callers -> Steps] /\ store \in [Ids -> Option(Record)] /\ ended \subseteq Ids
        /\ taken \subseteq Ids
    BY DEF TypeOK
  <1>1. StoreAgrees'
    BY <1>0 DEF StoreAgrees
  <1>2. (\A c \in Callers : at[c] # "stored") => ProofsAgree'
    BY <1>0 DEF ProofsAgree
  <1>3. ASSUME NEW c \in Callers, session'[c] = session[c], at'[c] \in Serving <=> at[c] \in Serving,
               c \in late \union Holding(gone) => c \in late'
        PROVE  HeldAgrees(c)'
    BY <1>3 DEF HandlersAgree, HeldAgrees, Holding
  <1> QED
    BY <1>1, <1>2, <1>3

\* A request that is being handled.
LEMMA SessionsAsked ==
    ASSUME TypeOK, SessionsAgree, NEW c \in Callers,
           \/ Reads(c) \/ Revokes(c) \/ ReadsHash(c) \/ StoresHash(c) \/ SignsAllOut(c)
           \/ Configures(c) \/ Removes(c) \/ Unpairs(c) \/ Forgets(c)
           \/ Begins(c) \/ Deposits(c) \/ MintsForSource(c)
    PROVE  SessionsAgree'
  <1>0. /\ at \in [Callers -> Steps] /\ late \subseteq Callers /\ ended \subseteq taken
        /\ session \in [Callers -> Held] /\ taken \subseteq Ids
    BY DEF TypeOK, SessionsAgree, StoreAgrees, Held
  <1>1. PICK to \in Serving : at[c] \in Serving /\ at' = [at EXCEPT ![c] = to]
    BY ServesOn
  <1>2. to \in Steps
    BY DEF Serving
  <1>3. CASE Reads(c) \/ ReadsHash(c) \/ Configures(c) \/ Removes(c) \/ Forgets(c)
    <2>1. at[c] # "stored" /\ UNCHANGED <<storeVars, password, session, late, excused>>
      BY <1>3 DEF Reads, ReadsHash, Configures, Removes, Forgets, Moves, configVars
    <2> QED
      BY <1>1, <1>2, <2>1, SessionsStay
  <1>4. CASE Begins(c) \/ MintsForSource(c)
    <2>1. at[c] # "stored" /\ UNCHANGED <<storeVars, password, session, late, excused>>
      BY <1>4 DEF Begins, MintsForSource, Moves, configVars
    <2> QED
      BY <1>1, <1>2, <2>1, SessionsStay
  <1>5. CASE Deposits(c)
    <2>1. /\ at[c] # "stored" /\ UNCHANGED <<storeVars, password, session, late>>
          /\ excused \subseteq excused'
      BY <1>5 DEF Deposits, Moves
    <2> QED
      BY <1>1, <1>2, <2>1, SessionsStay
  <1>6. CASE StoresHash(c)
    <2>1. at' = [at EXCEPT ![c] = "stored"] /\ at[c] = "rehashing"
          /\ UNCHANGED <<storeVars, session, late, excused>>
      BY <1>6 DEF StoresHash, Moves
    <2>2. HandlersAgree'
      BY <1>0, <2>1 DEF SessionsAgree, HandlersAgree, HeldAgrees, storeVars, Serving, Trying, Steps
    <2>3. StoreAgrees' /\ ProofsAgree'
      BY <1>0, <2>1 DEF SessionsAgree, StoreAgrees, ProofsAgree, storeVars
    <2> QED
      BY <2>2, <2>3 DEF SessionsAgree
  <1>7. ASSUME NEW gone, Ends(gone), Holding(gone) \union late \subseteq late',
               at[c] # "stored",
               UNCHANGED <<taken, proof, password, excused, session>>
        PROVE  SessionsAgree'
    <2>1. \A o \in Callers : at'[o] \in Serving <=> at[o] \in Serving
      BY <1>0, <1>1
    <2>2. StoreAgrees' /\ HandlersAgree'
      BY <1>7, <2>1, SessionsEnd DEF HandlersAgree
    <2>3. CASE \A o \in Callers : at[o] # "stored"
      BY <1>7, <2>2, <2>3, SessionsEnd DEF SessionsAgree
    <2>4. CASE \E o \in Callers : at[o] = "stored"
      BY <1>0, <1>1, <1>7, <2>2, <2>4 DEF SessionsAgree, ProofsAgree
    <2> QED
      BY <2>3, <2>4
  <1>8. CASE Revokes(c)
    <2>1. PICK w \in Wish(c, "revoke") : Ends({w.id}) /\ late' = late \union Holding({w.id})
      BY <1>8 DEF Revokes
    <2> QED
      BY <1>7, <1>8, <2>1 DEF Revokes, Moves, configVars
  <1>9. CASE Unpairs(c)
    <2>1. PICK w \in Wish(c, "uninstall") :
             Ends(Paired(w.source)) /\ Holding(Paired(w.source)) \union late \subseteq late'
      BY <1>9 DEF Unpairs
    <2> QED
      BY <1>7, <1>9, <2>1 DEF Unpairs, Moves, configVars
  <1>10. CASE SignsAllOut(c)
    <2>1. Ends(Ids) /\ UNCHANGED <<taken, proof, password, excused>>
      BY <1>10 DEF SignsAllOut, configVars
    <2>2. StoreAgrees'
      BY <2>1, SessionsEnd
    <2>3. ProofsAgree'
      BY <1>0, <2>1 DEF Ends, ProofsAgree
    <2>4. /\ session' = [session EXCEPT ![c] = Cycled(session[c].data)]
          /\ late' = (late \union {o \in Callers : at[o] # "idle"}) \ {c}
      BY <1>10 DEF SignsAllOut
    <2>5. ASSUME NEW o \in Callers, o # c PROVE HeldAgrees(o)'
      <3>1. session'[o] = session[o] /\ at'[o] = at[o] /\ HeldAgrees(o)
        BY <1>0, <1>1, <2>4, <2>5 DEF SessionsAgree, HandlersAgree
      <3>2. o \notin late' => at[o] \notin Serving
        BY <2>4, <2>5 DEF Serving
      <3> QED
        BY <2>1, <3>1, <3>2 DEF HeldAgrees
    <2>6. HeldAgrees(c)'
      <3>1. session'[c].id = {} /\ session'[c].data = session[c].data
        BY <1>0, <2>4 DEF Cycled
      <3> QED
        BY <1>0, <1>1, <3>1 DEF SessionsAgree, HandlersAgree, HeldAgrees
    <2> QED
      BY <2>2, <2>3, <2>5, <2>6 DEF SessionsAgree, HandlersAgree
  <1> QED
    BY <1>3, <1>4, <1>5, <1>6, <1>8, <1>9, <1>10

\* What a handler holds once it is at rest.
LEMMA HeldAtRest ==
    ASSUME NEW c \in Callers, session'[c] = Nobody, at'[c] = "idle"
    PROVE  HeldAgrees(c)'
  BY DEF HeldAgrees, Nobody, Serving

\* A try to sign in.
LEMMA SessionsTried ==
    ASSUME TypeOK, SessionsAgree, NEW c \in Callers,
           \/ \E pw \in Passwords : BeginsLogin(c, pw)
           \/ \E l \in minted : BeginsPairing(c, l)
           \/ FailsLogin(c) \/ FailsToRedeem(c)
           \/ \E cookie \in Option(taken) : Proves(c, cookie) \/ Redeems(c, cookie)
    PROVE  SessionsAgree'
  <1>0. /\ at \in [Callers -> Steps] /\ late \subseteq Callers
        /\ session \in [Callers -> Held] /\ taken \subseteq Ids
    BY DEF TypeOK, Held
  <1>1. CASE (\E pw \in Passwords : BeginsLogin(c, pw)) \/ \E l \in minted : BeginsPairing(c, l)
    <2>1. PICK to \in Trying : at[c] = "idle" /\ at' = [at EXCEPT ![c] = to]
      BY <1>1 DEF BeginsLogin, BeginsPairing, Moves, Trying
    <2>2. UNCHANGED <<storeVars, password, session, late, excused>>
      BY <1>1 DEF BeginsLogin, BeginsPairing, configVars
    <2> QED
      BY <2>1, <2>2, SessionsStay DEF Serving, Trying, Steps
  <1>2. CASE FailsLogin(c) \/ FailsToRedeem(c)
    <2>1. /\ Rests(c) /\ UNCHANGED <<storeVars, password, excused>>
          /\ at[c] \in Trying
      BY <1>2 DEF FailsLogin, FailsToRedeem, configVars, Trying
    <2>2. StoreAgrees' /\ ProofsAgree'
      BY <1>0, <2>1 DEF Rests, SessionsAgree, StoreAgrees, ProofsAgree, storeVars, Trying
    <2>3. HeldAgrees(c)'
      BY <1>0, <2>1, HeldAtRest DEF Rests
    <2>4. ASSUME NEW o \in Callers, o # c PROVE HeldAgrees(o)'
      BY <1>0, <2>1, <2>4 DEF Rests, SessionsAgree, HandlersAgree, HeldAgrees, storeVars
    <2> QED
      BY <2>2, <2>3, <2>4 DEF SessionsAgree, HandlersAgree
  <1>3. ASSUME NEW cookie \in Option(taken), NEW scope, SignsIn(c, scope, cookie),
               at[c] \in Trying, late \union Holding(cookie) \subseteq late',
               UNCHANGED <<taken, proof, password, excused>>
        PROVE  SessionsAgree'
    <2>1. /\ Ends(cookie) /\ at' = [at EXCEPT ![c] = "answering"]
          /\ session' = [session EXCEPT ![c] = SignedIn(scope, cookie)]
      BY <1>3 DEF SignsIn
    <2>2. StoreAgrees'
      BY <1>3, <2>1, SessionsEnd
    <2>3. ProofsAgree'
      <3>1. CASE \A o \in Callers : at[o] # "stored"
        BY <1>3, <2>1, <3>1, SessionsEnd
      <3>2. CASE \E o \in Callers : at[o] = "stored"
        BY <1>0, <1>3, <2>1, <3>2 DEF ProofsAgree, Trying
      <3> QED
        BY <3>1, <3>2
    <2>4. HeldAgrees(c)'
      <3>1. session'[c].id = {} /\ session'[c].data # {}
        BY <1>0, <2>1 DEF SignedIn, Cycled
      <3>2. at'[c] \in Serving
        BY <1>0, <2>1 DEF Serving, Trying, Steps
      <3> QED
        BY <3>1, <3>2 DEF HeldAgrees
    <2>5. ASSUME NEW o \in Callers, o # c PROVE HeldAgrees(o)'
      <3>1. session'[o] = session[o] /\ at'[o] = at[o]
        BY <1>0, <2>1, <2>5
      <3> QED
        BY <1>3, <2>1, <3>1, SessionsEnd
    <2> QED
      BY <2>2, <2>3, <2>4, <2>5 DEF SessionsAgree, HandlersAgree
  <1>4. ASSUME NEW cookie \in Option(taken), Proves(c, cookie) \/ Redeems(c, cookie)
        PROVE  SessionsAgree'
    <2>1. /\ \E scope : SignsIn(c, scope, cookie)
          /\ late \union Holding(cookie) \subseteq late' /\ at[c] \in Trying
          /\ UNCHANGED <<taken, proof, password, excused>>
      BY <1>4 DEF Proves, Redeems, configVars, Trying
    <2> QED
      BY <1>3, <2>1
  <1> QED
    BY <1>1, <1>2, <1>4

\* A request let in, answered or given up, and whatever comes by itself.
LEMMA SessionsOther ==
    ASSUME TypeOK, SessionsAgree,
           \/ \E c \in Callers :
                \/ \E i \in taken, w \in {v \in Wishes : v.kind \in play} : Admits(c, i, w)
                \/ Answers(c) \/ GivesUp(c)
           \/ \E i \in taken : Flushes(i)
           \/ MintsAtConsole \/ DayPasses \/ LockoutEnds \/ LinkLapses \/ Restart
    PROVE  SessionsAgree'
  <1>0. /\ at \in [Callers -> Steps] /\ late \subseteq Callers /\ ended \subseteq taken
        /\ session \in [Callers -> Held] /\ taken \subseteq Ids /\ store \in [Ids -> Option(Record)]
        /\ proof \in [Ids -> Option(Passwords)]
    BY DEF TypeOK, Held, SessionsAgree, StoreAgrees
  <1>1. ASSUME NEW c \in Callers, NEW i \in taken, NEW w, Admits(c, i, w)
        PROVE  SessionsAgree'
    <2>1. /\ store[i] # {} /\ at[c] = "idle" /\ at' = [at EXCEPT ![c] = "handling"]
          /\ UNCHANGED <<storeVars, password, late, excused>>
      BY <1>1 DEF Admits, configVars
    <2>2. \E s : /\ session' = [session EXCEPT ![c] = s] /\ s.id = {i} /\ s.data # {}
      <3>1. PICK stale, kept : session' = [session EXCEPT ![c] =
                                        [id |-> {i}, changed |-> stale, data |-> {kept}]]
        BY <1>1 DEF Admits
      <3>2. [id |-> {i}, changed |-> stale, data |-> {kept}].id = {i}
        OBVIOUS
      <3>3. [id |-> {i}, changed |-> stale, data |-> {kept}].data # {}
        OBVIOUS
      <3> QED
        BY <3>1, <3>2, <3>3
    <2>3. StoreAgrees' /\ ProofsAgree'
      BY <1>0, <2>1 DEF SessionsAgree, StoreAgrees, ProofsAgree, storeVars
    <2>4. HeldAgrees(c)'
      <3>1. i \in ended => i \in excused
        BY <1>0, <2>1 DEF SessionsAgree, StoreAgrees
      <3> QED
        BY <1>0, <2>1, <2>2, <3>1 DEF HeldAgrees, storeVars, Serving, Trying, Steps
    <2>5. ASSUME NEW o \in Callers, o # c PROVE HeldAgrees(o)'
      BY <1>0, <2>1, <2>2, <2>5 DEF SessionsAgree, HandlersAgree, HeldAgrees, storeVars
    <2> QED
      BY <2>3, <2>4, <2>5 DEF SessionsAgree, HandlersAgree
  <1>2. ASSUME NEW c \in Callers, Answers(c)
        PROVE  SessionsAgree'
    <2>1. at[c] = "answering" /\ Rests(c) /\ UNCHANGED password
      BY <1>2 DEF Answers, configVars
    <2>2. HeldAgrees(c)'
      BY <1>0, <2>1, HeldAtRest DEF Rests
    <2>3. \A o \in Callers : o # c => session'[o] = session[o] /\ at'[o] = at[o]
                                      /\ (o \in late' <=> o \in late)
      BY <1>0, <2>1 DEF Rests
    <2>4. CASE UNCHANGED <<storeVars, excused>>
      <3>1. StoreAgrees' /\ ProofsAgree'
        BY <1>0, <2>1, <2>3, <2>4 DEF SessionsAgree, StoreAgrees, ProofsAgree, storeVars
      <3>2. ASSUME NEW o \in Callers, o # c PROVE HeldAgrees(o)'
        BY <2>3, <2>4, <3>2 DEF SessionsAgree, HandlersAgree, HeldAgrees, storeVars
      <3> QED
        BY <2>2, <3>1, <3>2 DEF SessionsAgree, HandlersAgree
    <2>5. ASSUME NEW i \in IF session[c].id = {} THEN Ids \ taken ELSE session[c].id,
                 store' = [store EXCEPT ![i] = session[c].data], file' = store',
                 taken' = taken \union {i},
                 proof' = IF i \in taken THEN proof ELSE [proof EXCEPT ![i] = {password}],
                 excused' = excused \union IF c \in late THEN {i} ELSE {},
                 UNCHANGED ended
          PROVE  SessionsAgree'
      <3>1. HeldAgrees(c)
        BY DEF SessionsAgree, HandlersAgree
      <3>2. session[c].data # {} /\ i \in Ids
        BY <1>0, <2>1, <2>5, <3>1 DEF HeldAgrees, Serving, Trying, Steps
      <3>3. i \in ended => i \in excused'
        BY <1>0, <2>5, <3>1 DEF HeldAgrees
      <3>4. StoreAgrees'
        BY <1>0, <2>5, <3>2, <3>3 DEF SessionsAgree, StoreAgrees
      <3>5. ProofsAgree'
        BY <1>0, <2>1, <2>3, <2>5, <3>2 DEF SessionsAgree, ProofsAgree
      <3>6. ASSUME NEW o \in Callers, o # c PROVE HeldAgrees(o)'
        BY <2>3, <2>5, <3>6 DEF SessionsAgree, HandlersAgree, HeldAgrees
      <3> QED
        BY <2>2, <3>4, <3>5, <3>6 DEF SessionsAgree, HandlersAgree
    <2> QED
      BY <1>2, <2>4, <2>5 DEF Answers
  <1>3. ASSUME NEW c \in Callers, GivesUp(c)
        PROVE  SessionsAgree'
    <2>1. /\ at' = [at EXCEPT ![c] = "idle"] /\ session' = [session EXCEPT ![c] = Nobody]
          /\ late' = (IF LeftBy(c) = {} THEN late ELSE {o \in Callers : at[o] # "idle"}) \ {c}
          /\ excused' = excused \union LeftBy(c) /\ UNCHANGED <<storeVars, password>>
      BY <1>3 DEF GivesUp, configVars
    <2>2. HeldAgrees(c)'
      BY <1>0, <2>1, HeldAtRest
    <2>3. ASSUME NEW o \in Callers, o # c PROVE HeldAgrees(o)'
      <3>1. session'[o] = session[o] /\ at'[o] = at[o] /\ HeldAgrees(o)
        BY <1>0, <2>1, <2>3 DEF SessionsAgree, HandlersAgree
      <3>2. o \notin late' => o \notin late \/ at[o] = "idle"
        BY <2>1, <2>3
      <3> QED
        BY <2>1, <3>1, <3>2 DEF HeldAgrees, storeVars, Serving
    <2>4. StoreAgrees'
      BY <2>1 DEF SessionsAgree, StoreAgrees, storeVars
    <2>5. ProofsAgree'
      <3>1. CASE at[c] = "stored"
        <4>1. {i \in Ids : store[i] # {}} \subseteq excused'
          BY <2>1, <3>1 DEF LeftBy
        <4> QED
          BY <1>0, <2>1, <4>1 DEF SessionsAgree, StoreAgrees, ProofsAgree, storeVars
      <3>2. CASE at[c] # "stored"
        BY <1>0, <2>1, <3>2 DEF SessionsAgree, ProofsAgree, storeVars
      <3> QED
        BY <3>1, <3>2
    <2> QED
      BY <2>2, <2>3, <2>4, <2>5 DEF SessionsAgree, HandlersAgree
  <1>4. ASSUME NEW i \in taken, Flushes(i)
        PROVE  SessionsAgree'
    <2>1. /\ Ends({i}) /\ late' = late \union Holding({i})
          /\ UNCHANGED <<taken, proof, password, excused, at, session>>
      BY <1>4 DEF Flushes, configVars
    <2>2. StoreAgrees' /\ HandlersAgree'
      BY <2>1, SessionsEnd DEF HandlersAgree
    <2>3. ProofsAgree'
      BY <1>0, <2>1 DEF Ends, SessionsAgree, ProofsAgree
    <2> QED
      BY <2>2, <2>3 DEF SessionsAgree
  <1>5. CASE MintsAtConsole \/ DayPasses \/ LockoutEnds \/ LinkLapses
    <2>1. UNCHANGED <<storeVars, password, session, late, at, excused>>
      BY <1>5 DEF MintsAtConsole, DayPasses, LockoutEnds, LinkLapses, handlerVars, configVars
    <2>2. HandlersAgree'
      BY <2>1 DEF SessionsAgree, HandlersAgree, HeldAgrees, storeVars
    <2> QED
      BY <2>1, <2>2 DEF SessionsAgree, StoreAgrees, ProofsAgree, storeVars
  <1>6. CASE Restart
    <2>1. /\ store' = file /\ at' = [o \in Callers |-> "idle"] /\ session' = [o \in Callers |-> Nobody]
          /\ excused' = excused \union UNION {LeftBy(o) : o \in Callers}
          /\ UNCHANGED <<file, taken, proof, ended, password>>
      BY <1>6 DEF Restart, configVars
    <2>2. HandlersAgree'
      BY <2>1, HeldAtRest DEF HandlersAgree
    <2>3. StoreAgrees'
      BY <2>1 DEF SessionsAgree, StoreAgrees
    <2>4. ProofsAgree'
      <3>1. ASSUME NEW c \in Callers, at[c] = "stored" PROVE ProofsAgree'
        <4>1. {i \in Ids : store[i] # {}} \subseteq excused'
          BY <2>1, <3>1 DEF LeftBy
        <4> QED
          BY <1>0, <2>1, <4>1 DEF SessionsAgree, StoreAgrees, ProofsAgree
      <3>2. CASE \A c \in Callers : at[c] # "stored"
        BY <2>1, <3>2 DEF SessionsAgree, ProofsAgree
      <3> QED
        BY <3>1, <3>2
    <2> QED
      BY <2>2, <2>3, <2>4 DEF SessionsAgree
  <1> QED
    BY <1>1, <1>2, <1>3, <1>4, <1>5, <1>6

LEMMA SessionsStep == ASSUME TypeOK, SessionsAgree, Next PROVE SessionsAgree'
  BY SessionsAsked, SessionsTried, SessionsOther DEF Next, Handles

\* What has ended is not there, and what is there was given for the password there is.
LEMMA SessionsFollow == ASSUME TypeOK, SessionsAgree PROVE SignedOutStaysOut
  BY DEF TypeOK, SessionsAgree, StoreAgrees, ProofsAgree, SignedOutStaysOut

\* The password is changed from the dashboard.
ScopesAgree ==
    \A c \in Callers :
        at[c] \in {"rehashing", "stored"} \/ (at[c] = "handling" /\ Wish(c, "password") # {}) =>
            \A data \in session[c].data : data.scope = "dashboard"

LEMMA InitScopes == Init => ScopesAgree
  BY DEF Init, ScopesAgree

\* A request let in may do what its session's scope allows.
LEMMA AdmittedScope ==
    ASSUME NEW c, NEW i, NEW w, Admits(c, i, w)
    PROVE  \E data, stale, kept :
               /\ data \in store[i] /\ MayReach(data.scope, w) /\ kept.scope = data.scope
               /\ session' = [session EXCEPT ![c] = [id |-> {i}, changed |-> stale, data |-> {kept}]]
  <1>1. PICK data \in store[i] :
          LET stale == \A d \in data.seen : today - d >= RefreshDays
          IN  /\ MayReach(data.scope, w)
              /\ session' = [session EXCEPT ![c] =
                    [id |-> {i}, changed |-> stale,
                     data |-> {IF stale THEN [data EXCEPT !.seen = {today}] ELSE data}]]
    BY DEF Admits
  <1>2. [data EXCEPT !.seen = {today}].scope = data.scope
    OBVIOUS
  <1> QED
    BY <1>1, <1>2

LEMMA ScopesStep == ASSUME TypeOK, SessionsAgree, ScopesAgree, Next PROVE ScopesAgree'
  <1> USE DEF ScopesAgree, Wish
  <1>0. /\ at \in [Callers -> Steps] /\ wish \in [Callers -> Asked] /\ session \in [Callers -> Held]
    BY DEF TypeOK, Asked, Held
  <1>1. ASSUME NEW c \in Callers, NEW to \in Steps \ {"handling", "rehashing", "stored"},
               at' = [at EXCEPT ![c] = to],
               \A o \in Callers \ {c} : session'[o] = session[o] /\ wish'[o] = wish[o]
        PROVE  ScopesAgree'
    BY <1>0, <1>1
  <1>2. ASSUME NEW c \in Callers, UNCHANGED session,
               at[c] \in {"rehashing", "stored"} \/ (at[c] = "handling" /\ Wish(c, "password") # {}),
               NEW to \in Steps, at' = [at EXCEPT ![c] = to],
               \A o \in Callers \ {c} : wish'[o] = wish[o]
        PROVE  ScopesAgree'
    BY <1>0, <1>2
  <1>3. ASSUME NEW c \in Callers, NEW i, NEW w, Admits(c, i, w) PROVE ScopesAgree'
    <2>1. PICK data, stale, kept :
             /\ data \in store[i] /\ MayReach(data.scope, w) /\ kept.scope = data.scope
             /\ session' = [session EXCEPT ![c] = [id |-> {i}, changed |-> stale, data |-> {kept}]]
      BY <1>3, AdmittedScope
    <2>2. session'[c].data = {kept}
      BY <1>0, <2>1
    <2>3. w.kind = "password" => data.scope = "dashboard"
      BY <2>1 DEF MayReach
    <2>4. /\ at' = [at EXCEPT ![c] = "handling"] /\ wish' = [wish EXCEPT ![c] = {w}]
      BY <1>3 DEF Admits
    <2> QED
      BY <1>0, <2>1, <2>2, <2>3, <2>4
  <1>4. ASSUME NEW c \in Callers, Handles(c) PROVE ScopesAgree'
    <2>1. CASE FailsLogin(c) \/ FailsToRedeem(c) \/ Answers(c)
      BY <1>0, <1>1, <2>1 DEF FailsLogin, FailsToRedeem, Answers, Rests, Steps
    <2>2. CASE \E cookie : Proves(c, cookie) \/ Redeems(c, cookie)
      BY <1>0, <1>1, <2>2 DEF Proves, Redeems, SignsIn, Steps
    <2>3. CASE Reads(c) \/ Revokes(c) \/ Configures(c) \/ Removes(c)
      BY <1>0, <1>1, <2>3 DEF Reads, Revokes, Configures, Removes, Moves, Steps
    <2>4. CASE Unpairs(c) \/ Forgets(c) \/ Deposits(c) \/ MintsForSource(c)
      BY <1>0, <1>1, <2>4 DEF Unpairs, Forgets, Deposits, MintsForSource, Moves, Steps
    <2>5. CASE Begins(c)
      BY <1>0, <1>1, <2>5 DEF Begins, Moves, Steps
    <2>6. CASE ReadsHash(c) \/ StoresHash(c)
      <3>1. \E to \in Steps : at' = [at EXCEPT ![c] = to]
        BY <2>6 DEF ReadsHash, StoresHash, Moves, Steps
      <3>2. \A o \in Callers \ {c} : wish'[o] = wish[o]
        BY <1>0, <2>6 DEF ReadsHash, StoresHash, Moves
      <3>3. UNCHANGED session /\ (at[c] = "rehashing" \/ (at[c] = "handling" /\ Wish(c, "password") # {}))
        BY <2>6 DEF ReadsHash, StoresHash, Moves
      <3> QED
        BY <1>2, <3>1, <3>2, <3>3
    <2>7. CASE SignsAllOut(c)
      BY <1>0, <1>1, <2>7 DEF SignsAllOut, Moves, Steps
    <2> QED
      BY <1>4, <2>1, <2>2, <2>3, <2>4, <2>5, <2>6, <2>7 DEF Handles
  <1>5. ASSUME NEW c \in Callers, (\E pw \in Passwords : BeginsLogin(c, pw))
                                  \/ (\E l \in minted : BeginsPairing(c, l)) \/ GivesUp(c)
        PROVE  ScopesAgree'
    BY <1>0, <1>1, <1>5 DEF BeginsLogin, BeginsPairing, GivesUp, Moves, Steps
  <1>6. CASE (\E i \in taken : Flushes(i)) \/ MintsAtConsole \/ DayPasses \/ LockoutEnds \/ LinkLapses
    BY <1>6 DEF Flushes, MintsAtConsole, DayPasses, LockoutEnds, LinkLapses, handlerVars
  <1>7. CASE Restart
    BY <1>7 DEF Restart
  <1> QED
    BY <1>3, <1>4, <1>5, <1>6, <1>7 DEF Next

\* Who is at that step of taking s away.
Removing(s, steps) ==
    \E c \in Callers : at[c] \in steps /\ \E w \in Wish(c, "uninstall") : w.source = s

\* Neither in the store nor in the hands of a handler is there a session for s, nor a secret about
\* to be deposited, but what is excused or will be.
HoldsNoSession(s) ==
    /\ Paired(s) \subseteq excused
    /\ \A c \in Callers \ late :
         (\E data \in session[c].data : data.scope = s) =>
             session[c].id # {} /\ session[c].id \subseteq excused
    /\ \A c \in Callers \ late :
         at[c] = "depositing" /\ (\E w \in Wish(c, "deposit") : w.source = s) => s \in excused

RemovalAgrees ==
    \A s \in Sources :
        providers[s] = "none" =>
            /\ ~Removing(s, {"removed"}) => HoldsNoSession(s)
            /\ ~Removing(s, {"removed", "signed_out"}) => (s \in secrets => s \in excused)

LEMMA InitRemoval == Init => RemovalAgrees
  BY DEF Init, RemovalAgrees, HoldsNoSession, Paired, Nobody

\* A step of a handler that uninstalls nothing, puts no secret down, and makes no session for what is
\* not installed unless it is late.
LEMMA RemovalStays ==
    ASSUME TypeOK, RemovalAgrees, secrets' = secrets, excused \subseteq excused',
           \A s \in Sources : providers'[s] = "none" => providers[s] = "none",
           \A s \in Sources : providers[s] = "none" /\ ~Removing(s, {"removed"}) =>
               Paired(s)' \subseteq Paired(s) \union excused',
           NEW c \in Callers,
           \A o \in Callers \ {c} : /\ at'[o] = at[o] /\ wish'[o] = wish[o]
                                    /\ session'[o] = session[o] /\ (o \in late => o \in late'),
           at[c] \notin {"removed", "signed_out"},
           at'[c] = "depositing" => \A w \in Wish(c, "deposit")' : providers[w.source] # "none",
           \/ session'[c] = session[c] /\ (c \in late => c \in late')
           \/ \A s \in Sources : providers[s] = "none" /\ c \notin late' =>
                  \A data \in session'[c].data : data.scope # s
    PROVE  RemovalAgrees'
  <1> SUFFICES ASSUME NEW s \in Sources, providers'[s] = "none"
               PROVE  /\ ~Removing(s, {"removed"})' => HoldsNoSession(s)'
                      /\ ~Removing(s, {"removed", "signed_out"})' => (s \in secrets' => s \in excused')
    BY DEF RemovalAgrees
  <1>1. providers[s] = "none"
    OBVIOUS
  <1>2. \A steps \in {{"removed"}, {"removed", "signed_out"}} : Removing(s, steps) => Removing(s, steps)'
    BY DEF Removing, Wish
  <1>3. ~Removing(s, {"removed", "signed_out"})' => (s \in secrets' => s \in excused')
    BY <1>1, <1>2 DEF RemovalAgrees
  <1>4. ASSUME HoldsNoSession(s), ~Removing(s, {"removed"}) PROVE HoldsNoSession(s)'
    <2>1. Paired(s)' \subseteq excused'
      BY <1>1, <1>4 DEF HoldsNoSession
    <2>2. ASSUME NEW o \in Callers \ late', \E data \in session'[o].data : data.scope = s
          PROVE  session'[o].id # {} /\ session'[o].id \subseteq excused'
      BY <1>1, <1>4, <2>2 DEF HoldsNoSession
    <2>3. ASSUME NEW o \in Callers \ late', at'[o] = "depositing",
                 \E w \in Wish(o, "deposit")' : w.source = s
          PROVE  s \in excused'
      BY <1>1, <1>4, <2>3 DEF HoldsNoSession, Wish
    <2> QED
      BY <2>1, <2>2, <2>3 DEF HoldsNoSession
  <1> QED
    BY <1>1, <1>2, <1>3, <1>4 DEF RemovalAgrees

\* Ending sessions brings none back.
LEMMA PairedShrinks == ASSUME NEW gone, Ends(gone), NEW s PROVE Paired(s)' \subseteq Paired(s)
  BY DEF Ends, Paired

\* One wish at a time.
LEMMA OneWish ==
    ASSUME TypeOK, NEW c \in Callers, NEW v \in wish[c], NEW w \in wish[c]
    PROVE  v = w
  <1>1. wish[c] \in Asked
    BY DEF TypeOK, Asked
  <1>2. wish[c] = {} \/ \E x \in Wishes \union [kind : {"pair"}, link : Links] : wish[c] = {x}
    BY <1>1 DEF Asked, Option
  <1> QED
    BY <1>2

\* What of the handling of a request has nothing to do with uninstalling.
LEMMA RemovalHandled ==
    ASSUME TypeOK, SessionsAgree, ScopesAgree, RemovalAgrees, NEW c \in Callers,
           \/ FailsLogin(c) \/ FailsToRedeem(c)
           \/ \E cookie \in Option(taken) : Proves(c, cookie) \/ Redeems(c, cookie)
           \/ Reads(c) \/ Revokes(c) \/ Configures(c)
           \/ ReadsHash(c) \/ StoresHash(c) \/ SignsAllOut(c)
           \/ Begins(c) \/ MintsForSource(c) \/ Answers(c)
    PROVE  RemovalAgrees'
  <1>0. /\ at \in [Callers -> Steps] /\ wish \in [Callers -> Asked] /\ session \in [Callers -> Held]
        /\ late \subseteq Callers /\ providers \in [Sources -> {"none", "on", "off"}]
        /\ store \in [Ids -> Option(Record)] /\ taken \subseteq Ids
    BY DEF TypeOK, Asked, Held
  <1>1. CASE FailsLogin(c) \/ FailsToRedeem(c)
    <2>1. Rests(c) /\ UNCHANGED <<configVars, storeVars, excused>> /\ at[c] \in Trying
      BY <1>1 DEF FailsLogin, FailsToRedeem, Trying
    <2>2. session'[c].data = {}
      BY <1>0, <2>1 DEF Rests, Nobody
    <2> QED
      BY <1>0, <2>1, <2>2, RemovalStays DEF Rests, configVars, storeVars, Paired, Trying
  <1>2. ASSUME NEW cookie \in Option(taken), NEW scope, SignsIn(c, scope, cookie), at[c] \in Trying,
               late \subseteq late', UNCHANGED <<configVars, excused>>,
               \A s \in Sources : providers[s] = "none" /\ c \notin late' => scope # s
        PROVE  RemovalAgrees'
    <2>1. /\ at' = [at EXCEPT ![c] = "answering"] /\ wish' = [wish EXCEPT ![c] = {}]
          /\ session' = [session EXCEPT ![c] = SignedIn(scope, cookie)] /\ Ends(cookie)
      BY <1>2 DEF SignsIn
    <2>2. \A data \in session'[c].data : data.scope = scope
      BY <1>0, <2>1 DEF SignedIn, Cycled
    <2>3. \A s \in Sources : Paired(s)' \subseteq Paired(s)
      BY <2>1, PairedShrinks
    <2> QED
      BY <1>0, <1>2, <2>1, <2>2, <2>3, RemovalStays DEF configVars, Trying
  <1>3. ASSUME NEW cookie \in Option(taken), Proves(c, cookie) PROVE RemovalAgrees'
    <2>1. \A s \in Sources : "dashboard" # s
      BY NamesAssumption
    <2> QED
      BY <1>2, <1>3, <2>1 DEF Proves, Trying
  <1>4. ASSUME NEW cookie \in Option(taken), Redeems(c, cookie) PROVE RemovalAgrees'
    <2>1. PICK p \in link :
             /\ SignsIn(c, p.scope, cookie)
             /\ late' = late \union Holding(cookie)
                             \union IF \E s \in Sources \intersect {p.scope} : providers[s] = "none"
                                    THEN {c} ELSE {}
      BY <1>4 DEF Redeems
    <2> QED
      BY <1>2, <1>4, <2>1 DEF Redeems, Trying
  <1>5. CASE Reads(c) \/ ReadsHash(c) \/ MintsForSource(c)
    <2>1. /\ at[c] \in {"handling", "minting"} /\ UNCHANGED <<configVars, storeVars, session, late, excused>>
          /\ \E to \in {"answering", "rehashing"} : at' = [at EXCEPT ![c] = to]
          /\ \A o \in Callers \ {c} : wish'[o] = wish[o]
      BY <1>0, <1>5 DEF Reads, ReadsHash, MintsForSource, Moves
    <2> QED
      BY <1>0, <2>1, RemovalStays DEF configVars, storeVars, Paired
  <1>6. CASE StoresHash(c)
    <2>1. /\ at[c] = "rehashing" /\ UNCHANGED <<providers, secrets, storeVars, session, late, excused, wish>>
          /\ at' = [at EXCEPT ![c] = "stored"]
      BY <1>6 DEF StoresHash, Moves
    <2> QED
      BY <1>0, <2>1, RemovalStays DEF storeVars, Paired
  <1>7. CASE Configures(c)
    <2>1. /\ at[c] = "handling" /\ UNCHANGED <<secrets, storeVars, session, late, excused>>
          /\ at' = [at EXCEPT ![c] = "answering"]
          /\ \A o \in Callers \ {c} : wish'[o] = wish[o]
      BY <1>0, <1>7 DEF Configures, Moves
    <2>2. \A s \in Sources : providers'[s] = "none" => providers[s] = "none"
      BY <1>0, <1>7 DEF Configures
    <2> QED
      BY <1>0, <2>1, <2>2, RemovalStays DEF storeVars, Paired
  <1>8. CASE Begins(c)
    <2>1. /\ at[c] = "handling" /\ UNCHANGED <<configVars, storeVars, session, late, excused>>
          /\ \E to : at' = [at EXCEPT ![c] = to]
          /\ \A o \in Callers \ {c} : wish'[o] = wish[o]
          /\ wish'[c] \subseteq wish[c]
      BY <1>0, <1>8 DEF Begins, Moves
    <2>2. at'[c] = "depositing" => \A w \in Wish(c, "deposit")' : providers[w.source] # "none"
      <3>1. PICK v \in Wish(c, "deposit") \union Wish(c, "mint") :
               at'[c] = CASE providers[v.source] = "none" -> "answering"
                          [] providers[v.source] # "none" /\ v.kind = "deposit" -> "depositing"
                          [] OTHER -> IF v.pw = password THEN "minting" ELSE "answering"
        BY <1>0, <1>8 DEF Begins, Moves
      <3>2. \A w \in Wish(c, "deposit")' : w = v
        BY <2>1, OneWish DEF Wish
      <3>3. at'[c] = "depositing" => providers[v.source] # "none"
        BY <3>1
      <3> QED
        BY <3>2, <3>3
    <2> QED
      BY <1>0, <2>1, <2>2, RemovalStays DEF configVars, storeVars, Paired
  <1>9. CASE Revokes(c)
    <2>1. PICK w \in Wish(c, "revoke") : Ends({w.id}) /\ late' = late \union Holding({w.id})
      BY <1>9 DEF Revokes
    <2>2. /\ at[c] = "handling" /\ UNCHANGED <<configVars, session, excused>>
          /\ at' = [at EXCEPT ![c] = "answering"]
          /\ \A o \in Callers \ {c} : wish'[o] = wish[o]
      BY <1>0, <1>9 DEF Revokes, Moves
    <2>3. \A s \in Sources : Paired(s)' \subseteq Paired(s)
      BY <2>1, PairedShrinks
    <2> QED
      BY <1>0, <2>1, <2>2, <2>3, RemovalStays DEF configVars
  <1>10. CASE SignsAllOut(c)
    <2>1. /\ Ends(Ids) /\ UNCHANGED <<configVars, excused>>
          /\ late' = (late \union {o \in Callers : at[o] # "idle"}) \ {c}
          /\ session' = [session EXCEPT ![c] = Cycled(session[c].data)]
          /\ at[c] = "stored" /\ at' = [at EXCEPT ![c] = "answering"]
          /\ \A o \in Callers \ {c} : wish'[o] = wish[o]
      BY <1>0, <1>10 DEF SignsAllOut, Moves
    <2>2. \A s \in Sources : Paired(s)' \subseteq Paired(s)
      BY <2>1, PairedShrinks
    <2>3. \A s \in Sources : \A data \in session'[c].data : data.scope # s
      <3>1. session'[c].data = session[c].data
        BY <1>0, <2>1 DEF Cycled
      <3> QED
        BY <2>1, <3>1, NamesAssumption DEF ScopesAgree
    <2> QED
      BY <1>0, <2>1, <2>2, <2>3, RemovalStays DEF configVars
  <1>11. CASE Answers(c)
    <2>1. /\ at[c] = "answering" /\ Rests(c) /\ UNCHANGED configVars
      BY <1>11 DEF Answers
    <2>2. session'[c].data = {}
      BY <1>0, <2>1 DEF Rests, Nobody
    <2>3. excused \subseteq excused'
      BY <1>11 DEF Answers
    <2>4. ASSUME NEW s \in Sources, providers[s] = "none", ~Removing(s, {"removed"})
          PROVE  Paired(s)' \subseteq Paired(s) \union excused'
      <3>1. HoldsNoSession(s)
        BY <2>4 DEF RemovalAgrees
      <3>2. CASE UNCHANGED storeVars
        BY <3>2 DEF storeVars, Paired
      <3>3. ASSUME NEW i \in IF session[c].id = {} THEN Ids \ taken ELSE session[c].id,
                   store' = [store EXCEPT ![i] = session[c].data],
                   excused' = excused \union IF c \in late THEN {i} ELSE {}
            PROVE  Paired(s)' \subseteq Paired(s) \union excused'
        <4>1. (\E data \in session[c].data : data.scope = s) => i \in excused'
          BY <3>1, <3>3 DEF HoldsNoSession
        <4>2. ASSUME NEW j \in Paired(s)' PROVE j \in Paired(s) \union excused'
          BY <1>0, <3>3, <4>1, <4>2 DEF Paired
        <4> QED
          BY <4>2
      <3> QED
        BY <1>11, <3>2, <3>3 DEF Answers
    <2> QED
      BY <1>0, <2>1, <2>2, <2>3, <2>4, RemovalStays DEF configVars, Rests
  <1> QED
    BY <1>1, <1>3, <1>4, <1>5, <1>6, <1>7, <1>8, <1>9, <1>10, <1>11

\* The steps of an uninstall, and the deposit of a secret.
LEMMA RemovalSteps ==
    ASSUME TypeOK, RemovalAgrees, NEW c \in Callers,
           Removes(c) \/ Unpairs(c) \/ Forgets(c) \/ Deposits(c)
    PROVE  RemovalAgrees'
  <1>0. /\ at \in [Callers -> Steps] /\ wish \in [Callers -> Asked] /\ late \subseteq Callers
        /\ providers \in [Sources -> {"none", "on", "off"}]
    BY DEF TypeOK, Asked
  <1>1. \A o \in Callers \ {c} : at'[o] = at[o] /\ wish'[o] = wish[o]
    BY <1>0 DEF Removes, Unpairs, Forgets, Deposits, Moves
  <1>2. UNCHANGED session
    BY DEF Removes, Unpairs, Forgets, Deposits
  <1> SUFFICES ASSUME NEW s \in Sources, providers'[s] = "none"
               PROVE  /\ ~Removing(s, {"removed"})' => HoldsNoSession(s)'
                      /\ ~Removing(s, {"removed", "signed_out"})' => (s \in secrets' => s \in excused')
    BY DEF RemovalAgrees
  <1>3. CASE Removes(c)
    <2>1. PICK w \in Wish(c, "uninstall") : providers' = [providers EXCEPT ![w.source] = "none"]
      BY <1>3 DEF Removes
    <2>2. /\ at[c] = "handling" /\ at' = [at EXCEPT ![c] = "removed"] /\ wish' = wish
          /\ UNCHANGED <<secrets, storeVars, late, excused>>
      BY <1>3 DEF Removes, Moves
    <2>3. CASE w.source = s
      BY <1>0, <2>1, <2>2, <2>3 DEF Removing, Wish
    <2>4. CASE w.source # s
      <3>1. providers[s] = "none"
        BY <1>0, <2>1, <2>4
      <3>2. \A steps \in {{"removed"}, {"removed", "signed_out"}} : Removing(s, steps) => Removing(s, steps)'
        BY <1>0, <2>2 DEF Removing, Wish
      <3>3. HoldsNoSession(s) => HoldsNoSession(s)'
        BY <1>0, <1>2, <2>2 DEF HoldsNoSession, Paired, Wish, storeVars
      <3> QED
        BY <2>2, <3>1, <3>2, <3>3 DEF RemovalAgrees
    <2> QED
      BY <2>3, <2>4
  <1>4. CASE Unpairs(c)
    <2>1. PICK w \in Wish(c, "uninstall") :
             /\ Ends(Paired(w.source))
             /\ late' = late \union Holding(Paired(w.source))
                    \union {o \in Callers : \E data \in session[o].data : data.scope = w.source}
                    \union {o \in Callers : [kind |-> "deposit", source |-> w.source] \in wish[o]}
      BY <1>4 DEF Unpairs
    <2>2. /\ at[c] = "removed" /\ at' = [at EXCEPT ![c] = "signed_out"] /\ wish' = wish
          /\ UNCHANGED <<providers, secrets, excused>>
      BY <1>4 DEF Unpairs, Moves, configVars
    <2>3. CASE w.source = s
      <3>1. Removing(s, {"removed", "signed_out"})'
        BY <1>0, <2>1, <2>2, <2>3 DEF Removing, Wish
      <3>2. Paired(s)' = {}
        BY <2>1, <2>3 DEF Ends, Paired
      <3>3. \A o \in Callers \ late' : \A data \in session'[o].data : data.scope # s
        BY <1>2, <2>1, <2>3
      <3>4. ASSUME NEW o \in Callers \ late', NEW v \in Wish(o, "deposit")' PROVE v.source # s
        <4>1. v \in wish[o] /\ v.kind = "deposit"
          BY <2>2 DEF Wish
        <4>2. wish[o] = {} \/ \E x \in Wishes \union [kind : {"pair"}, link : Links] : wish[o] = {x}
          BY <1>0 DEF Asked, Option
        <4>3. v \in Wishes \union [kind : {"pair"}, link : Links]
          BY <4>1, <4>2
        <4>4. v = [kind |-> "deposit", source |-> v.source]
          BY <4>1, <4>3 DEF Wishes
        <4> QED
          BY <2>1, <2>3, <4>1, <4>4
      <3> QED
        BY <3>1, <3>2, <3>3, <3>4 DEF HoldsNoSession
    <2>4. CASE w.source # s
      <3>1. \A v \in Wish(c, "uninstall") : v.source # s
        BY <2>1, <2>4, OneWish DEF Wish
      <3>2. \A steps \in {{"removed"}, {"removed", "signed_out"}} : Removing(s, steps) => Removing(s, steps)'
        BY <1>0, <2>2, <3>1 DEF Removing, Wish
      <3>3. HoldsNoSession(s) => HoldsNoSession(s)'
        <4>1. Paired(s)' \subseteq Paired(s)
          BY <2>1, PairedShrinks
        <4>2. late \subseteq late'
          BY <2>1
        <4> QED
          BY <1>0, <1>2, <2>2, <4>1, <4>2 DEF HoldsNoSession, Wish
      <3> QED
        BY <2>2, <3>2, <3>3 DEF RemovalAgrees
    <2> QED
      BY <2>3, <2>4
  <1>5. CASE Forgets(c)
    <2>1. PICK w \in Wish(c, "uninstall") : secrets' = secrets \ {w.source}
      BY <1>5 DEF Forgets
    <2>2. /\ at[c] = "signed_out" /\ at' = [at EXCEPT ![c] = "answering"]
          /\ UNCHANGED <<providers, storeVars, late, excused>>
      BY <1>5 DEF Forgets, Moves
    <2>3. Removing(s, {"removed"}) => Removing(s, {"removed"})'
      BY <1>0, <1>1, <2>2 DEF Removing, Wish
    <2>4. HoldsNoSession(s) => HoldsNoSession(s)'
      BY <1>0, <1>1, <1>2, <2>2 DEF HoldsNoSession, Paired, Wish, storeVars
    <2>5. ASSUME w.source # s, Removing(s, {"removed", "signed_out"})
          PROVE  Removing(s, {"removed", "signed_out"})'
      <3>1. \A v \in Wish(c, "uninstall") : v.source # s
        BY <2>1, <2>5, OneWish DEF Wish
      <3> QED
        BY <1>1, <2>5, <3>1 DEF Removing, Wish
    <2> QED
      BY <2>1, <2>2, <2>3, <2>4, <2>5 DEF RemovalAgrees
  <1>6. CASE Deposits(c)
    <2>1. PICK w \in Wish(c, "deposit") :
             /\ secrets' = secrets \union {w.source}
             /\ excused' = excused \union IF c \in late THEN {w.source} ELSE {}
      BY <1>6 DEF Deposits
    <2>2. /\ at[c] = "depositing" /\ at' = [at EXCEPT ![c] = "answering"]
          /\ UNCHANGED <<providers, storeVars, late>>
      BY <1>6 DEF Deposits, Moves
    <2>3. \A steps \in {{"removed"}, {"removed", "signed_out"}} : Removing(s, steps) => Removing(s, steps)'
      BY <1>0, <1>1, <2>2 DEF Removing, Wish
    <2>4. HoldsNoSession(s) => HoldsNoSession(s)'
      BY <1>0, <1>1, <1>2, <2>1, <2>2 DEF HoldsNoSession, Paired, Wish, storeVars
    <2>5. HoldsNoSession(s) /\ w.source = s => s \in excused'
      BY <2>1, <2>2 DEF HoldsNoSession
    <2>6. Removing(s, {"removed"}) => Removing(s, {"removed", "signed_out"})
      BY DEF Removing
    <2> QED
      BY <2>1, <2>2, <2>3, <2>4, <2>5, <2>6 DEF RemovalAgrees
  <1> QED
    BY <1>3, <1>4, <1>5, <1>6

\* A request let in or given up, and whatever comes by itself.
LEMMA RemovalOther ==
    ASSUME TypeOK, SessionsAgree, RemovalAgrees,
           \/ \E c \in Callers :
                \/ \E pw \in Passwords : BeginsLogin(c, pw)
                \/ \E l \in minted : BeginsPairing(c, l)
                \/ \E i \in taken, w \in {v \in Wishes : v.kind \in play} : Admits(c, i, w)
                \/ GivesUp(c)
           \/ \E i \in taken : Flushes(i)
           \/ MintsAtConsole \/ DayPasses \/ LockoutEnds \/ LinkLapses \/ Restart
    PROVE  RemovalAgrees'
  <1>0. /\ at \in [Callers -> Steps] /\ wish \in [Callers -> Asked] /\ session \in [Callers -> Held]
        /\ late \subseteq Callers /\ providers \in [Sources -> {"none", "on", "off"}]
        /\ store \in [Ids -> Option(Record)] /\ taken \subseteq Ids
    BY DEF TypeOK, Asked, Held
  <1>1. ASSUME NEW c \in Callers,
               (\E pw \in Passwords : BeginsLogin(c, pw)) \/ \E l \in minted : BeginsPairing(c, l)
        PROVE  RemovalAgrees'
    <2>1. /\ at[c] = "idle" /\ \E to \in Trying : at' = [at EXCEPT ![c] = to]
          /\ UNCHANGED <<configVars, storeVars, session, late, excused>>
          /\ \A o \in Callers \ {c} : wish'[o] = wish[o]
      BY <1>0, <1>1 DEF BeginsLogin, BeginsPairing, Moves, Trying
    <2> QED
      BY <1>0, <2>1, RemovalStays DEF configVars, storeVars, Paired, Trying
  <1>2. ASSUME NEW c \in Callers, NEW i, NEW w, Admits(c, i, w)
        PROVE  RemovalAgrees'
    <2>1. PICK data, stale, kept :
             /\ data \in store[i] /\ MayReach(data.scope, w) /\ kept.scope = data.scope
             /\ session' = [session EXCEPT ![c] = [id |-> {i}, changed |-> stale, data |-> {kept}]]
      BY <1>2, AdmittedScope
    <2>2. session'[c].data = {kept}
      BY <1>0, <2>1
    <2>3. \A s \in Sources : providers[s] = "none" => \A d \in session'[c].data : d.scope # s
      BY <2>1, <2>2, NamesAssumption DEF MayReach
    <2>4. /\ at[c] = "idle" /\ at' = [at EXCEPT ![c] = "handling"] /\ wish' = [wish EXCEPT ![c] = {w}]
          /\ UNCHANGED <<configVars, storeVars, late, excused>>
      BY <1>2 DEF Admits
    <2> QED
      BY <1>0, <2>1, <2>3, <2>4, RemovalStays DEF configVars, storeVars, Paired
  <1>3. ASSUME NEW c \in Callers, GivesUp(c)
        PROVE  RemovalAgrees'
    <2>1. /\ at' = [at EXCEPT ![c] = "idle"] /\ wish' = [wish EXCEPT ![c] = {}]
          /\ session' = [session EXCEPT ![c] = Nobody]
          /\ late' = (IF LeftBy(c) = {} THEN late ELSE {o \in Callers : at[o] # "idle"}) \ {c}
          /\ excused' = excused \union LeftBy(c) /\ UNCHANGED <<configVars, storeVars>>
      BY <1>3 DEF GivesUp
    <2> SUFFICES ASSUME NEW s \in Sources, providers[s] = "none"
                 PROVE  /\ ~Removing(s, {"removed"})' => HoldsNoSession(s)'
                        /\ ~Removing(s, {"removed", "signed_out"})' => (s \in secrets => s \in excused')
      BY <2>1 DEF RemovalAgrees, configVars
    <2>2. ASSUME NEW o \in Callers \ late'
          PROVE  \/ at'[o] = "idle" /\ session'[o].data = {}
                 \/ /\ o \notin late /\ at'[o] = at[o] /\ session'[o] = session[o] /\ wish'[o] = wish[o]
                    /\ o # c
      BY <1>0, <2>1 DEF Nobody, SessionsAgree, HandlersAgree, HeldAgrees, Serving
    <2>3. ASSUME HoldsNoSession(s) \/ Paired(s) \union {s} \subseteq LeftBy(c)
          PROVE  HoldsNoSession(s)'
      <3>1. Paired(s)' \subseteq excused'
        BY <2>1, <2>3 DEF HoldsNoSession, Paired, storeVars
      <3>2. CASE HoldsNoSession(s)
        BY <2>1, <2>2, <3>1, <3>2 DEF HoldsNoSession, Wish
      <3>3. CASE Paired(s) \union {s} \subseteq LeftBy(c)
        <4>1. \A o \in Callers \ late' : at'[o] = "idle" /\ session'[o].data = {}
          BY <1>0, <2>1, <3>3 DEF Nobody, SessionsAgree, HandlersAgree, HeldAgrees, Serving
        <4> QED
          BY <3>1, <4>1 DEF HoldsNoSession
      <3> QED
        BY <2>3, <3>2, <3>3
    <2>4. ASSUME NEW steps \in SUBSET {"removed", "signed_out"}, Removing(s, steps)
          PROVE  Removing(s, steps)' \/ Paired(s) \union {s} \subseteq LeftBy(c)
      <3>1. PICK o \in Callers : at[o] \in steps /\ \E w \in Wish(o, "uninstall") : w.source = s
        BY <2>4 DEF Removing
      <3>2. CASE o # c
        BY <1>0, <2>1, <3>1, <3>2 DEF Removing, Wish
      <3>3. CASE o = c
        <4>1. PICK w \in Wish(c, "uninstall") : w.source = s
          BY <3>1, <3>3
        <4>2. at[c] \in {"removed", "signed_out"}
          BY <3>1, <3>3
        <4>3. {w.source} \union Paired(w.source) \subseteq LeftBy(c)
          BY <4>2 DEF LeftBy
        <4> QED
          BY <4>1, <4>3
      <3> QED
        BY <3>2, <3>3
    <2>5. ~Removing(s, {"removed"})' => HoldsNoSession(s) \/ Paired(s) \union {s} \subseteq LeftBy(c)
      BY <2>4 DEF RemovalAgrees
    <2>6. ~Removing(s, {"removed", "signed_out"})' =>
              (s \in secrets => s \in excused) \/ Paired(s) \union {s} \subseteq LeftBy(c)
      BY <2>4 DEF RemovalAgrees
    <2> QED
      BY <2>1, <2>3, <2>5, <2>6
  <1>4. CASE Restart
    <2>1. /\ store' = store /\ at' = [o \in Callers |-> "idle"] /\ session' = [o \in Callers |-> Nobody]
          /\ excused' = excused \union UNION {LeftBy(o) : o \in Callers}
          /\ UNCHANGED configVars
      BY <1>4 DEF Restart, SessionsAgree, StoreAgrees
    <2> SUFFICES ASSUME NEW s \in Sources, providers[s] = "none"
                 PROVE  HoldsNoSession(s)' /\ (s \in secrets => s \in excused')
      BY <2>1 DEF RemovalAgrees, configVars
    <2>2. ASSUME Removing(s, {"removed", "signed_out"})
          PROVE  Paired(s) \union {s} \subseteq excused'
      BY <2>1, <2>2 DEF Removing, LeftBy
    <2>3. Removing(s, {"removed"}) => Removing(s, {"removed", "signed_out"})
      BY DEF Removing
    <2>4. Paired(s) \subseteq excused' /\ (s \in secrets => s \in excused')
      BY <2>1, <2>2, <2>3 DEF RemovalAgrees, HoldsNoSession
    <2> QED
      BY <2>1, <2>4 DEF HoldsNoSession, Paired, Nobody
  <1>5. ASSUME NEW i \in taken, Flushes(i)
        PROVE  RemovalAgrees'
    <2>1. /\ Ends({i}) /\ late' = late \union Holding({i})
          /\ UNCHANGED <<configVars, at, wish, session, excused>>
      BY <1>5 DEF Flushes
    <2>2. \A s \in Sources : Paired(s)' \subseteq Paired(s)
      BY <2>1, PairedShrinks
    <2>3. \A s \in Sources : HoldsNoSession(s) => HoldsNoSession(s)'
      BY <2>1, <2>2 DEF HoldsNoSession, Wish
    <2>4. \A s, steps : Removing(s, steps)' <=> Removing(s, steps)
      BY <2>1 DEF Removing, Wish
    <2> QED
      BY <2>1, <2>3, <2>4 DEF RemovalAgrees, configVars
  <1>6. CASE MintsAtConsole \/ DayPasses \/ LockoutEnds \/ LinkLapses
    <2>1. UNCHANGED <<configVars, storeVars, handlerVars, excused>>
      BY <1>6 DEF MintsAtConsole, DayPasses, LockoutEnds, LinkLapses
    <2> QED
      BY <2>1 DEF RemovalAgrees, HoldsNoSession, Removing, Paired, Wish, configVars, storeVars, handlerVars
  <1> QED
    BY <1>1, <1>2, <1>3, <1>4, <1>5, <1>6

LEMMA RemovalStep ==
    ASSUME TypeOK, SessionsAgree, ScopesAgree, RemovalAgrees, Next PROVE RemovalAgrees'
  BY RemovalHandled, RemovalSteps, RemovalOther DEF Next, Handles

\* What is not installed holds nothing, then, once nobody is at it.
LEMMA RemovalFollows == ASSUME RemovalAgrees PROVE UninstalledHoldsNothing
  BY DEF RemovalAgrees, HoldsNoSession, Removing, UninstalledHoldsNothing

-----------------------------------------------------------------------------
(* The theorems. *)

IInv ==
    /\ TypeOK /\ TriesAgree /\ LinksAgree
    /\ SessionsAgree /\ ScopesAgree /\ RemovalAgrees

LEMMA IInvStep == ASSUME IInv, [Next]_vars PROVE IInv'
  <1>1. TypeOK'
    BY TypeStep DEF IInv
  <1>2. CASE Next
    BY <1>1, <1>2, TriesStep, LinksStep, SessionsStep, ScopesStep, RemovalStep DEF IInv
  <1>3. CASE UNCHANGED vars
    <2> USE <1>3 DEF vars, configVars, linkVars, storeVars, loginVars, handlerVars
    <2>1. TriesAgree' /\ LinksAgree'
      BY DEF IInv, TriesAgree, LinksAgree
    <2>2. SessionsAgree'
      BY DEF IInv, SessionsAgree, HandlersAgree, HeldAgrees, StoreAgrees, ProofsAgree
    <2>3. ScopesAgree'
      BY DEF IInv, ScopesAgree, Wish
    <2>4. RemovalAgrees'
      BY DEF IInv, RemovalAgrees, HoldsNoSession, Removing, Paired, Wish
    <2> QED
      BY <1>1, <2>1, <2>2, <2>3, <2>4 DEF IInv
  <1> QED
    BY <1>2, <1>3

LEMMA Inductive == Spec => []IInv
  <1>1. Init => IInv
    BY InitTypes, InitTries, InitLinks, InitSessions, InitScopes, InitRemoval DEF IInv
  <1> QED
    BY <1>1, IInvStep, PTL DEF Spec

(* However many try at once and give up half way, no more wrong tries are    *)
(* answered between two lockouts than the limit, and a pairing link lets in  *)
(* one of those who try it: for any number of requests, any limit.           *)
THEOREM TriesAreAlwaysBounded == Spec => []TriesAreBounded
  <1>1. IInv => TriesAreBounded
    BY TriesFollow DEF IInv
  <1> QED
    BY <1>1, Inductive, PTL

(* A session that was signed out stays out, over restarts as well, and after *)
(* a change of the password every session there is was given for the new one,*)
(* whatever else the requests under way are doing.                           *)
THEOREM SignedOutAlwaysStaysOut == Spec => []SignedOutStaysOut
  <1>1. IInv => SignedOutStaysOut
    BY SessionsFollow DEF IInv
  <1> QED
    BY <1>1, Inductive, PTL

(* An integration that is not installed holds neither session nor secret but *)
(* from whoever was being served as it went, with any number of them being   *)
(* installed, paired, used and removed at once.                              *)
THEOREM UninstalledAlwaysHoldsNothing == Spec => []UninstalledHoldsNothing
  <1>1. IInv => UninstalledHoldsNothing
    BY RemovalFollows DEF IInv
  <1> QED
    BY <1>1, Inductive, PTL

=============================================================================
