----------------------------- MODULE MCPrograms -----------------------------
(***************************************************************************)
(* Two processes at a time of three names, two of them one name to norm.   *)
(* A behaviour draws on the limits of single programs, on a pool with      *)
(* words, or on the day's budget and its countdown.                        *)
(***************************************************************************)
EXTENDS Programs, TLC

MCKey == "game.exe" :> "game.exe" @@ "Game.exe" :> "game.exe" @@ "chrome.exe" :> "chrome.exe"
MCBrowser == 1 :> "chrome.exe" @@ 2 :> "chrome.exe"

NoLimits == [k \in Keys |-> 0]
Paused == [enabled |-> FALSE, budget |-> 0, blocked |-> {}, limits |-> NoLimits, groups |-> {}]
Rules == [Paused EXCEPT !.enabled = TRUE]

LimitGame == [Rules EXCEPT !.limits = [NoLimits EXCEPT !["game.exe"] = 1]]
BlockGame == [Rules EXCEPT !.blocked = {"game.exe"}]
GamePool == [name |-> "games", members |-> {"game.exe"}, words |-> {"game.exe", "chrome.exe"}, pages |-> {1}, limit |-> 1]
WordPool == [GamePool EXCEPT !.members = {}]

InFront(apps, web) == [apps |-> apps, web |-> web]

MCPlays ==
    {[rules |-> {Paused, LimitGame, BlockGame}, names |-> {"game.exe", "Game.exe"}, samples |-> {}, extras |-> {}],
     [rules |-> {Paused, [Rules EXCEPT !.groups = {WordPool}]}, names |-> {"game.exe", "chrome.exe"},
      samples |-> {InFront(NoSecs, 1 :> 1 @@ 2 :> 1)}, extras |-> {}],
     [rules |-> {Paused, [Rules EXCEPT !.groups = {GamePool}]}, names |-> {},
      samples |-> {InFront(1 :> 1, 1 :> 1), InFront(1 :> 2 @@ 2 :> 1, 1 :> 1 @@ 2 :> 2), InFront(2 :> 1 @@ 3 :> 1, NoSecs)},
      extras |-> {}],
     [rules |-> {Paused, Rules, [Rules EXCEPT !.budget = 1], [Rules EXCEPT !.budget = 2]}, names |-> {},
      samples |-> {}, extras |-> {1}]}

Symmetry == Permutations(Pids)

=============================================================================
