---------------------------- MODULE MCMarketMap ----------------------------
(***************************************************************************)
(* Two markets, either of which may be enabled and may be normalized by    *)
(* the second.                                                             *)
(***************************************************************************)
EXTENDS MarketMap

CONSTANT usdt

MCMarketConfigs == [enabled : BOOLEAN, normalize : {{}, {usdt}}]

(* The messages of the admin and restarts alone.                           *)
MCAdminNext ==
  \E sender \in Account, removed \in (SUBSET Account) \ {{}} :
    RemoveMarketAuthorities(sender, removed)
MCAdminSpec == Init /\ [][MCAdminNext \/ Restart]_vars
=============================================================================
